----------------------------- MODULE DexProofs -----------------------------
(***************************************************************************)
(* Proofs about the spot exchange: over any vaults, tokens, orders and     *)
(* batches, no token is made or lost, orders keep their terms, the hints   *)
(* compute what the program needs, requests are closed right, and what is  *)
(* published restores the rollup vaults.                                   *)
(*                                                                         *)
(* The program and its hints are folds over lists of changes.  A fold is   *)
(* followed from element to element by a trace; of an order, two parties   *)
(* or a transfer, whose changes are few, the trace is spelled out.         *)
(***************************************************************************)
EXTENDS DexSafety, SumTheorems, SequenceTheorems

-----------------------------------------------------------------------------
(* Folds over sequences.  FoldLeft is defined by recursion over the sets of *)
(* indices of a sequence, of which it uses 1 .. i.  The step at index i is  *)
(* here a function from a set D of values to itself.                        *)

\* What the fold computes over each set of indices.
IsFold(g, base, step, n) ==
  \A T \in SUBSET (1 .. n) :
    g[T] = IF T = {} THEN base ELSE step[Max(T)][g[T \ {Max(T)}]]

\* There is such a table: from one up to n, one up to n + 1.
LEMMA FoldTableExists ==
  ASSUME NEW D, NEW base \in D, NEW n \in Nat, NEW step \in [1 .. n -> [D -> D]]
  PROVE  \E g \in [SUBSET (1 .. n) -> D] : IsFold(g, base, step, n)
PROOF
  <1> DEFINE Good == {m \in Nat : m <= n =>
                        \E g \in [SUBSET (1 .. m) -> D] : IsFold(g, base, step, m)}
  <1>1. 0 \in Good
    <2> DEFINE g == [T \in SUBSET (1 .. 0) |-> base]
    <2>1. g \in [SUBSET (1 .. 0) -> D] /\ \A T \in SUBSET (1 .. 0) : T = {} /\ g[T] = base
      OBVIOUS
    <2>2. IsFold(g, base, step, 0)
      BY <2>1 DEF IsFold
    <2> QED
      BY <2>1, <2>2
  <1>2. ASSUME NEW m \in Nat, m \in Good
        PROVE  m + 1 \in Good
    <2>a. m + 1 \in Nat
      OBVIOUS
    <2> SUFFICES ASSUME m + 1 <= n
                 PROVE  \E h \in [SUBSET (1 .. (m + 1)) -> D] : IsFold(h, base, step, m + 1)
      BY <2>a, Zenon
    <2>0. m <= n
      OBVIOUS
    <2>1. PICK g \in [SUBSET (1 .. m) -> D] : IsFold(g, base, step, m)
      BY <1>2, <2>0, Zenon
    <2> DEFINE h == [T \in SUBSET (1 .. (m + 1)) |->
                       IF m + 1 \in T THEN step[m + 1][g[T \ {m + 1}]] ELSE g[T]]
    <2>2. ASSUME NEW T \in SUBSET (1 .. (m + 1))
          PROVE  /\ T \ {m + 1} \in SUBSET (1 .. m)
                 /\ m + 1 \notin T => T \in SUBSET (1 .. m)
                 /\ h[T] \in D
                 /\ h[T] = IF T = {} THEN base ELSE step[Max(T)][h[T \ {Max(T)}]]
      <3>1. T \ {m + 1} \in SUBSET (1 .. m) /\ (m + 1 \notin T => T \in SUBSET (1 .. m))
        OBVIOUS
      <3>2. CASE m + 1 \in T
        <4>1. Max(T) = m + 1
          BY <3>2, MaxOfIndices
        <4>2. h[T] = step[m + 1][g[T \ {m + 1}]] /\ h[T \ {m + 1}] = g[T \ {m + 1}]
          BY <3>2
        <4>3. step[m + 1] \in [D -> D] /\ g[T \ {m + 1}] \in D
          BY <3>1
        <4> QED
          BY <3>1, <3>2, <4>1, <4>2, <4>3
      <3>3. CASE m + 1 \notin T
        <4>1. h[T] = g[T] /\ g[T] \in D
          BY <3>1, <3>3
        <4>2. g[T] = IF T = {} THEN base ELSE step[Max(T)][g[T \ {Max(T)}]]
          BY <2>1, <3>1, <3>3 DEF IsFold
        <4>3. T \ {Max(T)} \in SUBSET (1 .. (m + 1)) /\ m + 1 \notin T \ {Max(T)}
          BY <3>3
        <4>4. h[T \ {Max(T)}] = g[T \ {Max(T)}]
          BY <4>3
        <4> QED
          BY <3>1, <4>1, <4>2, <4>4
      <3> QED
        BY <3>2, <3>3
    <2>3. h \in [SUBSET (1 .. (m + 1)) -> D]
      BY <2>2
    <2>4. IsFold(h, base, step, m + 1)
      BY <2>2 DEF IsFold
    <2> QED
      BY <2>3, <2>4
  <1> HIDE DEF Good
  <1>3. \A m \in Nat : m \in Good
    BY <1>1, <1>2, NaturalInduction
  <1>4. n <= n
    OBVIOUS
  <1> QED
    BY <1>3, <1>4, Zenon DEF Good

\* A fold passes through a value of D before and after every index.
IsTrace(tr, base, step, n) ==
  /\ tr[0] = base
  /\ \A i \in 1 .. n : tr[i] = step[i][tr[i - 1]]

\* What FoldLeft computes, where it stays in D.
Follows(h, D, base, step, n) ==
  /\ h[{}] = base
  /\ \A T \in SUBSET (1 .. n) :
       T # {} /\ h[T \ {Max(T)}] \in D => h[T] = step[Max(T)][h[T \ {Max(T)}]]

\* What such a table tells of the whole sequence, index by index.
LEMMA FoldHasTrace ==
  ASSUME NEW D, NEW base \in D, NEW n \in Nat, NEW step \in [1 .. n -> [D -> D]],
         NEW h, Follows(h, D, base, step, n)
  PROVE  \E tr \in [0 .. n -> D] : IsTrace(tr, base, step, n) /\ tr[n] = h[1 .. n]
PROOF
  <1> DEFINE tr == [i \in 0 .. n |-> h[1 .. i]]
  <1>1. tr[0] = base
    <2>1. 1 .. 0 = {}
      OBVIOUS
    <2> QED
      BY <2>1 DEF Follows
  <1>2. ASSUME NEW i \in 1 .. n, tr[i - 1] \in D
        PROVE  tr[i] = step[i][tr[i - 1]]
    <2>1. 1 .. i \in SUBSET (1 .. n) /\ i \in 1 .. i /\ i \in Nat \ {0}
      OBVIOUS
    <2>2. Max(1 .. i) = i
      BY <2>1, MaxOfIndices
    <2>3. (1 .. i) \ {i} = 1 .. (i - 1) /\ i - 1 \in 0 .. n /\ i \in 0 .. n
      OBVIOUS
    <2>4. tr[i] = h[1 .. i] /\ tr[i - 1] = h[(1 .. i) \ {i}]
      BY <2>3
    <2> HIDE DEF tr
    <2>5. h[1 .. i] = step[i][h[(1 .. i) \ {i}]]
      BY <1>2, <2>1, <2>2, <2>4 DEF Follows
    <2> QED
      BY <2>4, <2>5
  <1> DEFINE Good == {i \in Nat : i <= n => tr[i] \in D}
  <1>3. 0 \in Good
    BY <1>1
  <1>4. ASSUME NEW i \in Nat, i \in Good PROVE i + 1 \in Good
    <2> SUFFICES ASSUME i + 1 <= n PROVE tr[i + 1] \in D
      OBVIOUS
    <2>1. i + 1 \in 1 .. n /\ (i + 1) - 1 = i /\ tr[i] \in D
      BY <1>4
    <2>2. tr[i + 1] = step[i + 1][tr[i]]
      BY <1>2, <2>1
    <2> QED
      BY <2>1, <2>2
  <1> HIDE DEF Good
  <1>5. \A i \in Nat : i \in Good
    BY <1>3, <1>4, NaturalInduction
  <1>6. \A i \in 0 .. n : tr[i] \in D
    <2> SUFFICES ASSUME NEW i \in 0 .. n PROVE tr[i] \in D
      OBVIOUS
    <2>1. i \in Nat /\ i <= n
      OBVIOUS
    <2> QED
      BY <1>5, <2>1, Zenon DEF Good
  <1>7. tr \in [0 .. n -> D]
    BY <1>6
  <1>8. IsTrace(tr, base, step, n)
    <2> SUFFICES ASSUME NEW i \in 1 .. n PROVE tr[i] = step[i][tr[i - 1]]
      BY <1>1 DEF IsTrace
    <2>1. i - 1 \in 0 .. n
      OBVIOUS
    <2> QED
      BY <1>2, <1>6, <2>1
  <1> QED
    BY <1>7, <1>8

\* The same, with hypotheses and conclusion as formulas of their own.
CanStep(h, D, base, step, n) ==
  base \in D /\ n \in Nat /\ step \in [1 .. n -> [D -> D]] /\ Follows(h, D, base, step, n)

HasTrace(h, D, base, step, n) ==
  \E tr \in [0 .. n -> D] : IsTrace(tr, base, step, n) /\ tr[n] = h[1 .. n]

LEMMA FoldIsTraced ==
  ASSUME NEW h, NEW D, NEW base, NEW step, NEW n, CanStep(h, D, base, step, n)
  PROVE  HasTrace(h, D, base, step, n)
PROOF
  <1>1. base \in D /\ n \in Nat /\ step \in [1 .. n -> [D -> D]] /\ Follows(h, D, base, step, n)
    BY DEF CanStep
  <1>2. \E tr \in [0 .. n -> D] : IsTrace(tr, base, step, n) /\ tr[n] = h[1 .. n]
    BY <1>1, FoldHasTrace
  <1> QED
    BY <1>2 DEF HasTrace

-----------------------------------------------------------------------------
(* Short sequences.                                                        *)

\* Short sequences, put together.
LEMMA AppendToNone ==
  ASSUME NEW a
  PROVE  Append(<<>>, a) = <<a>>
OBVIOUS

\* A sequence of two elements is the pair of them.
LEMMA TupleOfTwo ==
  ASSUME NEW S, NEW q \in Seq(S), Len(q) = 2, NEW a, NEW b, q[1] = a, q[2] = b
  PROVE  q = <<a, b>>
PROOF
  <1>1. PICK r : r = <<a, b>>
    OBVIOUS
  <1>2. \A i \in 1 .. 2 : q[i] \in S
    BY ElementOfSeq
  <1>3. r \in Seq(S) /\ Len(r) = 2 /\ r[1] = a /\ r[2] = b
    BY <1>1, <1>2
  <1>4. \A i \in 1 .. 2 : q[i] = r[i]
    BY <1>3
  <1> QED
    BY <1>1, <1>3, <1>4, SeqEqual

\* The same, of three.
LEMMA TupleOfThree ==
  ASSUME NEW S, NEW q \in Seq(S), Len(q) = 3, NEW a, NEW b, NEW c,
         q[1] = a, q[2] = b, q[3] = c
  PROVE  q = <<a, b, c>>
PROOF
  <1>1. PICK r : r = <<a, b, c>>
    OBVIOUS
  <1>2. \A i \in 1 .. 3 : q[i] \in S
    BY ElementOfSeq
  <1>3. r \in Seq(S) /\ Len(r) = 3 /\ r[1] = a /\ r[2] = b /\ r[3] = c
    BY <1>1, <1>2
  <1>4. \A i \in 1 .. 3 : q[i] = r[i]
    BY <1>3
  <1> QED
    BY <1>1, <1>3, <1>4, SeqEqual

\* The same, of four.
LEMMA TupleOfFour ==
  ASSUME NEW S, NEW q \in Seq(S), Len(q) = 4, NEW a, NEW b, NEW c, NEW d,
         q[1] = a, q[2] = b, q[3] = c, q[4] = d
  PROVE  q = <<a, b, c, d>>
PROOF
  <1>1. PICK r : r = <<a, b, c, d>>
    OBVIOUS
  <1>2. \A i \in 1 .. 4 : q[i] \in S
    BY ElementOfSeq
  <1>3. r \in Seq(S) /\ Len(r) = 4 /\ r[1] = a /\ r[2] = b /\ r[3] = c /\ r[4] = d
    BY <1>1, <1>2
  <1>4. \A i \in 1 .. 4 : q[i] = r[i]
    BY <1>3
  <1> QED
    BY <1>1, <1>3, <1>4, SeqEqual

\* One more element.
IsAppend(q, s, d) ==
  /\ Len(q) = Len(s) + 1
  /\ \A i \in 1 .. Len(s) : q[i] = s[i]
  /\ q[Len(s) + 1] = d

\* Append, as the prover can use it.
LEMMA AppendIs ==
  ASSUME NEW S, NEW s \in Seq(S), NEW d \in S
  PROVE  Append(s, d) \in Seq(S) /\ IsAppend(Append(s, d), s, d)
PROOF
  <1>1. Append(s, d) \in Seq(S) /\ Len(Append(s, d)) = Len(s) + 1
    OBVIOUS
  <1>2. \A i \in 1 .. Len(s) : Append(s, d)[i] = s[i]
    OBVIOUS
  <1>3. Append(s, d)[Len(s) + 1] = d
    OBVIOUS
  <1> QED
    BY <1>1, <1>2, <1>3, Zenon DEF IsAppend

\* An element put behind one.
LEMMA AppendToOne ==
  ASSUME NEW a, NEW b
  PROVE  Append(<<a>>, b) = <<a, b>>
PROOF
  <1> DEFINE S == {a, b}
  <1>1. PICK s : s = <<a>>
    OBVIOUS
  <1>2. s \in Seq(S) /\ Len(s) = 1 /\ s[1] = a /\ b \in S
    BY <1>1
  <1> HIDE DEF S
  <1>3. PICK q : q = Append(s, b)
    OBVIOUS
  <1>4. q \in Seq(S) /\ IsAppend(q, s, b)
    BY <1>2, <1>3, AppendIs, Zenon
  <1>5. Len(q) = 2 /\ q[1] = a /\ q[2] = b
    BY <1>2, <1>4 DEF IsAppend
  <1>6. q = <<a, b>>
    <2> HIDE <1>1, <1>3
    <2> QED
      BY <1>4, <1>5, TupleOfTwo
  <1> QED
    BY <1>1, <1>3, <1>6, Zenon

\* An element put behind two.
LEMMA AppendToTwo ==
  ASSUME NEW a, NEW b, NEW c
  PROVE  Append(<<a, b>>, c) = <<a, b, c>>
PROOF
  <1> DEFINE S == {a, b, c}
  <1>1. PICK s : s = <<a, b>>
    OBVIOUS
  <1>2. s \in Seq(S) /\ Len(s) = 2 /\ s[1] = a /\ s[2] = b /\ c \in S
    BY <1>1
  <1> HIDE DEF S
  <1>3. PICK q : q = Append(s, c)
    OBVIOUS
  <1>4. q \in Seq(S) /\ IsAppend(q, s, c)
    BY <1>2, <1>3, AppendIs, Zenon
  <1>5. Len(q) = 3 /\ q[1] = a /\ q[2] = b /\ q[3] = c
    BY <1>2, <1>4 DEF IsAppend
  <1>6. q = <<a, b, c>>
    <2> HIDE <1>1, <1>3
    <2> QED
      BY <1>4, <1>5, TupleOfThree
  <1> QED
    BY <1>1, <1>3, <1>6, Zenon

\* An element put behind three.
LEMMA AppendToThree ==
  ASSUME NEW a, NEW b, NEW c, NEW d
  PROVE  Append(<<a, b, c>>, d) = <<a, b, c, d>>
PROOF
  <1> DEFINE S == {a, b, c, d}
  <1>1. PICK s : s = <<a, b, c>>
    OBVIOUS
  <1>2. s \in Seq(S) /\ Len(s) = 3 /\ s[1] = a /\ s[2] = b /\ s[3] = c /\ d \in S
    BY <1>1
  <1> HIDE DEF S
  <1>3. PICK q : q = Append(s, d)
    OBVIOUS
  <1>4. q \in Seq(S) /\ IsAppend(q, s, d)
    BY <1>2, <1>3, AppendIs, Zenon
  <1>5. Len(q) = 4 /\ q[1] = a /\ q[2] = b /\ q[3] = c /\ q[4] = d
    BY <1>2, <1>4 DEF IsAppend
  <1>6. q = <<a, b, c, d>>
    <2> HIDE <1>1, <1>3
    <2> QED
      BY <1>4, <1>5, TupleOfFour
  <1> QED
    BY <1>1, <1>3, <1>6, Zenon

\* A sequence and then another.
IsConcat(q, s, t) ==
  /\ Len(q) = Len(s) + Len(t)
  /\ \A i \in 1 .. Len(s) : q[i] = s[i]
  /\ \A i \in 1 .. Len(t) : q[Len(s) + i] = t[i]

\* Concatenation, as the prover can use it.
LEMMA ConcatIs ==
  ASSUME NEW S, NEW s \in Seq(S), NEW t \in Seq(S)
  PROVE  s \o t \in Seq(S) /\ IsConcat(s \o t, s, t)
PROOF
  <1>1. PICK q : q = s \o t
    OBVIOUS
  <1>2. /\ q \in Seq(S) /\ Len(q) = Len(s) + Len(t)
        /\ \A i \in 1 .. Len(s) + Len(t) : q[i] = IF i <= Len(s) THEN s[i] ELSE t[i - Len(s)]
    BY <1>1, ConcatProperties, Zenon
  <1>3. Len(s) \in Nat /\ Len(t) \in Nat
    BY LenProperties
  <1>4. ASSUME NEW i \in 1 .. Len(s) PROVE q[i] = s[i]
    BY <1>2, <1>3
  <1>5. ASSUME NEW i \in 1 .. Len(t) PROVE q[Len(s) + i] = t[i]
    <2>1. /\ Len(s) + i \in 1 .. Len(s) + Len(t) /\ ~ (Len(s) + i <= Len(s))
          /\ (Len(s) + i) - Len(s) = i
      BY <1>3
    <2> QED
      BY <1>2, <2>1
  <1> QED
    BY <1>1, <1>2, <1>4, <1>5, Zenon DEF IsConcat

\* Two elements behind two.
LEMMA TwoWithTwo ==
  ASSUME NEW a, NEW b, NEW c, NEW d
  PROVE  <<a, b>> \o <<c, d>> = <<a, b, c, d>>
PROOF
  <1> DEFINE S == {a, b, c, d}
  <1>1. PICK s, t : s = <<a, b>> /\ t = <<c, d>>
    OBVIOUS
  <1>2. /\ s \in Seq(S) /\ Len(s) = 2 /\ s[1] = a /\ s[2] = b
        /\ t \in Seq(S) /\ Len(t) = 2 /\ t[1] = c /\ t[2] = d
    BY <1>1
  <1> HIDE DEF S
  <1>3. PICK q : q = s \o t
    OBVIOUS
  <1>4. q \in Seq(S) /\ IsConcat(q, s, t)
    BY <1>2, <1>3, ConcatIs, Zenon
  <1>5. Len(q) = 4 /\ q[1] = a /\ q[2] = b /\ q[3] = c /\ q[4] = d
    BY <1>2, <1>4 DEF IsConcat
  <1>6. q = <<a, b, c, d>>
    <2> HIDE <1>1, <1>3
    <2> QED
      BY <1>4, <1>5, TupleOfFour
  <1> QED
    BY <1>1, <1>3, <1>6, Zenon
-----------------------------------------------------------------------------
(* Types.                                                                  *)

Dicts == [VaultIds -> Vault]

\* A change to a vault of the trees.
IsL2Change(c) ==
  /\ c.stark_key \in StarkKeys /\ c.token_id \in TokenIds
  /\ c.vault_index \in VaultIds /\ c.diff \in Int

\* An access that does not leave the tree.
IsAccess(a) == a.key \in VaultIds /\ a.new_value \in Vault

\* What a vault holds, empty or not: a vault with a key has a token and a balance.
LEMMA VaultFields ==
  ASSUME NEW vault \in Vault
  PROVE  /\ vault.stark_key \in StarkKeys \cup {0} /\ vault.token_id \in TokenIds \cup {0}
         /\ vault.stark_key \in Nat /\ vault.token_id \in Nat
         /\ vault.balance \in 0 .. BALANCE_BOUND - 1 /\ vault.balance \in Nat
         /\ vault = [stark_key |-> vault.stark_key, token_id |-> vault.token_id,
                     balance |-> vault.balance]
         /\ vault # EmptyVault => /\ vault.stark_key \in StarkKeys /\ vault.token_id \in TokenIds
                                  /\ vault.balance # 0
PROOF
  <1>1. CASE vault = EmptyVault
    BY <1>1, DexAssumption DEF EmptyVault
  <1>2. CASE vault # EmptyVault
    <2>1. vault \in [stark_key : StarkKeys, token_id : TokenIds, balance : 1 .. BALANCE_BOUND - 1]
      BY <1>2 DEF Vault
    <2> QED
      BY <2>1, DexAssumption
  <1> QED
    BY <1>1, <1>2

\* A vault is the state that its own fields give.
LEMMA VaultStateOfFields ==
  ASSUME NEW vault \in Vault
  PROVE  get_vault_state(vault.stark_key, vault.token_id, vault.balance) = vault
BY VaultFields DEF get_vault_state, EmptyVault

\* The state of a vault, empty or not, is one.
LEMMA VaultStateType ==
  ASSUME NEW k \in StarkKeys, NEW t \in TokenIds, NEW b \in Int, InRange(b)
  PROVE  get_vault_state(k, t, b) \in Vault
BY DexAssumption DEF get_vault_state, EmptyVault, Vault, InRange

\* An access that is made changes a vault of the tree to a balance in range.
LEMMA AccessType ==
  ASSUME NEW c, IsL2Change(c), NEW b, l2_vault_update_diff(c, b) # Rejected
  PROVE  /\ IsAccess(l2_vault_update_diff(c, b)) /\ InRange(b + c.diff)
         /\ l2_vault_update_diff(c, b) =
              l2_vault_update_balances(c.vault_index, c.stark_key, c.token_id, b, b + c.diff)
PROOF
  <1>1. InRange(b + c.diff)
    BY DEF l2_vault_update_diff
  <1>2. get_vault_state(c.stark_key, c.token_id, b + c.diff) \in Vault
    <2>1. b + c.diff \in Int
      BY <1>1, DexAssumption DEF InRange
    <2> QED
      BY <1>1, <2>1, VaultStateType DEF IsL2Change
  <1> QED
    BY <1>1, <1>2 DEF l2_vault_update_diff, l2_vault_update_balances, IsAccess, IsL2Change

-----------------------------------------------------------------------------
(* The squashing of a dictionary.                                          *)

SquashStep(d, a) ==
  IF /\ d # Rejected /\ a # Rejected
     /\ a.prev_value = d[a.key]
  THEN [d EXCEPT ![a.key] = a.new_value]
  ELSE Rejected

\* The dictionaries between the accesses.
IsSquash(tr, dict, accesses, n) ==
  /\ tr \in [0 .. n -> Dicts \cup {Rejected}]
  /\ tr[0] = dict
  /\ \A i \in 1 .. n : tr[i] = SquashStep(tr[i - 1], accesses[i])

\* squash_dict, access by access.
LEMMA SquashHasTrace ==
  ASSUME NEW dict \in Dicts, NEW accesses, NEW n \in Nat, DOMAIN accesses = 1 .. n,
         \A i \in 1 .. n : IsAccess(accesses[i]) \/ accesses[i] = Rejected
  PROVE  \E tr : IsSquash(tr, dict, accesses, n) /\ tr[n] = squash_dict(dict, accesses)
PROOF
  <1> DEFINE D == Dicts \cup {Rejected}
             step == [i \in 1 .. n |-> [d \in D |-> SquashStep(d, accesses[i])]]
             IsTable(g) ==
               g = [s \in SUBSET DOMAIN accesses |->
                      IF s = {} THEN dict
                      ELSE SquashStep(g[s \ {Max(s)}], accesses[Max(s)])]
             h == CHOOSE g : IsTable(g)
  <1>1. squash_dict(dict, accesses) = h[DOMAIN accesses]
    BY DEF squash_dict, FoldLeft, MapThenFoldSet, SquashStep
  <1>2. step \in [1 .. n -> [D -> D]]
    <2> SUFFICES ASSUME NEW i \in 1 .. n, NEW d \in D PROVE SquashStep(d, accesses[i]) \in D
      OBVIOUS
    <2>1. CASE d \in Dicts /\ IsAccess(accesses[i])
      BY <2>1 DEF SquashStep, IsAccess, Dicts
    <2>2. CASE d = Rejected \/ accesses[i] = Rejected
      BY <2>2 DEF SquashStep
    <2> QED
      BY <2>1, <2>2
  <1>3. dict \in D
    OBVIOUS
  <1>4. PICK g \in [SUBSET (1 .. n) -> D] : IsFold(g, dict, step, n)
    <2> HIDE DEF D, step
    <2> QED
      BY <1>2, <1>3, FoldTableExists
  <1>5. \A s \in SUBSET (1 .. n) : s # {} => Max(s) \in 1 .. n /\ s \ {Max(s)} \in SUBSET (1 .. n)
    BY MaxIsIndex
  <1>6. IsTable(g)
    <2>1. ASSUME NEW s \in SUBSET (1 .. n)
          PROVE  g[s] = IF s = {} THEN dict
                        ELSE SquashStep(g[s \ {Max(s)}], accesses[Max(s)])
      BY <1>4, <1>5 DEF IsFold
    <2> QED
      BY <2>1
  <1>7. IsTable(h)
    <2> HIDE DEF IsTable
    <2> QED
      BY <1>6
  <1>8. h[{}] = dict
    BY <1>7
  <1>9. ASSUME NEW s \in SUBSET (1 .. n), s # {}, h[s \ {Max(s)}] \in D
        PROVE  h[s] = step[Max(s)][h[s \ {Max(s)}]]
    <2>1. h[s] = SquashStep(h[s \ {Max(s)}], accesses[Max(s)])
      <3> HIDE DEF h, step
      <3> QED
        BY <1>7, <1>9
    <2>2. Max(s) \in 1 .. n
      BY <1>5, <1>9
    <2> HIDE DEF h, IsTable, D
    <2>3. step[Max(s)][h[s \ {Max(s)}]] = SquashStep(h[s \ {Max(s)}], accesses[Max(s)])
      BY <1>9, <2>2
    <2> HIDE DEF step
    <2> QED
      BY <2>1, <2>3
  <1>10. PICK tr \in [0 .. n -> D] : IsTrace(tr, dict, step, n) /\ tr[n] = h[1 .. n]
    <2> HIDE DEF D, step, h
    <2>1. Follows(h, D, dict, step, n)
      BY <1>8, <1>9 DEF Follows
    <2>2. CanStep(h, D, dict, step, n)
      BY <1>2, <1>3, <2>1 DEF CanStep
    <2>3. HasTrace(h, D, dict, step, n)
      BY <2>2, FoldIsTraced, Zenon
    <2> QED
      BY <2>3 DEF HasTrace
  <1>11. \A i \in 1 .. n : tr[i] = SquashStep(tr[i - 1], accesses[i])
    <2> SUFFICES ASSUME NEW i \in 1 .. n PROVE tr[i] = SquashStep(tr[i - 1], accesses[i])
      OBVIOUS
    <2>1. i - 1 \in 0 .. n
      OBVIOUS
    <2> QED
      BY <1>10, <2>1 DEF IsTrace
  <1> QED
    BY <1>1, <1>10, <1>11 DEF IsSquash, IsTrace

\* What a dictionary holds of a token, and what a change adds to that.
HeldIn(d, t) ==
  SumFunction([v \in VaultIds |-> IF d[v].token_id = t THEN d[v].balance ELSE 0])
Gain(c, t) == IF c.token_id = t THEN c.diff ELSE 0

\* An access that squash_dict takes adds to the tree what its change is worth.
LEMMA AccessGains ==
  ASSUME NEW d \in Dicts, NEW c, IsL2Change(c), NEW b, NEW t \in TokenIds,
         SquashStep(d, l2_vault_update_diff(c, b)) # Rejected
  PROVE  /\ SquashStep(d, l2_vault_update_diff(c, b)) \in Dicts
         /\ HeldIn(SquashStep(d, l2_vault_update_diff(c, b)), t) = HeldIn(d, t) + Gain(c, t)
PROOF
  <1> DEFINE a == l2_vault_update_diff(c, b)
             v == c.vault_index
             after == SquashStep(d, a)
             Share(e) == [w \in VaultIds |-> IF e[w].token_id = t THEN e[w].balance ELSE 0]
  <1>1. a # Rejected /\ a.prev_value = d[a.key] /\ after = [d EXCEPT ![a.key] = a.new_value]
    BY DEF SquashStep
  <1> HIDE DEF after
  <1>2. /\ IsAccess(a) /\ InRange(b + c.diff)
        /\ a = l2_vault_update_balances(v, c.stark_key, c.token_id, b, b + c.diff)
    BY <1>1, AccessType
  <1> HIDE DEF a
  <1>3. /\ a.key = v /\ a.prev_value = get_vault_state(c.stark_key, c.token_id, b)
        /\ a.new_value = get_vault_state(c.stark_key, c.token_id, b + c.diff)
    BY <1>2 DEF l2_vault_update_balances
  <1>4. v \in VaultIds /\ d[v] \in Vault /\ after \in Dicts
    BY <1>1, <1>2, <1>3 DEF IsAccess, Dicts, IsL2Change
  <1>5. /\ b = d[v].balance /\ b \in Nat
        /\ (IF d[v].token_id = t THEN d[v].balance ELSE 0) = (IF c.token_id = t THEN b ELSE 0)
    BY <1>1, <1>3, <1>4, VaultFields, DexAssumption DEF get_vault_state, EmptyVault
  <1>6. (IF after[v].token_id = t THEN after[v].balance ELSE 0)
          = (IF c.token_id = t THEN b + c.diff ELSE 0)
    <2>1. after[v] = get_vault_state(c.stark_key, c.token_id, b + c.diff)
      BY <1>1, <1>3, <1>4 DEF Dicts
    <2> QED
      BY <2>1, DexAssumption DEF get_vault_state, EmptyVault
  <1>7. \A w \in VaultIds : Share(d)[w] \in Int /\ Share(after)[w] \in Int
    BY <1>4, VaultFields DEF Dicts
  <1>8. \A w \in VaultIds \ {v} : Share(after)[w] = Share(d)[w]
    BY <1>1, <1>3, <1>4 DEF Dicts
  <1>9. SumFunctionOnSet(Share(after), VaultIds)
          = SumFunctionOnSet(Share(d), VaultIds) + (Share(after)[v] - Share(d)[v])
    <2> HIDE DEF Share
    <2>1. IsFiniteSet(VaultIds)
      BY RequestsAssumption
    <2> QED
      BY <1>4, <1>7, <1>8, <2>1, SumAfterChange
  <1>10. Share(after)[v] - Share(d)[v] = Gain(c, t)
    <2>1. /\ Share(d)[v] = IF c.token_id = t THEN b ELSE 0
          /\ Share(after)[v] = IF c.token_id = t THEN b + c.diff ELSE 0
      BY <1>4, <1>5, <1>6
    <2>2. b \in Int /\ c.diff \in Int
      BY <1>5 DEF IsL2Change
    <2> HIDE DEF Share
    <2> QED
      BY <2>1, <2>2 DEF Gain
  <1>11. \A e : HeldIn(e, t) = SumFunctionOnSet(Share(e), VaultIds)
    BY DEF HeldIn, SumFunction
  <1> HIDE DEF Share
  <1> QED
    BY <1>4, <1>9, <1>10, <1>11 DEF a, after

-----------------------------------------------------------------------------
(* L1 vaults.                                                              *)

\* The functions on subsets of K.
PartialOn(K, V) == UNION {[T -> V] : T \in SUBSET K}

\* A dictionary with some of the keys, spelled out.
LEMMA PartialType ==
  ASSUME NEW K, NEW V, NEW f
  PROVE  f \in PartialOn(K, V) <=>
           /\ DOMAIN f \subseteq K /\ f = [x \in DOMAIN f |-> f[x]]
           /\ \A x \in DOMAIN f : f[x] \in V
PROOF
  <1>1. ASSUME f \in PartialOn(K, V)
        PROVE  /\ DOMAIN f \subseteq K /\ f = [x \in DOMAIN f |-> f[x]]
               /\ \A x \in DOMAIN f : f[x] \in V
    BY <1>1 DEF PartialOn
  <1>2. ASSUME DOMAIN f \subseteq K, f = [x \in DOMAIN f |-> f[x]],
               \A x \in DOMAIN f : f[x] \in V
        PROVE  f \in PartialOn(K, V)
    <2>1. f \in [DOMAIN f -> V]
      BY <1>2
    <2> QED
      BY <1>2, <2>1 DEF PartialOn
  <1> QED
    BY <1>1, <1>2

\* The entry of a key is new, and the others are as they were.
ChangesOnly(after, before, key) ==
  /\ DOMAIN after = DOMAIN before \cup {key}
  /\ \A x \in DOMAIN before \ {key} : after[x] = before[x]

\* What is put in a dictionary is there, and the rest is as it was.
LEMMA PutType ==
  ASSUME NEW K, NEW V, NEW f \in PartialOn(K, V), NEW k \in K, NEW v \in V
  PROVE  /\ Put(f, k, v) \in PartialOn(K, V)
         /\ ChangesOnly(Put(f, k, v), f, k)
         /\ Put(f, k, v)[k] = v
PROOF
  <1> DEFINE g == Put(f, k, v)
  <1>1. DOMAIN g = DOMAIN f \cup {k} /\ g = [x \in DOMAIN g |-> g[x]]
    BY DEF Put
  <1>2. \A x \in DOMAIN f \cup {k} : g[x] = IF x = k THEN v ELSE f[x]
    BY DEF Put
  <1>3. DOMAIN f \subseteq K /\ \A x \in DOMAIN f : f[x] \in V
    BY PartialType
  <1> HIDE DEF g
  <1>4. g \in PartialOn(K, V)
    BY <1>1, <1>2, <1>3, PartialType
  <1> QED
    BY <1>1, <1>2, <1>4 DEF g, ChangesOnly

\* What is got of a dictionary has its type.
LEMMA GetOrType ==
  ASSUME NEW K, NEW V, NEW f \in PartialOn(K, V), NEW k, NEW default \in V
  PROVE  GetOr(f, k, default) \in V
BY PartialType DEF GetOr

\* The lesser and the greater of two numbers.
LEMMA MinOfTwo ==
  ASSUME NEW a \in Int, NEW b \in Int
  PROVE  /\ Min({a, b}) = IF a <= b THEN a ELSE b
         /\ Max({a, b}) = IF a >= b THEN a ELSE b
PROOF
  <1>1. \E x \in {a, b} : \A y \in {a, b} : x <= y
    OBVIOUS
  <1>2. Min({a, b}) \in {a, b} /\ \A y \in {a, b} : Min({a, b}) <= y
    BY <1>1 DEF Min
  <1>3. \E x \in {a, b} : \A y \in {a, b} : x >= y
    OBVIOUS
  <1>4. Max({a, b}) \in {a, b} /\ \A y \in {a, b} : Max({a, b}) >= y
    BY <1>3 DEF Max
  <1> QED
    BY <1>2, <1>4

L1Moves == [moved : Int, lowest : Int, highest : Int]
HintMoves == [min_balance : Int, current_balance : Int]

\* What a change to an L1 vault leaves of its entry.
LEMMA L1UpdateType ==
  ASSUME NEW K, NEW d \in PartialOn(K, L1Moves), NEW c, L1Key(c) \in K, c.diff \in Int
  PROVE  /\ l1_vault_update_diff(d, c) \in PartialOn(K, L1Moves)
         /\ ChangesOnly(l1_vault_update_diff(d, c), d, L1Key(c))
PROOF
  <1> DEFINE k == L1Key(c)
             vault == GetOr(d, k, [moved |-> 0, lowest |-> 0, highest |-> 0])
             moved == vault.moved + c.diff
             new == [moved |-> moved, lowest |-> Min({moved, vault.lowest}),
                     highest |-> Max({moved, vault.highest})]
  <1>1. vault \in L1Moves
    <2>1. [moved |-> 0, lowest |-> 0, highest |-> 0] \in L1Moves
      BY DEF L1Moves
    <2> QED
      BY <2>1, GetOrType
  <1> HIDE DEF vault
  <1>2. moved \in Int /\ vault.lowest \in Int /\ vault.highest \in Int
    BY <1>1 DEF L1Moves
  <1> HIDE DEF moved
  <1>3. Min({moved, vault.lowest}) \in Int /\ Max({moved, vault.highest}) \in Int
    BY <1>2, MinOfTwo
  <1>4. new \in L1Moves
    BY <1>2, <1>3 DEF L1Moves
  <1>5. l1_vault_update_diff(d, c) = Put(d, k, new)
    BY DEF l1_vault_update_diff, vault, moved
  <1> HIDE DEF new, k
  <1> QED
    BY <1>4, <1>5, PutType DEF k

\* What L1 vaults hold of a token, with what a batch has done to them so far.
HeldBy(net, d, t) ==
  SumFunction([key \in L1Vaults |->
    IF key.token_id # t THEN 0 ELSE net[key] + GetOr(d, key, [moved |-> 0]).moved])

\* What a vault moved by is a number, if nothing, 0.
LEMMA MovedType ==
  ASSUME NEW K, NEW d \in PartialOn(K, L1Moves), NEW key
  PROVE  GetOr(d, key, [moved |-> 0]).moved \in Int
PROOF
  <1>1. CASE key \in DOMAIN d
    <2>1. d[key] \in L1Moves
      BY <1>1, PartialType
    <2> QED
      BY <1>1, <2>1 DEF GetOr, L1Moves
  <1>2. CASE key \notin DOMAIN d
    BY <1>2 DEF GetOr
  <1> QED
    BY <1>1, <1>2

\* A change to an L1 vault adds to what L1 holds what it is worth.
LEMMA L1UpdateGains ==
  ASSUME NEW d \in PartialOn(L1Vaults, L1Moves), NEW c, L1Key(c) \in L1Vaults, c.diff \in Int,
         NEW net \in [L1Vaults -> Int], NEW t
  PROVE  HeldBy(net, l1_vault_update_diff(d, c), t) = HeldBy(net, d, t) + Gain(c, t)
PROOF
  <1> DEFINE k == L1Key(c)
             after == l1_vault_update_diff(d, c)
             Moved(e, key) == GetOr(e, key, [moved |-> 0]).moved
             Share(e) == [key \in L1Vaults |->
                            IF key.token_id # t THEN 0 ELSE net[key] + Moved(e, key)]
  <1>1. after \in PartialOn(L1Vaults, L1Moves) /\ ChangesOnly(after, d, k)
    BY L1UpdateType
  <1>2. \A key \in L1Vaults \ {k} : Moved(after, key) = Moved(d, key)
    <2> HIDE DEF after, k
    <2> QED
      BY <1>1 DEF GetOr, ChangesOnly
  <1>3. ASSUME NEW e \in PartialOn(L1Vaults, L1Moves), NEW key
        PROVE  Moved(e, key) \in Int
    BY MovedType
  <1>4. Moved(after, k) = Moved(d, k) + c.diff
    <2> DEFINE vault == GetOr(d, k, [moved |-> 0, lowest |-> 0, highest |-> 0])
               moved == vault.moved + c.diff
               new == [moved |-> moved, lowest |-> Min({moved, vault.lowest}),
                       highest |-> Max({moved, vault.highest})]
    <2>1. vault.moved = Moved(d, k)
      BY DEF GetOr
    <2>2. after = Put(d, k, new)
      BY DEF l1_vault_update_diff
    <2> HIDE DEF vault, k
    <2>3. k \in DOMAIN after /\ after[k] = new
      BY <2>2 DEF Put
    <2>4. Moved(after, k) = moved
      BY <2>3 DEF GetOr
    <2> QED
      BY <2>1, <2>4
  <1> HIDE DEF after, k, Moved
  <1>5. \A key \in L1Vaults : Share(d)[key] \in Int /\ Share(after)[key] \in Int
    BY <1>1, <1>3
  <1>6. \A key \in L1Vaults \ {k} : Share(after)[key] = Share(d)[key]
    BY <1>2
  <1>7. k \in L1Vaults /\ k.token_id = c.token_id
    BY DEF k, L1Key
  <1>8. Share(after)[k] - Share(d)[k] = Gain(c, t)
    BY <1>1, <1>3, <1>4, <1>7 DEF Gain
  <1>9. \A e : HeldBy(net, e, t) = SumFunctionOnSet(Share(e), L1Vaults)
    BY DEF HeldBy, SumFunction, Moved
  <1>10. SumFunctionOnSet(Share(after), L1Vaults)
          = SumFunctionOnSet(Share(d), L1Vaults) + (Share(after)[k] - Share(d)[k])
    <2> HIDE DEF Share
    <2>1. IsFiniteSet(L1Vaults)
      BY RequestsAssumption
    <2> QED
      BY <1>5, <1>6, <1>7, <2>1, SumAfterChange
  <1> HIDE DEF Share
  <1> QED
    BY <1>8, <1>9, <1>10 DEF after

\* One step of the hint.
HintStep(updates, key, diff) ==
  LET balances == GetOr(updates, key, [min_balance |-> 0, current_balance |-> 0])
      new_balance == balances.current_balance + diff
  IN  Put(updates, key, [min_balance |-> Min({new_balance, balances.min_balance}),
                         current_balance |-> new_balance])

\* A step of the hint changes one entry.
LEMMA HintStepType ==
  ASSUME NEW K, NEW updates \in PartialOn(K, HintMoves), NEW key \in K, NEW diff \in Int
  PROVE  HintStep(updates, key, diff) \in PartialOn(K, HintMoves)
PROOF
  <1> DEFINE balances == GetOr(updates, key, [min_balance |-> 0, current_balance |-> 0])
             new_balance == balances.current_balance + diff
             new == [min_balance |-> Min({new_balance, balances.min_balance}),
                     current_balance |-> new_balance]
  <1>1. balances \in HintMoves
    <2>1. [min_balance |-> 0, current_balance |-> 0] \in HintMoves
      BY DEF HintMoves
    <2> QED
      BY <2>1, GetOrType
  <1>2. HintStep(updates, key, diff) = Put(updates, key, new)
    BY DEF HintStep
  <1> HIDE DEF balances
  <1>3. new_balance \in Int /\ balances.min_balance \in Int
    BY <1>1 DEF HintMoves
  <1>4. new \in HintMoves
    BY <1>3, MinOfTwo DEF HintMoves
  <1> HIDE DEF new
  <1> QED
    BY <1>2, <1>4, PutType

\* The program and the hint agree on every L1 vault, of which 0 is a balance on
\* the way.
Agree(d, updates) ==
  /\ DOMAIN updates = DOMAIN d
  /\ \A k \in DOMAIN d :
       /\ d[k].moved = updates[k].current_balance
       /\ d[k].lowest = updates[k].min_balance
       /\ d[k].lowest <= 0 /\ d[k].highest >= 0

\* A change to a vault of the program and the step of the hint for it agree again.
LEMMA StepsAgree ==
  ASSUME NEW K, NEW d \in PartialOn(K, L1Moves), NEW updates \in PartialOn(K, HintMoves),
         Agree(d, updates), NEW c, L1Key(c) \in K, c.diff \in Int
  PROVE  /\ HintStep(updates, L1Key(c), c.diff) \in PartialOn(K, HintMoves)
         /\ Agree(l1_vault_update_diff(d, c), HintStep(updates, L1Key(c), c.diff))
PROOF
  <1> DEFINE k == L1Key(c)
             vault == GetOr(d, k, [moved |-> 0, lowest |-> 0, highest |-> 0])
             moved == vault.moved + c.diff
             new == [moved |-> moved, lowest |-> Min({moved, vault.lowest}),
                     highest |-> Max({moved, vault.highest})]
             balances == GetOr(updates, k, [min_balance |-> 0, current_balance |-> 0])
             new_balance == balances.current_balance + c.diff
             hinted == [min_balance |-> Min({new_balance, balances.min_balance}),
                        current_balance |-> new_balance]
  <1>1. vault \in L1Moves
    <2>1. [moved |-> 0, lowest |-> 0, highest |-> 0] \in L1Moves
      BY DEF L1Moves
    <2> QED
      BY <2>1, GetOrType
  <1>2. /\ vault.moved = balances.current_balance /\ vault.lowest = balances.min_balance
        /\ vault.lowest <= 0 /\ vault.highest >= 0
    <2>1. CASE k \in DOMAIN d
      <3>1. vault = d[k] /\ balances = updates[k]
        BY <2>1 DEF GetOr, Agree
      <3> QED
        BY <2>1, <3>1 DEF Agree
    <2>2. CASE k \notin DOMAIN d
      <3>1. /\ vault = [moved |-> 0, lowest |-> 0, highest |-> 0]
            /\ balances = [min_balance |-> 0, current_balance |-> 0]
        BY <2>2 DEF GetOr, Agree
      <3> QED
        BY <3>1
    <2> QED
      BY <2>1, <2>2
  <1>3. l1_vault_update_diff(d, c) = Put(d, k, new) /\ HintStep(updates, k, c.diff) = Put(updates, k, hinted)
    BY DEF l1_vault_update_diff, HintStep
  <1> HIDE DEF vault, balances, k
  <1>4. vault.moved \in Int /\ vault.lowest \in Int /\ vault.highest \in Int /\ moved \in Int
    BY <1>1 DEF L1Moves
  <1>5. moved = new_balance
    BY <1>2
  <1> HIDE DEF moved, new_balance
  <1>6. /\ Min({moved, vault.lowest}) \in Int /\ Max({moved, vault.highest}) \in Int
        /\ Min({moved, vault.lowest}) <= 0 /\ Max({moved, vault.highest}) >= 0
    <2>1. Min({moved, vault.lowest}) = IF moved <= vault.lowest THEN moved ELSE vault.lowest
      BY <1>4, MinOfTwo
    <2>2. Max({moved, vault.highest}) = IF moved >= vault.highest THEN moved ELSE vault.highest
      BY <1>4, MinOfTwo
    <2> QED
      BY <1>2, <1>4, <2>1, <2>2
  <1>7. /\ new \in L1Moves /\ hinted \in HintMoves
        /\ new.moved = hinted.current_balance /\ new.lowest = hinted.min_balance
        /\ new.lowest <= 0 /\ new.highest >= 0
    BY <1>2, <1>4, <1>5, <1>6 DEF L1Moves, HintMoves
  <1> HIDE DEF new, hinted
  <1>8. k \in K
    BY DEF k
  <1>9. /\ Put(updates, k, hinted) \in PartialOn(K, HintMoves)
        /\ ChangesOnly(Put(updates, k, hinted), updates, k)
        /\ Put(updates, k, hinted)[k] = hinted
    <2>1. hinted \in HintMoves
      BY <1>7
    <2> QED
      BY <1>8, <2>1, PutType
  <1>10. ChangesOnly(Put(d, k, new), d, k) /\ Put(d, k, new)[k] = new
    <2>1. new \in L1Moves
      BY <1>7
    <2> QED
      BY <1>8, <2>1, PutType
  <1>11. Agree(Put(d, k, new), Put(updates, k, hinted))
    <2>1. PICK e, u : e = Put(d, k, new) /\ u = Put(updates, k, hinted)
      OBVIOUS
    <2>2. Agree(e, u)
      BY <1>7, <1>9, <1>10, <2>1 DEF Agree, ChangesOnly
    <2> QED
      BY <2>1, <2>2
  <1> QED
    BY <1>3, <1>9, <1>11 DEF k

\* The program's changes of a settlement, of which L2 changes change nothing here.
L1Step(dict, c) == IF c.is_l1 THEN l1_vault_update_diff(dict, c) ELSE dict

IsL1Trace(tr, K, changes, n) ==
  /\ tr \in [0 .. n -> PartialOn(K, L1Moves)]
  /\ tr[0] = l1_vault_dict
  /\ \A i \in 1 .. n : tr[i] = L1Step(tr[i - 1], changes[i])

\* The L1 vaults of a settlement, change by change.
LEMMA L1DictHasTrace ==
  ASSUME NEW K, l1_vault_dict \in PartialOn(K, L1Moves), NEW s, NEW n \in Nat,
         DOMAIN SettlementChanges(s) = 1 .. n,
         \A i \in 1 .. n : SettlementChanges(s)[i].is_l1 =>
           L1Key(SettlementChanges(s)[i]) \in K /\ SettlementChanges(s)[i].diff \in Int
  PROVE  \E tr : IsL1Trace(tr, K, SettlementChanges(s), n) /\ tr[n] = L1DictAfter(s)
PROOF
  <1> DEFINE changes == SettlementChanges(s)
             D == PartialOn(K, L1Moves)
             step == [i \in 1 .. n |-> [d \in D |-> L1Step(d, changes[i])]]
             IsTable(g) ==
               g = [T \in SUBSET DOMAIN changes |->
                      IF T = {} THEN l1_vault_dict
                      ELSE L1Step(g[T \ {Max(T)}], changes[Max(T)])]
             h == CHOOSE g : IsTable(g)
  <1>1. L1DictAfter(s) = h[DOMAIN changes]
    BY DEF L1DictAfter, FoldLeft, MapThenFoldSet, L1Step
  <1> HIDE DEF changes
  <1>a. DOMAIN changes = 1 .. n /\ \A i \in 1 .. n : changes[i].is_l1 => L1Key(changes[i]) \in K /\ changes[i].diff \in Int
    BY DEF changes
  <1>2. step \in [1 .. n -> [D -> D]]
    <2> SUFFICES ASSUME NEW i \in 1 .. n, NEW d \in D PROVE L1Step(d, changes[i]) \in D
      OBVIOUS
    <2>1. CASE changes[i].is_l1
      BY <1>a, <2>1, L1UpdateType DEF L1Step
    <2>2. CASE ~ changes[i].is_l1
      BY <2>2 DEF L1Step
    <2> QED
      BY <2>1, <2>2
  <1> HIDE DEF D
  <1>3. l1_vault_dict \in D
    BY DEF D
  <1>4. PICK g \in [SUBSET (1 .. n) -> D] : IsFold(g, l1_vault_dict, step, n)
    <2> HIDE DEF step
    <2> QED
      BY <1>2, <1>3, FoldTableExists
  <1>5. \A T \in SUBSET (1 .. n) : T # {} => Max(T) \in 1 .. n /\ T \ {Max(T)} \in SUBSET (1 .. n)
    BY MaxIsIndex
  <1>6. IsTable(g)
    <2>1. ASSUME NEW T \in SUBSET (1 .. n)
          PROVE  g[T] = IF T = {} THEN l1_vault_dict ELSE L1Step(g[T \ {Max(T)}], changes[Max(T)])
      BY <1>4, <1>5 DEF IsFold
    <2> QED
      BY <1>a, <2>1
  <1>7. IsTable(h)
    <2> HIDE DEF IsTable
    <2> QED
      BY <1>6
  <1>8. h[{}] = l1_vault_dict
    BY <1>7
  <1>9. ASSUME NEW T \in SUBSET (1 .. n), T # {}, h[T \ {Max(T)}] \in D
        PROVE  h[T] = step[Max(T)][h[T \ {Max(T)}]]
    <2>1. h[T] = L1Step(h[T \ {Max(T)}], changes[Max(T)])
      <3> HIDE DEF h, step
      <3> QED
        BY <1>a, <1>7, <1>9
    <2>2. Max(T) \in 1 .. n
      BY <1>5, <1>9
    <2> HIDE DEF h, IsTable
    <2>3. step[Max(T)][h[T \ {Max(T)}]] = L1Step(h[T \ {Max(T)}], changes[Max(T)])
      BY <1>9, <2>2
    <2> HIDE DEF step
    <2> QED
      BY <2>1, <2>3
  <1>10. PICK tr \in [0 .. n -> D] : IsTrace(tr, l1_vault_dict, step, n) /\ tr[n] = h[1 .. n]
    <2> HIDE DEF step, h, IsTable
    <2>1. Follows(h, D, l1_vault_dict, step, n)
      BY <1>8, <1>9 DEF Follows
    <2>2. CanStep(h, D, l1_vault_dict, step, n)
      BY <1>2, <1>3, <2>1 DEF CanStep
    <2>3. HasTrace(h, D, l1_vault_dict, step, n)
      BY <2>2, FoldIsTraced, Zenon
    <2> QED
      BY <2>3 DEF HasTrace
  <1>11. \A i \in 1 .. n : tr[i] = L1Step(tr[i - 1], changes[i])
    <2> SUFFICES ASSUME NEW i \in 1 .. n PROVE tr[i] = L1Step(tr[i - 1], changes[i])
      OBVIOUS
    <2>1. i - 1 \in 0 .. n
      OBVIOUS
    <2> QED
      BY <1>10, <2>1 DEF IsTrace
  <1> QED
    BY <1>a, <1>1, <1>10, <1>11 DEF IsL1Trace, IsTrace, D, changes

\* The accesses of a list of changes.
AccessesStep(accesses, c, balance) ==
  IF c.is_l1 THEN accesses ELSE Append(accesses, l2_vault_update_diff(c, balance[c.role]))

\* The accesses of a list of changes, change by change.
LEMMA AccessesHaveTrace ==
  ASSUME NEW changes, NEW balance, NEW n \in Nat, DOMAIN changes = 1 .. n
  PROVE  \E tr : /\ tr[0] = <<>>
                 /\ \A i \in 1 .. n : tr[i] = AccessesStep(tr[i - 1], changes[i], balance)
                 /\ tr[n] = Accesses(changes, balance)
PROOF
  <1> DEFINE Made == {l2_vault_update_diff(changes[i], balance[changes[i].role]) : i \in 1 .. n}
             D == Seq(Made)
             step == [i \in 1 .. n |-> [d \in D |-> AccessesStep(d, changes[i], balance)]]
             IsTable(g) ==
               g = [T \in SUBSET DOMAIN changes |->
                      IF T = {} THEN <<>>
                      ELSE AccessesStep(g[T \ {Max(T)}], changes[Max(T)], balance)]
             h == CHOOSE g : IsTable(g)
  <1>1. Accesses(changes, balance) = h[DOMAIN changes]
    BY DEF Accesses, FoldLeft, MapThenFoldSet, AccessesStep
  <1>2. step \in [1 .. n -> [D -> D]]
    <2> SUFFICES ASSUME NEW i \in 1 .. n, NEW d \in D PROVE AccessesStep(d, changes[i], balance) \in D
      OBVIOUS
    <2>1. l2_vault_update_diff(changes[i], balance[changes[i].role]) \in Made
      OBVIOUS
    <2> HIDE DEF Made
    <2> QED
      BY <2>1, AppendProperties DEF AccessesStep
  <1>3. <<>> \in D
    OBVIOUS
  <1> HIDE DEF D
  <1>4. PICK g \in [SUBSET (1 .. n) -> D] : IsFold(g, <<>>, step, n)
    <2> HIDE DEF step
    <2> QED
      BY <1>2, <1>3, FoldTableExists
  <1>5. \A T \in SUBSET (1 .. n) : T # {} => Max(T) \in 1 .. n /\ T \ {Max(T)} \in SUBSET (1 .. n)
    BY MaxIsIndex
  <1>6. IsTable(g)
    <2>1. ASSUME NEW T \in SUBSET (1 .. n)
          PROVE  g[T] = IF T = {} THEN <<>> ELSE AccessesStep(g[T \ {Max(T)}], changes[Max(T)], balance)
      BY <1>4, <1>5 DEF IsFold
    <2> QED
      BY <2>1
  <1>7. IsTable(h)
    <2> HIDE DEF IsTable
    <2> QED
      BY <1>6
  <1>8. h[{}] = <<>>
    BY <1>7
  <1>9. ASSUME NEW T \in SUBSET (1 .. n), T # {}, h[T \ {Max(T)}] \in D
        PROVE  h[T] = step[Max(T)][h[T \ {Max(T)}]]
    <2>1. Max(T) \in 1 .. n
      BY <1>5, <1>9
    <2>2. h[T] = AccessesStep(h[T \ {Max(T)}], changes[Max(T)], balance)
      <3> HIDE DEF h
      <3> QED
        BY <1>7, <1>9
    <2> QED
      BY <1>9, <2>1, <2>2
  <1>10. PICK tr \in [0 .. n -> D] : IsTrace(tr, <<>>, step, n) /\ tr[n] = h[1 .. n]
    <2> HIDE DEF step, h
    <2>1. Follows(h, D, <<>>, step, n)
      BY <1>8, <1>9 DEF Follows
    <2>2. CanStep(h, D, <<>>, step, n)
      BY <1>2, <1>3, <2>1 DEF CanStep
    <2>3. HasTrace(h, D, <<>>, step, n)
      BY <2>2, FoldIsTraced, Zenon
    <2> QED
      BY <2>3 DEF HasTrace
  <1>11. \A i \in 1 .. n : tr[i] = AccessesStep(tr[i - 1], changes[i], balance)
    <2> SUFFICES ASSUME NEW i \in 1 .. n PROVE tr[i] = AccessesStep(tr[i - 1], changes[i], balance)
      OBVIOUS
    <2>1. i - 1 \in 0 .. n
      OBVIOUS
    <2> QED
      BY <1>10, <2>1 DEF IsTrace
  <1> QED
    BY <1>1, <1>10, <1>11 DEF IsTrace

\* The accesses of two changes.
LEMMA AccessesOfTwo ==
  ASSUME NEW c1, NEW c2, NEW balance
  PROVE  Accesses(<<c1, c2>>, balance) = AccessesStep(AccessesStep(<<>>, c1, balance), c2, balance)
PROOF
  <1>1. DOMAIN <<c1, c2>> = 1 .. 2
    OBVIOUS
  <1>2. PICK tr : /\ tr[0] = <<>>
                  /\ \A i \in 1 .. 2 : tr[i] = AccessesStep(tr[i - 1], <<c1, c2>>[i], balance)
                  /\ tr[2] = Accesses(<<c1, c2>>, balance)
    BY <1>1, AccessesHaveTrace
  <1>3. tr[1] = AccessesStep(tr[0], c1, balance) /\ tr[2] = AccessesStep(tr[1], c2, balance)
    <2>1. 1 \in 1 .. 2 /\ 2 \in 1 .. 2 /\ 1 - 1 = 0 /\ 2 - 1 = 1
      OBVIOUS
    <2> QED
      BY <1>2, <2>1
  <1> QED
    BY <1>2, <1>3

\* The accesses of four changes.
LEMMA AccessesOfFour ==
  ASSUME NEW c1, NEW c2, NEW c3, NEW c4, NEW balance
  PROVE  Accesses(<<c1, c2, c3, c4>>, balance)
           = AccessesStep(AccessesStep(AccessesStep(AccessesStep(<<>>, c1, balance),
                                                    c2, balance), c3, balance), c4, balance)
PROOF
  <1> DEFINE changes == <<c1, c2, c3, c4>>
  <1>1. DOMAIN changes = 1 .. 4
    OBVIOUS
  <1>2. PICK tr : /\ tr[0] = <<>>
                  /\ \A i \in 1 .. 4 : tr[i] = AccessesStep(tr[i - 1], changes[i], balance)
                  /\ tr[4] = Accesses(changes, balance)
    BY <1>1, AccessesHaveTrace
  <1>3. /\ tr[1] = AccessesStep(tr[0], c1, balance) /\ tr[2] = AccessesStep(tr[1], c2, balance)
        /\ tr[3] = AccessesStep(tr[2], c3, balance) /\ tr[4] = AccessesStep(tr[3], c4, balance)
    <2>1. /\ 1 \in 1 .. 4 /\ 2 \in 1 .. 4 /\ 3 \in 1 .. 4 /\ 4 \in 1 .. 4
          /\ 1 - 1 = 0 /\ 2 - 1 = 1 /\ 3 - 1 = 2 /\ 4 - 1 = 3
      OBVIOUS
    <2>2. changes[1] = c1 /\ changes[2] = c2 /\ changes[3] = c3 /\ changes[4] = c4
      OBVIOUS
    <2> HIDE DEF changes
    <2> QED
      BY <1>2, <2>1, <2>2
  <1> QED
    BY <1>2, <1>3

\* The three steps of the hint for an order.
LEMMA HintOfOrder ==
  ASSUME NEW K, NEW updates \in PartialOn(K, HintMoves), NEW order,
         \A role \in {"SELL", "BUY", "FEE_SOURCE"} : from_order_l1(order, role) \in K,
         NEW sold \in Int, NEW bought \in Int, NEW fee \in Int
  PROVE  update_order_vaults(updates, order, sold, bought, fee)
           = HintStep(HintStep(HintStep(updates, from_order_l1(order, "SELL"), -sold),
                               from_order_l1(order, "BUY"), bought),
                      from_order_l1(order, "FEE_SOURCE"), -fee)
PROOF
  <1> DEFINE diffs == RoleDiffs(sold, bought, fee)
             D == PartialOn(K, HintMoves)
             Step(d, u) == HintStep(d, from_order_l1(order, u.vault_role), u.diff)
             step == [i \in 1 .. 3 |-> [d \in D |-> Step(d, diffs[i])]]
             IsTable(g) ==
               g = [T \in SUBSET DOMAIN diffs |->
                      IF T = {} THEN updates ELSE Step(g[T \ {Max(T)}], diffs[Max(T)])]
             h == CHOOSE g : IsTable(g)
  <1>1. update_order_vaults(updates, order, sold, bought, fee) = h[DOMAIN diffs]
    BY DEF update_order_vaults, FoldLeft, MapThenFoldSet, HintStep
  <1>2. /\ DOMAIN diffs = 1 .. 3
        /\ diffs[1] = [vault_role |-> "SELL", diff |-> -sold]
        /\ diffs[2] = [vault_role |-> "BUY", diff |-> bought]
        /\ diffs[3] = [vault_role |-> "FEE_SOURCE", diff |-> -fee]
    BY DEF RoleDiffs
  <1> HIDE DEF diffs
  <1>3. \A i \in 1 .. 3 : diffs[i].diff \in Int /\ from_order_l1(order, diffs[i].vault_role) \in K
    <2>1. \A i \in 1 .. 3 : i = 1 \/ i = 2 \/ i = 3
      OBVIOUS
    <2> QED
      BY <1>2, <2>1
  <1>4. ASSUME NEW i \in 1 .. 3, NEW d \in D PROVE Step(d, diffs[i]) \in D
    <2> DEFINE key == from_order_l1(order, diffs[i].vault_role)
               balances == GetOr(d, key, [min_balance |-> 0, current_balance |-> 0])
               new_balance == balances.current_balance + diffs[i].diff
    <2>1. key \in K /\ diffs[i].diff \in Int
      BY <1>3
    <2> HIDE DEF key
    <2>2. balances \in HintMoves
      <3>1. [min_balance |-> 0, current_balance |-> 0] \in HintMoves
        BY DEF HintMoves
      <3> QED
        BY <3>1, GetOrType DEF D
    <2> HIDE DEF balances
    <2>3. new_balance \in Int /\ balances.min_balance \in Int
      BY <2>1, <2>2 DEF HintMoves
    <2>4. [min_balance |-> Min({new_balance, balances.min_balance}),
           current_balance |-> new_balance] \in HintMoves
      BY <2>3, MinOfTwo DEF HintMoves
    <2> QED
      BY <2>1, <2>4, PutType DEF HintStep, balances, key
  <1>5. step \in [1 .. 3 -> [D -> D]]
    BY <1>4
  <1> HIDE DEF D, Step
  <1>6. updates \in D
    BY DEF D
  <1>7. PICK g \in [SUBSET (1 .. 3) -> D] : IsFold(g, updates, step, 3)
    <2> HIDE DEF step
    <2> QED
      BY <1>5, <1>6, FoldTableExists
  <1>8. \A T \in SUBSET (1 .. 3) : T # {} => Max(T) \in 1 .. 3 /\ T \ {Max(T)} \in SUBSET (1 .. 3)
    BY MaxIsIndex
  <1>9. IsTable(g)
    <2>1. ASSUME NEW T \in SUBSET (1 .. 3)
          PROVE  g[T] = IF T = {} THEN updates ELSE Step(g[T \ {Max(T)}], diffs[Max(T)])
      BY <1>7, <1>8 DEF IsFold
    <2> QED
      BY <1>2, <2>1
  <1>10. IsTable(h)
    <2> HIDE DEF IsTable
    <2> QED
      BY <1>9
  <1>11. h[{}] = updates
    BY <1>10
  <1>12. ASSUME NEW T \in SUBSET (1 .. 3), T # {}, h[T \ {Max(T)}] \in D
         PROVE  h[T] = step[Max(T)][h[T \ {Max(T)}]]
    BY <1>2, <1>8, <1>10, <1>12
  <1>13. PICK tr \in [0 .. 3 -> D] : IsTrace(tr, updates, step, 3) /\ tr[3] = h[1 .. 3]
    <2> HIDE DEF step, h
    <2>1. Follows(h, D, updates, step, 3)
      BY <1>11, <1>12 DEF Follows
    <2>2. CanStep(h, D, updates, step, 3)
      BY <1>5, <1>6, <2>1 DEF CanStep
    <2>3. HasTrace(h, D, updates, step, 3)
      BY <2>2, FoldIsTraced, Zenon
    <2> QED
      BY <2>3 DEF HasTrace
  <1>14. /\ tr[0] = updates /\ tr[1] = Step(tr[0], diffs[1])
         /\ tr[2] = Step(tr[1], diffs[2]) /\ tr[3] = Step(tr[2], diffs[3])
    <2>1. ASSUME NEW i \in 1 .. 3 PROVE tr[i] = Step(tr[i - 1], diffs[i])
      <3>1. i - 1 \in 0 .. 3
        OBVIOUS
      <3> QED
        BY <1>13, <3>1 DEF IsTrace
    <2>2. 1 \in 1 .. 3 /\ 2 \in 1 .. 3 /\ 3 \in 1 .. 3 /\ 1 - 1 = 0 /\ 2 - 1 = 1 /\ 3 - 1 = 2
      OBVIOUS
    <2> HIDE DEF step
    <2> QED
      BY <1>13, <2>1, <2>2 DEF IsTrace
  <1> QED
    BY <1>1, <1>2, <1>13, <1>14 DEF Step

\* What the hint does for one party.
HintOfParty(updates, s, party) ==
  IF s.order[party].is_l1
  THEN update_order_vaults(updates, s.order[party], s.sold[party],
                           s.sold[other_party(party)], s.fee_info[party].fee_taken)
  ELSE updates

\* The hint for a settlement: party A, then party B.
LEMMA HintOfParties ==
  ASSUME NEW D, NEW updates \in D, NEW s,
         \A party \in {"A", "B"}, u \in D : HintOfParty(u, s, party) \in D
  PROVE  update_l1_vault_balances(updates, s)
           = HintOfParty(HintOfParty(updates, s, "A"), s, "B")
PROOF
  <1> DEFINE step == [i \in 1 .. 2 |-> [u \in D |-> HintOfParty(u, s, Party[i])]]
             IsTable(g) ==
               g = [T \in SUBSET DOMAIN Party |->
                      IF T = {} THEN updates ELSE HintOfParty(g[T \ {Max(T)}], s, Party[Max(T)])]
             h == CHOOSE g : IsTable(g)
  <1>1. update_l1_vault_balances(updates, s) = h[DOMAIN Party]
    BY DEF update_l1_vault_balances, FoldLeft, MapThenFoldSet, HintOfParty
  <1>2. DOMAIN Party = 1 .. 2 /\ Party[1] = "A" /\ Party[2] = "B"
    BY DEF Party
  <1>3. step \in [1 .. 2 -> [D -> D]]
    <2>1. \A i \in 1 .. 2 : i = 1 \/ i = 2
      OBVIOUS
    <2>2. \A i \in 1 .. 2 : Party[i] \in {"A", "B"}
      BY <1>2, <2>1
    <2> QED
      BY <2>2
  <1>4. PICK g \in [SUBSET (1 .. 2) -> D] : IsFold(g, updates, step, 2)
    <2> HIDE DEF step
    <2> QED
      BY <1>3, FoldTableExists
  <1>5. \A T \in SUBSET (1 .. 2) : T # {} => Max(T) \in 1 .. 2 /\ T \ {Max(T)} \in SUBSET (1 .. 2)
    BY MaxIsIndex
  <1>6. IsTable(g)
    <2>1. ASSUME NEW T \in SUBSET (1 .. 2)
          PROVE  g[T] = IF T = {} THEN updates ELSE HintOfParty(g[T \ {Max(T)}], s, Party[Max(T)])
      BY <1>4, <1>5 DEF IsFold
    <2> QED
      BY <1>2, <2>1
  <1>7. IsTable(h)
    <2> HIDE DEF IsTable
    <2> QED
      BY <1>6
  <1>8. h[{}] = updates
    BY <1>7
  <1>9. ASSUME NEW T \in SUBSET (1 .. 2), T # {}, h[T \ {Max(T)}] \in D
        PROVE  h[T] = step[Max(T)][h[T \ {Max(T)}]]
    <2>1. h[T] = HintOfParty(h[T \ {Max(T)}], s, Party[Max(T)])
      <3> HIDE DEF h, step
      <3> QED
        BY <1>2, <1>7, <1>9
    <2>2. Max(T) \in 1 .. 2
      BY <1>5, <1>9
    <2> HIDE DEF h, IsTable
    <2>3. step[Max(T)][h[T \ {Max(T)}]] = HintOfParty(h[T \ {Max(T)}], s, Party[Max(T)])
      BY <1>9, <2>2
    <2> HIDE DEF step
    <2> QED
      BY <2>1, <2>3
  <1>10. PICK tr \in [0 .. 2 -> D] : IsTrace(tr, updates, step, 2) /\ tr[2] = h[1 .. 2]
    <2> HIDE DEF step, h
    <2>1. Follows(h, D, updates, step, 2)
      BY <1>8, <1>9 DEF Follows
    <2>2. CanStep(h, D, updates, step, 2)
      BY <1>3, <2>1 DEF CanStep
    <2>3. HasTrace(h, D, updates, step, 2)
      BY <2>2, FoldIsTraced, Zenon
    <2> QED
      BY <2>3 DEF HasTrace
  <1>11. tr[0] = updates /\ tr[1] = HintOfParty(tr[0], s, "A") /\ tr[2] = HintOfParty(tr[1], s, "B")
    <2>1. ASSUME NEW i \in 1 .. 2 PROVE tr[i] = HintOfParty(tr[i - 1], s, Party[i])
      <3>1. i - 1 \in 0 .. 2
        OBVIOUS
      <3> QED
        BY <1>10, <3>1 DEF IsTrace
    <2>2. 1 \in 1 .. 2 /\ 2 \in 1 .. 2 /\ 1 - 1 = 0 /\ 2 - 1 = 1
      OBVIOUS
    <2> HIDE DEF step
    <2> QED
      BY <1>2, <1>10, <2>1, <2>2 DEF IsTrace
  <1> QED
    BY <1>1, <1>2, <1>10, <1>11

-----------------------------------------------------------------------------
(* The changes of one order.                                               *)

SellOf(o, sold) ==
  Change("SELL", o.is_l1, o.public_key, o.asset_id_sell, o.vault_sell, -sold)
BuyOf(o, bought) ==
  Change("BUY", o.is_l1, o.public_key, o.asset_id_buy, o.vault_buy, bought)
FeeSourceOf(o, fee_info) ==
  Change("FEE_SOURCE", o.is_l1, o.public_key, o.fee_info.token_id,
         o.fee_info.source_vault_id, -fee_info.fee_taken)
FeeDestinationOf(o, fee_info) ==
  Change("FEE_DESTINATION", FALSE, fee_info.destination_stark_key, o.fee_info.token_id,
         fee_info.destination_vault_id, fee_info.fee_taken)

\* What a settlement that the program accepts makes of one order.
IsFill(o, sold, bought, fee_info) ==
  /\ o \in Orders /\ sold \in Int /\ bought \in Int
  /\ fee_info = NoFee <=> o.fee_info = NoFee
  /\ fee_info # NoFee => fee_info \in FeeInfos

\* The changes of an order, on the layer that it is on, are to vaults that there are.
LEMMA FillType ==
  ASSUME NEW o, NEW sold, NEW bought, NEW fee_info, IsFill(o, sold, bought, fee_info)
  PROVE  /\ ~ o.is_l1 => IsL2Change(SellOf(o, sold)) /\ IsL2Change(BuyOf(o, bought))
         /\ ~ o.is_l1 /\ fee_info # NoFee => IsL2Change(FeeSourceOf(o, fee_info))
         /\ fee_info # NoFee => IsL2Change(FeeDestinationOf(o, fee_info))
         /\ o.is_l1 =>
              /\ fee_info # NoFee
              /\ \A c \in {SellOf(o, sold), BuyOf(o, bought), FeeSourceOf(o, fee_info)} :
                   L1Key(c) \in L1Vaults /\ c.diff \in Int
              /\ L1Key(SellOf(o, sold)) = from_order_l1(o, "SELL")
              /\ L1Key(BuyOf(o, bought)) = from_order_l1(o, "BUY")
              /\ L1Key(FeeSourceOf(o, fee_info)) = from_order_l1(o, "FEE_SOURCE")
PROOF
  <1>1. /\ o \in OrderFields /\ IF o.is_l1 THEN UsesL1Vaults(o) ELSE UsesL2Vaults(o)
    BY RequestsAssumption DEF IsFill
  <1>2. /\ fee_info # NoFee =>
             /\ fee_info.fee_taken \in Int /\ fee_info.destination_vault_id \in VaultIds
             /\ fee_info.destination_stark_key \in StarkKeys
             /\ o.fee_info \in FeeFields
    BY <1>1, RequestsAssumption DEF IsFill, OrderFields
  <1>3. ASSUME ~ o.is_l1
        PROVE  /\ IsL2Change(SellOf(o, sold)) /\ IsL2Change(BuyOf(o, bought))
               /\ fee_info # NoFee => IsL2Change(FeeSourceOf(o, fee_info))
    BY <1>1, <1>2, <1>3
    DEF IsL2Change, SellOf, BuyOf, FeeSourceOf, Change, IsFill, OrderFields, FeeFields, UsesL2Vaults
  <1>4. ASSUME fee_info # NoFee PROVE IsL2Change(FeeDestinationOf(o, fee_info))
    BY <1>2, <1>4 DEF IsL2Change, FeeDestinationOf, Change, FeeFields
  <1>5. ASSUME o.is_l1
        PROVE  /\ fee_info # NoFee
               /\ \A c \in {SellOf(o, sold), BuyOf(o, bought), FeeSourceOf(o, fee_info)} :
                    L1Key(c) \in L1Vaults /\ c.diff \in Int
               /\ L1Key(SellOf(o, sold)) = from_order_l1(o, "SELL")
               /\ L1Key(BuyOf(o, bought)) = from_order_l1(o, "BUY")
               /\ L1Key(FeeSourceOf(o, fee_info)) = from_order_l1(o, "FEE_SOURCE")
    <2>1. fee_info # NoFee /\ \A role \in {"SELL", "BUY", "FEE_SOURCE"} : from_order_l1(o, role) \in L1Vaults
      BY <1>1, <1>5 DEF UsesL1Vaults, IsFill
    <2>2. /\ L1Key(SellOf(o, sold)) = from_order_l1(o, "SELL")
          /\ L1Key(BuyOf(o, bought)) = from_order_l1(o, "BUY")
          /\ L1Key(FeeSourceOf(o, fee_info)) = from_order_l1(o, "FEE_SOURCE")
      BY DEF L1Key, SellOf, BuyOf, FeeSourceOf, Change, from_order_l1
    <2>3. /\ SellOf(o, sold).diff \in Int /\ BuyOf(o, bought).diff \in Int
          /\ FeeSourceOf(o, fee_info).diff \in Int
      BY <1>2, <2>1 DEF SellOf, BuyOf, FeeSourceOf, Change, IsFill
    <2> QED
      BY <2>1, <2>2, <2>3
  <1> QED
    BY <1>3, <1>4, <1>5

\* The changes of an order, one by one.
LEMMA ChangesOfOrder ==
  ASSUME NEW o, NEW sold, NEW bought, NEW fee_info
  PROVE  OrderChanges(o, sold, bought, fee_info) =
           IF fee_info = NoFee THEN <<SellOf(o, sold), BuyOf(o, bought)>>
           ELSE <<SellOf(o, sold), BuyOf(o, bought),
                  FeeSourceOf(o, fee_info), FeeDestinationOf(o, fee_info)>>
PROOF
  <1>1. \A a, b, c, d : <<a, b>> \o <<c, d>> = <<a, b, c, d>>
    BY TwoWithTwo
  <1>a. \A a, b : <<a, b>> \o <<>> = <<a, b>>
    OBVIOUS
  <1>2. OrderChanges(o, sold, bought, fee_info) =
          <<SellOf(o, sold), BuyOf(o, bought)>>
          \o (IF fee_info = NoFee THEN <<>>
              ELSE <<FeeSourceOf(o, fee_info), FeeDestinationOf(o, fee_info)>>)
    BY DEF OrderChanges, update_fee_vaults, SellOf, BuyOf, FeeSourceOf, FeeDestinationOf
  <1> QED
    BY <1>1, <1>a, <1>2

\* The access of a change, for the balances the hint guesses.
AccessOf(c, balance) == l2_vault_update_diff(c, balance[c.role])

\* Two or four accesses, or one of an L1 order.
LEMMA AccessesOfOrder ==
  ASSUME NEW o, NEW sold, NEW bought, NEW fee_info, IsFill(o, sold, bought, fee_info),
         NEW balance
  PROVE  Accesses(OrderChanges(o, sold, bought, fee_info), balance) =
           IF o.is_l1 THEN <<AccessOf(FeeDestinationOf(o, fee_info), balance)>>
           ELSE IF fee_info = NoFee
           THEN <<AccessOf(SellOf(o, sold), balance), AccessOf(BuyOf(o, bought), balance)>>
           ELSE <<AccessOf(SellOf(o, sold), balance), AccessOf(BuyOf(o, bought), balance),
                  AccessOf(FeeSourceOf(o, fee_info), balance),
                  AccessOf(FeeDestinationOf(o, fee_info), balance)>>
PROOF
  <1>2. /\ SellOf(o, sold).is_l1 = o.is_l1 /\ BuyOf(o, bought).is_l1 = o.is_l1
        /\ FeeSourceOf(o, fee_info).is_l1 = o.is_l1 /\ FeeDestinationOf(o, fee_info).is_l1 = FALSE
    BY DEF SellOf, BuyOf, FeeSourceOf, FeeDestinationOf, Change
  <1>3. CASE fee_info = NoFee
    <2>1. ~ o.is_l1
      BY <1>3, FillType
    <2>2. Accesses(OrderChanges(o, sold, bought, fee_info), balance)
            = AccessesStep(AccessesStep(<<>>, SellOf(o, sold), balance), BuyOf(o, bought), balance)
      BY <1>3, ChangesOfOrder, AccessesOfTwo, Zenon
    <2>3. AccessesStep(<<>>, SellOf(o, sold), balance) = <<AccessOf(SellOf(o, sold), balance)>>
      BY <1>2, <2>1, AppendToNone, Zenon DEF AccessesStep, AccessOf
    <2>4. AccessesStep(<<AccessOf(SellOf(o, sold), balance)>>, BuyOf(o, bought), balance)
            = <<AccessOf(SellOf(o, sold), balance), AccessOf(BuyOf(o, bought), balance)>>
      BY <1>2, <2>1, AppendToOne, Zenon DEF AccessesStep, AccessOf
    <2> QED
      BY <1>3, <2>1, <2>2, <2>3, <2>4, Zenon
  <1>4. CASE fee_info # NoFee
    <2> DEFINE sell == SellOf(o, sold)
               buy == BuyOf(o, bought)
               source == FeeSourceOf(o, fee_info)
               destination == FeeDestinationOf(o, fee_info)
               Step(accesses, c) == AccessesStep(accesses, c, balance)
               x(c) == AccessOf(c, balance)
    <2>1. Accesses(OrderChanges(o, sold, bought, fee_info), balance)
            = Step(Step(Step(Step(<<>>, sell), buy), source), destination)
      BY <1>4, ChangesOfOrder, AccessesOfFour, Zenon
    <2>2. /\ sell.is_l1 = o.is_l1 /\ buy.is_l1 = o.is_l1
          /\ source.is_l1 = o.is_l1 /\ destination.is_l1 = FALSE
      BY <1>2
    <2> HIDE DEF sell, buy, source, destination
    <2>3. \A accesses, c : Step(accesses, c) = IF c.is_l1 THEN accesses ELSE Append(accesses, x(c))
      BY DEF AccessesStep, AccessOf
    <2> HIDE DEF Step, x
    <2>4. CASE o.is_l1
      <3>1. /\ \A accesses : /\ Step(accesses, sell) = accesses /\ Step(accesses, buy) = accesses
                              /\ Step(accesses, source) = accesses
            /\ Step(<<>>, destination) = Append(<<>>, x(destination))
        BY <2>2, <2>3, <2>4
      <3>2. Step(<<>>, destination) = <<x(destination)>>
        BY <3>1, AppendToNone, Zenon
      <3>3. Step(Step(Step(Step(<<>>, sell), buy), source), destination) = <<x(destination)>>
        BY <3>1, <3>2, Zenon
      <3> QED
        BY <2>1, <2>4, <3>3, Zenon DEF x, destination
    <2>5. CASE ~ o.is_l1
      <3>1. \A accesses : /\ Step(accesses, sell) = Append(accesses, x(sell))
                          /\ Step(accesses, buy) = Append(accesses, x(buy))
                          /\ Step(accesses, source) = Append(accesses, x(source))
                          /\ Step(accesses, destination) = Append(accesses, x(destination))
        BY <2>2, <2>3, <2>5
      <3>2. Step(<<>>, sell) = <<x(sell)>>
        BY <3>1, AppendToNone, Zenon
      <3>3. Step(<<x(sell)>>, buy) = <<x(sell), x(buy)>>
        BY <3>1, AppendToOne, Zenon
      <3>4. Step(<<x(sell), x(buy)>>, source) = <<x(sell), x(buy), x(source)>>
        BY <3>1, AppendToTwo, Zenon
      <3>5. Step(<<x(sell), x(buy), x(source)>>, destination)
              = <<x(sell), x(buy), x(source), x(destination)>>
        BY <3>1, AppendToThree, Zenon
      <3>6. Step(Step(Step(Step(<<>>, sell), buy), source), destination)
              = <<x(sell), x(buy), x(source), x(destination)>>
        BY <3>2, <3>3, <3>4, <3>5, Zenon
      <3> QED
        BY <1>4, <2>1, <2>5, <3>6, Zenon DEF x, sell, buy, source, destination
    <2> QED
      BY <2>4, <2>5
  <1> QED
    BY <1>3, <1>4

\* What an order's owner gets of a token, and what the fee is of it.
TradeGain(o, sold, bought, t) ==
  (IF o.asset_id_sell = t THEN -sold ELSE 0) + (IF o.asset_id_buy = t THEN bought ELSE 0)
FeeGain(o, fee_info, t) ==
  IF fee_info # NoFee /\ o.fee_info.token_id = t THEN fee_info.fee_taken ELSE 0

\* What the changes of an order are worth: the trade, and a fee that only moves.
LEMMA GainsOfOrder ==
  ASSUME NEW o, NEW sold, NEW bought, NEW fee_info, IsFill(o, sold, bought, fee_info), NEW t
  PROVE  /\ Gain(SellOf(o, sold), t) + Gain(BuyOf(o, bought), t) = TradeGain(o, sold, bought, t)
         /\ Gain(SellOf(o, sold), t) \in Int /\ Gain(BuyOf(o, bought), t) \in Int
         /\ TradeGain(o, sold, bought, t) \in Int
         /\ FeeGain(o, fee_info, t) \in Int
         /\ fee_info # NoFee =>
              /\ Gain(FeeSourceOf(o, fee_info), t) = - FeeGain(o, fee_info, t)
              /\ Gain(FeeDestinationOf(o, fee_info), t) = FeeGain(o, fee_info, t)
PROOF
  <1>1. fee_info # NoFee => fee_info.fee_taken \in Int
    BY RequestsAssumption DEF IsFill
  <1>2. sold \in Int /\ bought \in Int
    BY DEF IsFill
  <1> QED
    BY <1>1, <1>2 DEF Gain, SellOf, BuyOf, FeeSourceOf, FeeDestinationOf, Change, TradeGain, FeeGain

\* The part of a squashing that belongs to an order: its owner gets what was
\* traded, or, of an order on L1, somebody gets the fee.
LEMMA OrderOnL2 ==
  ASSUME NEW o, NEW sold, NEW bought, NEW fee_info, IsFill(o, sold, bought, fee_info),
         NEW balance, NEW t \in TokenIds, NEW k \in Nat, NEW tr,
         \A i \in 1 .. Len(Accesses(OrderChanges(o, sold, bought, fee_info), balance)) :
           tr[k + i] = SquashStep(tr[k + i - 1],
                                  Accesses(OrderChanges(o, sold, bought, fee_info), balance)[i]),
         tr[k] \in Dicts,
         tr[k + Len(Accesses(OrderChanges(o, sold, bought, fee_info), balance))] # Rejected
  PROVE  LET m == Len(Accesses(OrderChanges(o, sold, bought, fee_info), balance))
         IN  /\ tr[k + m] \in Dicts
             /\ HeldIn(tr[k + m], t) = HeldIn(tr[k], t)
                  + (IF o.is_l1 THEN FeeGain(o, fee_info, t) ELSE TradeGain(o, sold, bought, t))
PROOF
  <1> DEFINE accesses == Accesses(OrderChanges(o, sold, bought, fee_info), balance)
             sell == SellOf(o, sold)
             buy == BuyOf(o, bought)
             source == FeeSourceOf(o, fee_info)
             destination == FeeDestinationOf(o, fee_info)
             x(c) == AccessOf(c, balance)
             Held(d) == HeldIn(d, t)
  <1>1. accesses = IF o.is_l1 THEN <<x(destination)>>
                   ELSE IF fee_info = NoFee THEN <<x(sell), x(buy)>>
                   ELSE <<x(sell), x(buy), x(source), x(destination)>>
    BY AccessesOfOrder
  <1>2. ASSUME NEW d \in Dicts, NEW c, IsL2Change(c), SquashStep(d, x(c)) # Rejected
        PROVE  /\ SquashStep(d, x(c)) \in Dicts
               /\ Held(SquashStep(d, x(c))) = Held(d) + Gain(c, t)
    BY <1>2, AccessGains DEF AccessOf
  <1>3. \A d, a : SquashStep(d, a) # Rejected => d # Rejected
    BY DEF SquashStep
  <1>4. ASSUME NEW d \in Dicts PROVE Held(d) \in Int
    <2> DEFINE share == [v \in VaultIds |-> IF d[v].token_id = t THEN d[v].balance ELSE 0]
    <2>1. IsFiniteSet(VaultIds) /\ \A v \in VaultIds : share[v] \in Int
      BY RequestsAssumption, VaultFields DEF Dicts
    <2>2. Held(d) = SumFunctionOnSet(share, VaultIds)
      BY DEF HeldIn, SumFunction
    <2> HIDE DEF share
    <2> QED
      BY <2>1, <2>2, SumType
  <1>5. /\ \A i \in 1 .. Len(accesses) : tr[k + i] = SquashStep(tr[k + i - 1], accesses[i])
        /\ tr[k + Len(accesses)] # Rejected
    OBVIOUS
  <1>6. /\ k + 1 - 1 = k /\ k + 2 - 1 = k + 1 /\ k + 3 - 1 = k + 2 /\ k + 4 - 1 = k + 3
    OBVIOUS
  <1> HIDE DEF accesses, x, Held, sell, buy, source, destination
  <1>7. CASE o.is_l1
    <2>1. accesses = <<x(destination)>> /\ Len(accesses) = 1 /\ 1 \in 1 .. Len(accesses)
      BY <1>1, <1>7
    <2>2. tr[k + 1] = SquashStep(tr[k], x(destination)) /\ tr[k + 1] # Rejected
      BY <1>5, <1>6, <2>1
    <2>3. fee_info # NoFee /\ IsL2Change(destination)
      BY <1>7, FillType DEF destination
    <2>4. tr[k + 1] \in Dicts /\ Held(tr[k + 1]) = Held(tr[k]) + Gain(destination, t)
      BY <1>2, <2>2, <2>3
    <2> QED
      BY <1>7, <2>1, <2>3, <2>4, GainsOfOrder DEF accesses, Held, destination
  <1>8. CASE ~ o.is_l1 /\ fee_info = NoFee
    <2>1. /\ accesses = <<x(sell), x(buy)>> /\ Len(accesses) = 2
          /\ 1 \in 1 .. Len(accesses) /\ 2 \in 1 .. Len(accesses)
      BY <1>1, <1>8
    <2>2. /\ tr[k + 1] = SquashStep(tr[k], x(sell)) /\ tr[k + 2] = SquashStep(tr[k + 1], x(buy))
          /\ tr[k + 2] # Rejected
      BY <1>5, <1>6, <2>1
    <2>3. IsL2Change(sell) /\ IsL2Change(buy)
      BY <1>8, FillType DEF sell, buy
    <2>4. tr[k + 1] \in Dicts /\ Held(tr[k + 1]) = Held(tr[k]) + Gain(sell, t)
      BY <1>2, <1>3, <2>2, <2>3
    <2>5. tr[k + 2] \in Dicts /\ Held(tr[k + 2]) = Held(tr[k + 1]) + Gain(buy, t)
      BY <1>2, <2>2, <2>3, <2>4
    <2>6. /\ Gain(sell, t) + Gain(buy, t) = TradeGain(o, sold, bought, t)
          /\ Gain(sell, t) \in Int /\ Gain(buy, t) \in Int
      BY GainsOfOrder DEF sell, buy
    <2>7. Held(tr[k]) \in Int
      BY <1>4
    <2>8. Held(tr[k + 2]) = Held(tr[k]) + TradeGain(o, sold, bought, t)
      BY <2>4, <2>5, <2>6, <2>7
    <2> QED
      BY <1>8, <2>1, <2>5, <2>8 DEF accesses, Held
  <1>9. CASE ~ o.is_l1 /\ fee_info # NoFee
    <2>1. /\ accesses = <<x(sell), x(buy), x(source), x(destination)>> /\ Len(accesses) = 4
          /\ 1 \in 1 .. Len(accesses) /\ 2 \in 1 .. Len(accesses)
          /\ 3 \in 1 .. Len(accesses) /\ 4 \in 1 .. Len(accesses)
      BY <1>1, <1>9
    <2>2. /\ tr[k + 1] = SquashStep(tr[k], x(sell)) /\ tr[k + 2] = SquashStep(tr[k + 1], x(buy))
          /\ tr[k + 3] = SquashStep(tr[k + 2], x(source))
          /\ tr[k + 4] = SquashStep(tr[k + 3], x(destination))
          /\ tr[k + 4] # Rejected
      BY <1>5, <1>6, <2>1
    <2>3. IsL2Change(sell) /\ IsL2Change(buy) /\ IsL2Change(source) /\ IsL2Change(destination)
      BY <1>9, FillType DEF sell, buy, source, destination
    <2>4. tr[k + 3] # Rejected /\ tr[k + 2] # Rejected /\ tr[k + 1] # Rejected
      BY <1>3, <2>2
    <2>5. tr[k + 1] \in Dicts /\ Held(tr[k + 1]) = Held(tr[k]) + Gain(sell, t)
      BY <1>2, <2>2, <2>3, <2>4
    <2>6. tr[k + 2] \in Dicts /\ Held(tr[k + 2]) = Held(tr[k + 1]) + Gain(buy, t)
      BY <1>2, <2>2, <2>3, <2>4, <2>5
    <2>7. tr[k + 3] \in Dicts /\ Held(tr[k + 3]) = Held(tr[k + 2]) + Gain(source, t)
      BY <1>2, <2>2, <2>3, <2>4, <2>6
    <2>8. tr[k + 4] \in Dicts /\ Held(tr[k + 4]) = Held(tr[k + 3]) + Gain(destination, t)
      BY <1>2, <2>2, <2>3, <2>7
    <2>9. /\ Gain(sell, t) + Gain(buy, t) = TradeGain(o, sold, bought, t)
          /\ Gain(sell, t) \in Int /\ Gain(buy, t) \in Int /\ FeeGain(o, fee_info, t) \in Int
          /\ Gain(source, t) = - FeeGain(o, fee_info, t)
          /\ Gain(destination, t) = FeeGain(o, fee_info, t)
      BY <1>9, GainsOfOrder DEF sell, buy, source, destination
    <2>10. Held(tr[k]) \in Int
      BY <1>4
    <2>11. Held(tr[k + 4]) = Held(tr[k]) + TradeGain(o, sold, bought, t)
      BY <2>5, <2>6, <2>7, <2>8, <2>9, <2>10
    <2> QED
      BY <1>9, <2>1, <2>8, <2>11 DEF accesses, Held
  <1> QED
    BY <1>7, <1>8, <1>9

\* What L1 vaults hold is a number.
LEMMA HeldByType ==
  ASSUME NEW net \in [L1Vaults -> Int], NEW d \in PartialOn(L1Vaults, L1Moves), NEW t
  PROVE  HeldBy(net, d, t) \in Int
PROOF
  <1> DEFINE share == [key \in L1Vaults |->
               IF key.token_id # t THEN 0 ELSE net[key] + GetOr(d, key, [moved |-> 0]).moved]
  <1>1. ASSUME NEW key \in L1Vaults PROVE share[key] \in Int
    <2>1. GetOr(d, key, [moved |-> 0]).moved \in Int
      BY MovedType
    <2> QED
      BY <2>1
  <1>2. HeldBy(net, d, t) = SumFunctionOnSet(share, L1Vaults)
    BY DEF HeldBy, SumFunction
  <1>3. IsFiniteSet(L1Vaults)
    BY RequestsAssumption
  <1> HIDE DEF share
  <1> QED
    BY <1>1, <1>2, <1>3, SumType

\* The L1 vaults that an order names.
KeysOf(o) == {from_order_l1(o, role) : role \in {"SELL", "BUY", "FEE_SOURCE"}}

\* The hint for an order.
HintOfFill(updates, o, sold, bought, fee_info) ==
  IF o.is_l1 THEN update_order_vaults(updates, o, sold, bought, fee_info.fee_taken) ELSE updates

\* Of a fill, what its L2 accesses and its L1 changes are worth.
OnL2(o, sold, bought, fee_info, t) ==
  IF o.is_l1 THEN FeeGain(o, fee_info, t) ELSE TradeGain(o, sold, bought, t)
OnL1(o, sold, bought, fee_info, t) ==
  IF o.is_l1 THEN TradeGain(o, sold, bought, t) - FeeGain(o, fee_info, t) ELSE 0

\* The L1 vaults run through the changes of an order, from the k-th on.
RunsOnL1(tr, k, changes) ==
  \A i \in 1 .. Len(changes) : tr[k + i] = L1Step(tr[k + i - 1], changes[i])

\* What an order does to the L1 vaults, in the program and in the hint.
OrderMoves(net, before, after, hinted, o, sold, bought, fee_info, t) ==
  /\ after \in PartialOn(L1Vaults, L1Moves)
  /\ hinted \in PartialOn(L1Vaults, HintMoves)
  /\ Agree(after, hinted)
  /\ HeldBy(net, after, t) = HeldBy(net, before, t) + OnL1(o, sold, bought, fee_info, t)
  /\ DOMAIN after \subseteq DOMAIN before \cup (IF o.is_l1 THEN KeysOf(o) ELSE {})

\* The part of the L1 changes that belongs to an order: an owner on L1 gets what
\* was traded less the fee, the hint follows, and only vaults that the order
\* names are touched.
LEMMA OrderOnL1 ==
  ASSUME NEW o, NEW sold, NEW bought, NEW fee_info, IsFill(o, sold, bought, fee_info),
         NEW t, NEW net \in [L1Vaults -> Int], NEW k \in Nat, NEW tr,
         RunsOnL1(tr, k, OrderChanges(o, sold, bought, fee_info)),
         tr[k] \in PartialOn(L1Vaults, L1Moves),
         NEW updates \in PartialOn(L1Vaults, HintMoves), Agree(tr[k], updates)
  PROVE  OrderMoves(net, tr[k], tr[k + Len(OrderChanges(o, sold, bought, fee_info))],
                    HintOfFill(updates, o, sold, bought, fee_info), o, sold, bought, fee_info, t)
PROOF
  <1> DEFINE changes == OrderChanges(o, sold, bought, fee_info)
             sell == SellOf(o, sold)
             buy == BuyOf(o, bought)
             source == FeeSourceOf(o, fee_info)
             destination == FeeDestinationOf(o, fee_info)
             hinted == HintOfFill(updates, o, sold, bought, fee_info)
             Dicts1 == PartialOn(L1Vaults, L1Moves)
             Hints == PartialOn(L1Vaults, HintMoves)
             Held(d) == HeldBy(net, d, t)
  <1>1. changes = IF fee_info = NoFee THEN <<sell, buy>>
                  ELSE <<sell, buy, source, destination>>
    BY ChangesOfOrder
  <1>2. /\ sell.is_l1 = o.is_l1 /\ buy.is_l1 = o.is_l1
        /\ source.is_l1 = o.is_l1 /\ destination.is_l1 = FALSE
    BY DEF SellOf, BuyOf, FeeSourceOf, FeeDestinationOf, Change
  <1>3. \A i \in 1 .. Len(changes) : tr[k + i] = L1Step(tr[k + i - 1], changes[i])
    BY DEF RunsOnL1
  <1>4. /\ k + 1 - 1 = k /\ k + 2 - 1 = k + 1 /\ k + 3 - 1 = k + 2 /\ k + 4 - 1 = k + 3
    OBVIOUS
  <1> HIDE DEF changes
  <1>5. CASE ~ o.is_l1
    <2>1. ASSUME fee_info = NoFee PROVE tr[k + Len(changes)] = tr[k]
      <3>1. changes = <<sell, buy>> /\ Len(changes) = 2 /\ 1 \in 1 .. Len(changes) /\ 2 \in 1 .. Len(changes)
        BY <1>1, <2>1
      <3>2. tr[k + 1] = L1Step(tr[k], sell) /\ tr[k + 2] = L1Step(tr[k + 1], buy)
        BY <1>3, <1>4, <3>1
      <3> HIDE DEF sell, buy
      <3>3. tr[k + 2] = tr[k]
        BY <1>2, <1>5, <3>2 DEF L1Step
      <3> QED
        BY <3>1, <3>3
    <2>2. ASSUME fee_info # NoFee PROVE tr[k + Len(changes)] = tr[k]
      <3>1. /\ changes = <<sell, buy, source, destination>> /\ Len(changes) = 4
            /\ 1 \in 1 .. Len(changes) /\ 2 \in 1 .. Len(changes)
            /\ 3 \in 1 .. Len(changes) /\ 4 \in 1 .. Len(changes)
        BY <1>1, <2>2
      <3>2. /\ tr[k + 1] = L1Step(tr[k], sell) /\ tr[k + 2] = L1Step(tr[k + 1], buy)
            /\ tr[k + 3] = L1Step(tr[k + 2], source) /\ tr[k + 4] = L1Step(tr[k + 3], destination)
        BY <1>3, <1>4, <3>1
      <3> HIDE DEF sell, buy, source, destination
      <3>3. tr[k + 4] = tr[k]
        BY <1>2, <1>5, <3>2 DEF L1Step
      <3> QED
        BY <3>1, <3>3
    <2>3. tr[k + Len(changes)] = tr[k]
      BY <2>1, <2>2
    <2>4. hinted = updates
      BY <1>5 DEF HintOfFill
    <2>5. Held(tr[k]) \in Int
      BY HeldByType
    <2> QED
      BY <1>5, <2>3, <2>4, <2>5 DEF changes, OrderMoves, OnL1
  <1>6. CASE o.is_l1
    <2>1. /\ fee_info # NoFee
          /\ L1Key(sell) \in L1Vaults /\ L1Key(buy) \in L1Vaults /\ L1Key(source) \in L1Vaults
          /\ sell.diff \in Int /\ buy.diff \in Int /\ source.diff \in Int
          /\ L1Key(sell) = from_order_l1(o, "SELL") /\ L1Key(buy) = from_order_l1(o, "BUY")
          /\ L1Key(source) = from_order_l1(o, "FEE_SOURCE")
      BY <1>6, FillType
    <2>2. /\ changes = <<sell, buy, source, destination>> /\ Len(changes) = 4
          /\ 1 \in 1 .. Len(changes) /\ 2 \in 1 .. Len(changes)
          /\ 3 \in 1 .. Len(changes) /\ 4 \in 1 .. Len(changes)
      BY <1>1, <2>1
    <2>3. /\ tr[k + 1] = L1Step(tr[k], sell) /\ tr[k + 2] = L1Step(tr[k + 1], buy)
          /\ tr[k + 3] = L1Step(tr[k + 2], source) /\ tr[k + 4] = L1Step(tr[k + 3], destination)
      BY <1>3, <1>4, <2>2
    <2>4. /\ sell.diff = -sold /\ buy.diff = bought /\ source.diff = -fee_info.fee_taken
      BY DEF SellOf, BuyOf, FeeSourceOf, Change
    <2>5. sold \in Int /\ bought \in Int /\ fee_info.fee_taken \in Int
      BY <2>1, RequestsAssumption DEF IsFill
    <2> DEFINE u1 == HintStep(updates, L1Key(sell), sell.diff)
               u2 == HintStep(u1, L1Key(buy), buy.diff)
               u3 == HintStep(u2, L1Key(source), source.diff)
    <2>6. hinted = u3
      <3>1. \A role \in {"SELL", "BUY", "FEE_SOURCE"} : from_order_l1(o, role) \in L1Vaults
        BY <2>1
      <3>2. update_order_vaults(updates, o, sold, bought, fee_info.fee_taken)
              = HintStep(HintStep(HintStep(updates, from_order_l1(o, "SELL"), -sold),
                                  from_order_l1(o, "BUY"), bought),
                         from_order_l1(o, "FEE_SOURCE"), -fee_info.fee_taken)
        BY <2>5, <3>1, HintOfOrder
      <3> QED
        BY <1>6, <2>1, <2>4, <3>2 DEF HintOfFill
    <2>7. /\ tr[k + 1] = l1_vault_update_diff(tr[k], sell)
          /\ tr[k + 2] = l1_vault_update_diff(tr[k + 1], buy)
          /\ tr[k + 3] = l1_vault_update_diff(tr[k + 2], source)
          /\ tr[k + 4] = tr[k + 3]
      BY <1>2, <1>6, <2>3 DEF L1Step
    <2>8. /\ Gain(sell, t) + Gain(buy, t) = TradeGain(o, sold, bought, t)
          /\ Gain(sell, t) \in Int /\ Gain(buy, t) \in Int /\ FeeGain(o, fee_info, t) \in Int
          /\ Gain(source, t) = - FeeGain(o, fee_info, t)
      BY <2>1, GainsOfOrder
    <2>9. {L1Key(sell), L1Key(buy), L1Key(source)} = KeysOf(o)
      BY <2>1 DEF KeysOf
    <2>10. /\ u1 \in Hints /\ Agree(tr[k + 1], u1)
           /\ tr[k + 1] \in Dicts1 /\ ChangesOnly(tr[k + 1], tr[k], L1Key(sell))
           /\ Held(tr[k + 1]) = Held(tr[k]) + Gain(sell, t)
      <3> HIDE DEF sell
      <3>1. PICK after : after = l1_vault_update_diff(tr[k], sell)
        OBVIOUS
      <3>2. u1 \in Hints /\ Agree(after, u1)
        BY <2>1, <3>1, StepsAgree
      <3>3. after \in Dicts1 /\ ChangesOnly(after, tr[k], L1Key(sell))
        BY <2>1, <3>1, L1UpdateType
      <3>4. Held(after) = Held(tr[k]) + Gain(sell, t)
        BY <2>1, <3>1, L1UpdateGains
      <3> QED
        BY <2>7, <3>1, <3>2, <3>3, <3>4
    <2> HIDE DEF u1
    <2>11. /\ u2 \in Hints /\ Agree(tr[k + 2], u2)
           /\ tr[k + 2] \in Dicts1 /\ ChangesOnly(tr[k + 2], tr[k + 1], L1Key(buy))
           /\ Held(tr[k + 2]) = Held(tr[k + 1]) + Gain(buy, t)
      <3> HIDE DEF buy
      <3>1. PICK after : after = l1_vault_update_diff(tr[k + 1], buy)
        OBVIOUS
      <3>2. u2 \in Hints /\ Agree(after, u2)
        BY <2>1, <2>10, <3>1, StepsAgree
      <3>3. after \in Dicts1 /\ ChangesOnly(after, tr[k + 1], L1Key(buy))
        BY <2>1, <2>10, <3>1, L1UpdateType
      <3>4. Held(after) = Held(tr[k + 1]) + Gain(buy, t)
        BY <2>1, <2>10, <3>1, L1UpdateGains
      <3> QED
        BY <2>7, <3>1, <3>2, <3>3, <3>4
    <2> HIDE DEF u2
    <2>12. /\ u3 \in Hints /\ Agree(tr[k + 3], u3)
           /\ tr[k + 3] \in Dicts1 /\ ChangesOnly(tr[k + 3], tr[k + 2], L1Key(source))
           /\ Held(tr[k + 3]) = Held(tr[k + 2]) + Gain(source, t)
      <3> HIDE DEF source
      <3>1. PICK after : after = l1_vault_update_diff(tr[k + 2], source)
        OBVIOUS
      <3>2. u3 \in Hints /\ Agree(after, u3)
        BY <2>1, <2>11, <3>1, StepsAgree
      <3>3. after \in Dicts1 /\ ChangesOnly(after, tr[k + 2], L1Key(source))
        BY <2>1, <2>11, <3>1, L1UpdateType
      <3>4. Held(after) = Held(tr[k + 2]) + Gain(source, t)
        BY <2>1, <2>11, <3>1, L1UpdateGains
      <3> QED
        BY <2>7, <3>1, <3>2, <3>3, <3>4
    <2> HIDE DEF u3
    <2>13. Held(tr[k]) \in Int
      BY HeldByType
    <2> HIDE DEF Held, sell, buy, source, destination, hinted
    <2>14. Held(tr[k + 4]) = Held(tr[k]) + (TradeGain(o, sold, bought, t) - FeeGain(o, fee_info, t))
      BY <2>7, <2>8, <2>10, <2>11, <2>12, <2>13
    <2>15. DOMAIN tr[k + 4] \subseteq DOMAIN tr[k] \cup KeysOf(o)
      BY <2>7, <2>9, <2>10, <2>11, <2>12 DEF ChangesOnly
    <2>16. tr[k + 4] \in Dicts1 /\ hinted \in Hints /\ Agree(tr[k + 4], hinted)
      BY <2>6, <2>7, <2>12
    <2> QED
      BY <1>6, <2>2, <2>14, <2>15, <2>16 DEF Held, changes, hinted, OrderMoves, OnL1
  <1> QED
    BY <1>5, <1>6

-----------------------------------------------------------------------------
(* Settlements.                                                            *)

\* What a settlement is made of.
LEMMA SettlementParties ==
  ASSUME NEW s \in Settlements, Settles(s)
  PROVE  /\ IsFill(s.order["A"], s.sold["A"], s.sold["B"], s.fee_info["A"])
         /\ IsFill(s.order["B"], s.sold["B"], s.sold["A"], s.fee_info["B"])
         /\ s.order["A"].asset_id_buy = s.order["B"].asset_id_sell
         /\ s.order["B"].asset_id_buy = s.order["A"].asset_id_sell
         /\ s.order["A"].order_id # s.order["B"].order_id
         /\ other_party("A") = "B" /\ other_party("B") = "A"
         /\ OrderAllows(s.order["A"], s.sold["A"], s.sold["B"], s.fee_info["A"])
         /\ OrderAllows(s.order["B"], s.sold["B"], s.sold["A"], s.fee_info["B"])
         /\ s.sold["A"] \in Nat /\ s.sold["B"] \in Nat
         /\ DOMAIN s.order = {"A", "B"}
PROOF
  <1>1. other_party("A") = "B" /\ other_party("B") = "A"
    BY DEF other_party
  <1>2. /\ s.order \in [{"A", "B"} -> Orders]
        /\ s.fee_info \in [{"A", "B"} -> FeeInfos \cup {NoFee}]
        /\ s.order["A"].order_id # s.order["B"].order_id
    BY DEF Settlements
  <1>3. \A p \in {"A", "B"} :
          /\ InRange(s.sold[p])
          /\ s.order[p].asset_id_buy = s.order[other_party(p)].asset_id_sell
          /\ OrderAllows(s.order[p], s.sold[p], s.sold[other_party(p)], s.fee_info[p])
    BY DEF Settles
  <1>4. /\ InRange(s.sold["A"]) /\ InRange(s.sold["B"])
        /\ s.order["A"].asset_id_buy = s.order["B"].asset_id_sell
        /\ s.order["B"].asset_id_buy = s.order["A"].asset_id_sell
        /\ OrderAllows(s.order["A"], s.sold["A"], s.sold["B"], s.fee_info["A"])
        /\ OrderAllows(s.order["B"], s.sold["B"], s.sold["A"], s.fee_info["B"])
    BY <1>1, <1>3
  <1>5. s.sold["A"] \in Nat /\ s.sold["B"] \in Nat
    BY <1>4, DexAssumption DEF InRange
  <1>6. /\ s.fee_info["A"] = NoFee <=> s.order["A"].fee_info = NoFee
        /\ s.fee_info["B"] = NoFee <=> s.order["B"].fee_info = NoFee
    BY <1>4 DEF OrderAllows
  <1>7. /\ IsFill(s.order["A"], s.sold["A"], s.sold["B"], s.fee_info["A"])
        /\ IsFill(s.order["B"], s.sold["B"], s.sold["A"], s.fee_info["B"])
    BY <1>2, <1>5, <1>6 DEF IsFill
  <1> QED
    BY <1>1, <1>2, <1>4, <1>5, <1>7

\* A squashing that is not rejected in the end was not on the way.
LEMMA NeverRejected ==
  ASSUME NEW dict, NEW accesses, NEW n \in Nat, NEW tr, IsSquash(tr, dict, accesses, n),
         tr[n] # Rejected
  PROVE  \A i \in 0 .. n : tr[i] \in Dicts /\ tr[i] # Rejected
PROOF
  <1> DEFINE Good == {m \in Nat : m <= n => tr[n - m] # Rejected}
  <1>1. 0 \in Good
    OBVIOUS
  <1>2. ASSUME NEW m \in Nat, m \in Good PROVE m + 1 \in Good
    <2> SUFFICES ASSUME m + 1 <= n PROVE tr[n - (m + 1)] # Rejected
      OBVIOUS
    <2>1. n - m \in 1 .. n /\ (n - m) - 1 = n - (m + 1) /\ tr[n - m] # Rejected
      BY <1>2
    <2>2. tr[n - m] = SquashStep(tr[(n - m) - 1], accesses[n - m])
      BY <2>1 DEF IsSquash
    <2> QED
      BY <2>1, <2>2 DEF SquashStep
  <1> HIDE DEF Good
  <1>3. \A m \in Nat : m \in Good
    BY <1>1, <1>2, NaturalInduction
  <1>4. ASSUME NEW i \in 0 .. n PROVE tr[i] \in Dicts /\ tr[i] # Rejected
    <2>1. n - i \in Nat /\ n - i <= n /\ n - (n - i) = i
      OBVIOUS
    <2>2. tr[i] # Rejected
      BY <1>3, <2>1, Zenon DEF Good
    <2> QED
      BY <2>2 DEF IsSquash
  <1> QED
    BY <1>4

\* The accesses of an order, of which there are at most four.
LEMMA OrderAccessesType ==
  ASSUME NEW o, NEW sold, NEW bought, NEW fee_info, IsFill(o, sold, bought, fee_info),
         NEW balance
  PROVE  LET accesses == Accesses(OrderChanges(o, sold, bought, fee_info), balance)
         IN  /\ Len(accesses) \in Nat /\ DOMAIN accesses = 1 .. Len(accesses)
             /\ \E S : accesses \in Seq(S)
             /\ \A i \in 1 .. Len(accesses) : IsAccess(accesses[i]) \/ accesses[i] = Rejected
PROOF
  <1> DEFINE accesses == Accesses(OrderChanges(o, sold, bought, fee_info), balance)
             x1 == AccessOf(SellOf(o, sold), balance)
             x2 == AccessOf(BuyOf(o, bought), balance)
             x3 == AccessOf(FeeSourceOf(o, fee_info), balance)
             x4 == AccessOf(FeeDestinationOf(o, fee_info), balance)
             Fine(a) == IsAccess(a) \/ a = Rejected
  <1>1. accesses = IF o.is_l1 THEN <<x4>> ELSE IF fee_info = NoFee THEN <<x1, x2>>
                   ELSE <<x1, x2, x3, x4>>
    BY AccessesOfOrder
  <1>2. \A c : IsL2Change(c) => Fine(AccessOf(c, balance))
    BY AccessType DEF AccessOf
  <1>3. /\ ~ o.is_l1 => Fine(x1) /\ Fine(x2)
        /\ ~ o.is_l1 /\ fee_info # NoFee => Fine(x3)
        /\ fee_info # NoFee => Fine(x4)
        /\ o.is_l1 => fee_info # NoFee
    BY <1>2, FillType
  <1> HIDE DEF accesses, x1, x2, x3, x4, Fine
  <1>4. /\ accesses \in Seq({x1, x2, x3, x4})
        /\ Len(accesses) \in {1, 2, 4} /\ DOMAIN accesses = 1 .. Len(accesses)
        /\ \A i \in 1 .. Len(accesses) : Fine(accesses[i])
    <2>1. CASE o.is_l1
      BY <1>1, <1>3, <2>1
    <2>2. CASE ~ o.is_l1 /\ fee_info = NoFee
      <3>1. accesses = <<x1, x2>> /\ Fine(x1) /\ Fine(x2)
        BY <1>1, <1>3, <2>2
      <3>2. \A i \in 1 .. 2 : i = 1 \/ i = 2
        OBVIOUS
      <3> QED
        BY <3>1, <3>2
    <2>3. CASE ~ o.is_l1 /\ fee_info # NoFee
      <3>1. accesses = <<x1, x2, x3, x4>> /\ Fine(x1) /\ Fine(x2) /\ Fine(x3) /\ Fine(x4)
        BY <1>1, <1>3, <2>3
      <3>2. \A i \in 1 .. 4 : i = 1 \/ i = 2 \/ i = 3 \/ i = 4
        OBVIOUS
      <3> QED
        BY <3>1, <3>2
    <2> QED
      BY <2>1, <2>2, <2>3
  <1>5. \E S : accesses \in Seq(S)
    BY <1>4
  <1> QED
    BY <1>4, <1>5 DEF accesses, Fine

\* The L2 side of a settlement.
LEMMA SettlementOnL2 ==
  ASSUME vault_dict \in Dicts, NEW s \in Settlements, Settles(s),
         L2DictAfter(s) # Rejected, NEW t \in TokenIds
  PROVE  /\ L2DictAfter(s) \in Dicts
         /\ HeldIn(L2DictAfter(s), t) = HeldIn(vault_dict, t)
              + OnL2(s.order["A"], s.sold["A"], s.sold["B"], s.fee_info["A"], t)
              + OnL2(s.order["B"], s.sold["B"], s.sold["A"], s.fee_info["B"], t)
PROOF
  <1> DEFINE A(balance) == Accesses(OrderChanges(s.order["A"], s.sold["A"], s.sold["B"],
                                                 s.fee_info["A"]), balance)
             B(balance) == Accesses(OrderChanges(s.order["B"], s.sold["B"], s.sold["A"],
                                                 s.fee_info["B"]), balance)
             vault_diffs == Batcher(SettlementChanges(s)).vault_diffs
  <1>1. /\ IsFill(s.order["A"], s.sold["A"], s.sold["B"], s.fee_info["A"])
        /\ IsFill(s.order["B"], s.sold["B"], s.sold["A"], s.fee_info["B"])
        /\ other_party("A") = "B" /\ other_party("B") = "A"
    BY SettlementParties
  <1>2. PICK balance_a, balance_b :
          SettlementAccesses(s, vault_diffs) = A(balance_a) \o B(balance_b)
    <2> HIDE DEF vault_diffs
    <2>1. PartyChanges(s, "A") = OrderChanges(s.order["A"], s.sold["A"], s.sold["B"], s.fee_info["A"])
      BY <1>1 DEF PartyChanges
    <2>2. PartyChanges(s, "B") = OrderChanges(s.order["B"], s.sold["B"], s.sold["A"], s.fee_info["B"])
      BY <1>1 DEF PartyChanges
    <2>3. \E ba, bb : SettlementAccesses(s, vault_diffs)
                        = Accesses(PartyChanges(s, "A"), ba) \o Accesses(PartyChanges(s, "B"), bb)
      BY Zenon DEF SettlementAccesses
    <2> QED
      BY <2>1, <2>2, <2>3, Zenon
  <1>3. PICK a, b : a = A(balance_a) /\ b = B(balance_b)
    OBVIOUS
  <1>4. /\ Len(a) \in Nat /\ DOMAIN a = 1 .. Len(a) /\ \E S : a \in Seq(S)
        /\ \A i \in 1 .. Len(a) : IsAccess(a[i]) \/ a[i] = Rejected
    BY <1>1, <1>3, OrderAccessesType
  <1>5. /\ Len(b) \in Nat /\ DOMAIN b = 1 .. Len(b) /\ \E S : b \in Seq(S)
        /\ \A i \in 1 .. Len(b) : IsAccess(b[i]) \/ b[i] = Rejected
    BY <1>1, <1>3, OrderAccessesType
  <1>6. PICK q : q = a \o b
    OBVIOUS
  <1>7. IsConcat(q, a, b) /\ DOMAIN q = 1 .. Len(q)
    <2>1. PICK S : a \in Seq(S)
      BY <1>4
    <2>2. PICK T : b \in Seq(T)
      BY <1>5
    <2>3. a \in Seq(S \cup T) /\ b \in Seq(S \cup T)
      BY <2>1, <2>2
    <2>4. q \in Seq(S \cup T) /\ IsConcat(q, a, b)
      BY <1>6, <2>3, ConcatIs, Zenon
    <2> QED
      BY <2>4, LenProperties
  <1>8. L2DictAfter(s) = squash_dict(vault_dict, q)
    BY <1>2, <1>3, <1>6, Zenon DEF L2DictAfter
  <1> HIDE DEF A, B, vault_diffs
  <1> DEFINE k == Len(a)
             n == Len(q)
  <1>9. k \in Nat /\ Len(b) \in Nat /\ n = k + Len(b) /\ n \in Nat
    BY <1>4, <1>5, <1>7 DEF IsConcat
  <1>10. /\ \A i \in 1 .. k : q[i] = a[i]
         /\ \A i \in 1 .. Len(b) : q[k + i] = b[i]
    BY <1>7 DEF IsConcat
  <1> HIDE DEF k, n
  <1>11. \A i \in 1 .. n : IsAccess(q[i]) \/ q[i] = Rejected
    <2> SUFFICES ASSUME NEW i \in 1 .. n PROVE IsAccess(q[i]) \/ q[i] = Rejected
      OBVIOUS
    <2>1. CASE i <= k
      <3>1. i \in 1 .. k
        BY <1>9, <2>1
      <3> QED
        BY <1>4, <1>10, <3>1 DEF k
    <2>2. CASE ~ (i <= k)
      <3>1. i - k \in 1 .. Len(b) /\ k + (i - k) = i
        BY <1>9, <2>2
      <3> QED
        BY <1>5, <1>10, <3>1
    <2> QED
      BY <2>1, <2>2
  <1>12. PICK tr : IsSquash(tr, vault_dict, q, n) /\ tr[n] = squash_dict(vault_dict, q)
    BY <1>7, <1>9, <1>11, SquashHasTrace DEF n
  <1>13. \A i \in 0 .. n : tr[i] \in Dicts /\ tr[i] # Rejected
    BY <1>8, <1>9, <1>12, NeverRejected
  <1>14. tr[0] = vault_dict /\ \A i \in 1 .. n : tr[i] = SquashStep(tr[i - 1], q[i])
    BY <1>12 DEF IsSquash
  <1>15. /\ tr[0 + k] \in Dicts
         /\ HeldIn(tr[0 + k], t) = HeldIn(tr[0], t)
              + OnL2(s.order["A"], s.sold["A"], s.sold["B"], s.fee_info["A"], t)
    <2>1. \A i \in 1 .. k : tr[0 + i] = SquashStep(tr[0 + i - 1], a[i])
      <3> SUFFICES ASSUME NEW i \in 1 .. k PROVE tr[0 + i] = SquashStep(tr[0 + i - 1], a[i])
        OBVIOUS
      <3>1. i \in 1 .. n /\ 0 + i = i /\ 0 + i - 1 = i - 1
        BY <1>9
      <3> QED
        BY <1>10, <1>14, <3>1
    <2>2. tr[0] \in Dicts /\ tr[0 + k] # Rejected
      <3>1. 0 \in 0 .. n /\ 0 + k \in 0 .. n
        BY <1>9
      <3> QED
        BY <1>13, <3>1
    <2>3. a = Accesses(OrderChanges(s.order["A"], s.sold["A"], s.sold["B"], s.fee_info["A"]), balance_a)
      BY <1>3 DEF A
    <2>4. 0 \in Nat /\ k = Len(a)
      BY DEF k
    <2> QED
      BY <1>1, <2>1, <2>2, <2>3, <2>4, OrderOnL2 DEF OnL2
  <1>16. /\ tr[k + Len(b)] \in Dicts
         /\ HeldIn(tr[k + Len(b)], t) = HeldIn(tr[k], t)
              + OnL2(s.order["B"], s.sold["B"], s.sold["A"], s.fee_info["B"], t)
    <2>1. \A i \in 1 .. Len(b) : tr[k + i] = SquashStep(tr[k + i - 1], b[i])
      <3> SUFFICES ASSUME NEW i \in 1 .. Len(b) PROVE tr[k + i] = SquashStep(tr[k + i - 1], b[i])
        OBVIOUS
      <3>1. k + i \in 1 .. n /\ (k + i) - 1 = k + i - 1
        BY <1>9
      <3>2. q[k + i] = b[i]
        BY <1>10
      <3>3. tr[k + i] = SquashStep(tr[(k + i) - 1], q[k + i])
        BY <1>14, <3>1
      <3> QED
        BY <3>1, <3>2, <3>3
    <2>2. tr[k] \in Dicts /\ tr[k + Len(b)] # Rejected
      <3>1. k \in 0 .. n /\ k + Len(b) \in 0 .. n
        BY <1>9
      <3> QED
        BY <1>13, <3>1
    <2>3. b = Accesses(OrderChanges(s.order["B"], s.sold["B"], s.sold["A"], s.fee_info["B"]), balance_b)
      BY <1>3 DEF B
    <2> QED
      <3> DEFINE o == s.order["B"]
                 sold == s.sold["B"]
                 bought == s.sold["A"]
                 fee_info == s.fee_info["B"]
      <3>1. b = Accesses(OrderChanges(o, sold, bought, fee_info), balance_b)
        BY <2>3
      <3>2. IsFill(o, sold, bought, fee_info)
        BY <1>1
      <3> HIDE DEF o, sold, bought, fee_info
      <3>3. /\ tr[k + Len(b)] \in Dicts
            /\ HeldIn(tr[k + Len(b)], t) = HeldIn(tr[k], t) + OnL2(o, sold, bought, fee_info, t)
        <4> DEFINE accesses == Accesses(OrderChanges(o, sold, bought, fee_info), balance_b)
        <4>1. /\ \A i \in 1 .. Len(accesses) : tr[k + i] = SquashStep(tr[k + i - 1], accesses[i])
              /\ tr[k + Len(accesses)] # Rejected
          BY <2>1, <2>2, <3>1
        <4>2. /\ tr[k + Len(accesses)] \in Dicts
              /\ HeldIn(tr[k + Len(accesses)], t)
                   = HeldIn(tr[k], t) + OnL2(o, sold, bought, fee_info, t)
          BY <1>9, <2>2, <3>2, <4>1, OrderOnL2 DEF OnL2
        <4> QED
          BY <3>1, <4>2
      <3> QED
        BY <3>3 DEF o, sold, bought, fee_info
  <1>17. 0 + k = k /\ k + Len(b) = n
    BY <1>9
  <1> QED
    BY <1>8, <1>12, <1>14, <1>15, <1>16, <1>17

\* The hint stays a function of L1 vaults.
LEMMA HintOfFillType ==
  ASSUME NEW o, NEW sold, NEW bought, NEW fee_info, IsFill(o, sold, bought, fee_info),
         NEW updates \in PartialOn(L1Vaults, HintMoves)
  PROVE  HintOfFill(updates, o, sold, bought, fee_info) \in PartialOn(L1Vaults, HintMoves)
PROOF
  <1>1. CASE ~ o.is_l1
    BY <1>1 DEF HintOfFill
  <1>2. CASE o.is_l1
    <2> DEFINE key(role) == from_order_l1(o, role)
               u1 == HintStep(updates, key("SELL"), -sold)
               u2 == HintStep(u1, key("BUY"), bought)
               u3 == HintStep(u2, key("FEE_SOURCE"), -fee_info.fee_taken)
               D == PartialOn(L1Vaults, HintMoves)
    <2>1. /\ fee_info # NoFee /\ o \in Orders /\ sold \in Int /\ bought \in Int
          /\ \A role \in {"SELL", "BUY", "FEE_SOURCE"} : key(role) \in L1Vaults
      BY <1>2, RequestsAssumption DEF IsFill, UsesL1Vaults
    <2>2. fee_info.fee_taken \in Int
      BY <2>1, RequestsAssumption DEF IsFill
    <2>3. HintOfFill(updates, o, sold, bought, fee_info) = u3
      BY <1>2, <2>1, <2>2, HintOfOrder DEF HintOfFill
    <2>4. -sold \in Int /\ -fee_info.fee_taken \in Int
      BY <2>1, <2>2
    <2> HIDE DEF key
    <2>5. u1 \in D
      BY <2>1, <2>4, HintStepType
    <2> HIDE DEF u1
    <2>6. u2 \in D
      BY <2>1, <2>5, HintStepType
    <2> HIDE DEF u2
    <2>7. u3 \in D
      BY <2>1, <2>4, <2>6, HintStepType
    <2> QED
      BY <2>3, <2>7
  <1> QED
    BY <1>1, <1>2

\* The changes of an order.
LEMMA OrderChangesType ==
  ASSUME NEW o, NEW sold, NEW bought, NEW fee_info, IsFill(o, sold, bought, fee_info)
  PROVE  LET changes == OrderChanges(o, sold, bought, fee_info)
         IN  /\ Len(changes) \in Nat /\ DOMAIN changes = 1 .. Len(changes)
             /\ \E S : changes \in Seq(S)
             /\ \A i \in 1 .. Len(changes) :
                  /\ changes[i].is_l1 => L1Key(changes[i]) \in L1Vaults /\ changes[i].diff \in Int
                  /\ ~ changes[i].is_l1 => IsL2Change(changes[i])
PROOF
  <1> DEFINE changes == OrderChanges(o, sold, bought, fee_info)
             sell == SellOf(o, sold)
             buy == BuyOf(o, bought)
             source == FeeSourceOf(o, fee_info)
             destination == FeeDestinationOf(o, fee_info)
             Fine(c) == /\ c.is_l1 => L1Key(c) \in L1Vaults /\ c.diff \in Int
                        /\ ~ c.is_l1 => IsL2Change(c)
  <1>1. changes = IF fee_info = NoFee THEN <<sell, buy>> ELSE <<sell, buy, source, destination>>
    BY ChangesOfOrder
  <1>2. /\ sell.is_l1 = o.is_l1 /\ buy.is_l1 = o.is_l1
        /\ source.is_l1 = o.is_l1 /\ destination.is_l1 = FALSE
    BY DEF SellOf, BuyOf, FeeSourceOf, FeeDestinationOf, Change
  <1>3. /\ o.is_l1 => \A c \in {sell, buy, source} : L1Key(c) \in L1Vaults /\ c.diff \in Int
        /\ ~ o.is_l1 => IsL2Change(sell) /\ IsL2Change(buy)
        /\ fee_info # NoFee => IsL2Change(destination) /\ (~ o.is_l1 => IsL2Change(source))
        /\ o.is_l1 => fee_info # NoFee
    BY FillType
  <1> HIDE DEF changes, sell, buy, source, destination
  <1>4. /\ Fine(sell) /\ Fine(buy)
        /\ fee_info # NoFee => Fine(source) /\ Fine(destination)
    BY <1>2, <1>3
  <1> HIDE DEF Fine
  <1>5. /\ changes \in Seq({sell, buy, source, destination})
        /\ Len(changes) \in {2, 4} /\ DOMAIN changes = 1 .. Len(changes)
        /\ \A i \in 1 .. Len(changes) : Fine(changes[i])
    <2>1. CASE fee_info = NoFee
      <3>1. changes = <<sell, buy>>
        BY <1>1, <2>1
      <3>2. \A i \in 1 .. 2 : i = 1 \/ i = 2
        OBVIOUS
      <3> QED
        BY <1>4, <3>1, <3>2
    <2>2. CASE fee_info # NoFee
      <3>1. changes = <<sell, buy, source, destination>>
        BY <1>1, <2>2
      <3>2. \A i \in 1 .. 4 : i = 1 \/ i = 2 \/ i = 3 \/ i = 4
        OBVIOUS
      <3> QED
        BY <1>4, <2>2, <3>1, <3>2
    <2> QED
      BY <2>1, <2>2
  <1>6. \E S : changes \in Seq(S)
    BY <1>5
  <1> QED
    BY <1>5, <1>6 DEF changes, Fine

\* The L1 side of a settlement: the program, the hint, and the vaults named.
LEMMA SettlementOnL1 ==
  ASSUME l1_vault_dict \in PartialOn(L1Vaults, L1Moves),
         l1_vaults_balances \in PartialOn(L1Vaults, HintMoves),
         Agree(l1_vault_dict, l1_vaults_balances),
         NEW net \in [L1Vaults -> Int],
         NEW s \in Settlements, Settles(s), NEW t
  PROVE  /\ L1DictAfter(s) \in PartialOn(L1Vaults, L1Moves)
         /\ L1HintAfter(s) \in PartialOn(L1Vaults, HintMoves)
         /\ Agree(L1DictAfter(s), L1HintAfter(s))
         /\ HeldBy(net, L1DictAfter(s), t) = HeldBy(net, l1_vault_dict, t)
              + OnL1(s.order["A"], s.sold["A"], s.sold["B"], s.fee_info["A"], t)
              + OnL1(s.order["B"], s.sold["B"], s.sold["A"], s.fee_info["B"], t)
         /\ \A key \in DOMAIN L1DictAfter(s) :
              \/ key \in DOMAIN l1_vault_dict
              \/ \E p \in {"A", "B"} : s.order[p].is_l1 /\ key \in KeysOf(s.order[p])
PROOF
  <1> DEFINE oa == s.order["A"]
             ob == s.order["B"]
             sa == s.sold["A"]
             sb == s.sold["B"]
             fa == s.fee_info["A"]
             fb == s.fee_info["B"]
  <1>1. /\ IsFill(oa, sa, sb, fa) /\ IsFill(ob, sb, sa, fb)
        /\ other_party("A") = "B" /\ other_party("B") = "A"
    BY SettlementParties
  <1>2. PICK a, b : a = OrderChanges(oa, sa, sb, fa) /\ b = OrderChanges(ob, sb, sa, fb)
    OBVIOUS
  <1>3. SettlementChanges(s) = a \o b
    BY <1>1, <1>2, Zenon DEF SettlementChanges, PartyChanges
  <1>4. L1HintAfter(s) = HintOfFill(HintOfFill(l1_vaults_balances, oa, sa, sb, fa), ob, sb, sa, fb)
    <2> DEFINE D == PartialOn(L1Vaults, HintMoves)
    <2>1. \A u : /\ HintOfParty(u, s, "A") = HintOfFill(u, oa, sa, sb, fa)
                 /\ HintOfParty(u, s, "B") = HintOfFill(u, ob, sb, sa, fb)
      BY <1>1 DEF HintOfParty, HintOfFill
    <2>2. \A party \in {"A", "B"}, u \in D : HintOfParty(u, s, party) \in D
      <3> HIDE DEF oa, ob, sa, sb, fa, fb, D
      <3>1. \A u \in D : HintOfFill(u, oa, sa, sb, fa) \in D /\ HintOfFill(u, ob, sb, sa, fb) \in D
        BY <1>1, HintOfFillType DEF D
      <3> QED
        BY <2>1, <3>1
    <2>3. update_l1_vault_balances(l1_vaults_balances, s)
            = HintOfParty(HintOfParty(l1_vaults_balances, s, "A"), s, "B")
      <3> HIDE DEF D
      <3>1. l1_vaults_balances \in D
        BY DEF D
      <3> QED
        BY <2>2, <3>1, HintOfParties
    <2> HIDE DEF oa, ob, sa, sb, fa, fb
    <2> QED
      BY <2>1, <2>3 DEF L1HintAfter
  <1> HIDE DEF oa, ob, sa, sb, fa, fb
  <1>5. /\ Len(a) \in Nat /\ DOMAIN a = 1 .. Len(a) /\ \E S : a \in Seq(S)
        /\ \A i \in 1 .. Len(a) : a[i].is_l1 => L1Key(a[i]) \in L1Vaults /\ a[i].diff \in Int
    BY <1>1, <1>2, OrderChangesType
  <1>6. /\ Len(b) \in Nat /\ DOMAIN b = 1 .. Len(b) /\ \E S : b \in Seq(S)
        /\ \A i \in 1 .. Len(b) : b[i].is_l1 => L1Key(b[i]) \in L1Vaults /\ b[i].diff \in Int
    BY <1>1, <1>2, OrderChangesType
  <1>7. PICK q : q = a \o b
    OBVIOUS
  <1>8. IsConcat(q, a, b) /\ DOMAIN q = 1 .. Len(q)
    <2>1. PICK S : a \in Seq(S)
      BY <1>5
    <2>2. PICK T : b \in Seq(T)
      BY <1>6
    <2>3. a \in Seq(S \cup T) /\ b \in Seq(S \cup T)
      BY <2>1, <2>2
    <2>4. q \in Seq(S \cup T) /\ IsConcat(q, a, b)
      BY <1>7, <2>3, ConcatIs, Zenon
    <2> QED
      BY <2>4, LenProperties
  <1> DEFINE k == Len(a)
             m == Len(b)
             n == Len(q)
  <1>9. k \in Nat /\ m \in Nat /\ n = k + m /\ n \in Nat
    BY <1>5, <1>6, <1>8 DEF IsConcat
  <1>10. (\A i \in 1 .. k : q[i] = a[i]) /\ \A i \in 1 .. m : q[k + i] = b[i]
    BY <1>8 DEF IsConcat
  <1> HIDE DEF k, m, n
  <1>11. \A i \in 1 .. n : q[i].is_l1 => L1Key(q[i]) \in L1Vaults /\ q[i].diff \in Int
    <2> SUFFICES ASSUME NEW i \in 1 .. n
                 PROVE  q[i].is_l1 => L1Key(q[i]) \in L1Vaults /\ q[i].diff \in Int
      OBVIOUS
    <2>1. CASE i <= k
      <3>1. i \in 1 .. k
        BY <1>9, <2>1
      <3> QED
        BY <1>5, <1>10, <3>1 DEF k
    <2>2. CASE ~ (i <= k)
      <3>1. i - k \in 1 .. m /\ k + (i - k) = i
        BY <1>9, <2>2
      <3> QED
        BY <1>6, <1>10, <3>1 DEF m
    <2> QED
      BY <2>1, <2>2
  <1>12. PICK tr : IsL1Trace(tr, L1Vaults, q, n) /\ tr[n] = L1DictAfter(s)
    <2>1. q = SettlementChanges(s)
      BY <1>3, <1>7, Zenon
    <2>2. DOMAIN q = 1 .. n
      BY <1>8 DEF n
    <2> QED
      BY <1>9, <1>11, <2>1, <2>2, L1DictHasTrace
  <1>13. tr[0] = l1_vault_dict /\ \A i \in 1 .. n : tr[i] = L1Step(tr[i - 1], q[i])
    BY <1>12 DEF IsL1Trace
  <1> DEFINE u == HintOfFill(l1_vaults_balances, oa, sa, sb, fa)
             v == HintOfFill(u, ob, sb, sa, fb)
             KeysA == IF oa.is_l1 THEN KeysOf(oa) ELSE {}
             KeysB == IF ob.is_l1 THEN KeysOf(ob) ELSE {}
  <1>14. /\ tr[k] \in PartialOn(L1Vaults, L1Moves) /\ u \in PartialOn(L1Vaults, HintMoves)
         /\ Agree(tr[k], u)
         /\ HeldBy(net, tr[k], t) = HeldBy(net, tr[0], t) + OnL1(oa, sa, sb, fa, t)
         /\ DOMAIN tr[k] \subseteq DOMAIN tr[0] \cup KeysA
    <2> DEFINE changes == OrderChanges(oa, sa, sb, fa)
    <2>1. changes = a /\ Len(changes) = k
      BY <1>2 DEF k
    <2>2. RunsOnL1(tr, 0, changes)
      <3> SUFFICES ASSUME NEW i \in 1 .. k PROVE tr[0 + i] = L1Step(tr[0 + i - 1], a[i])
        BY <2>1 DEF RunsOnL1
      <3>1. i \in 1 .. n /\ 0 + i = i /\ 0 + i - 1 = i - 1
        BY <1>9
      <3> QED
        BY <1>10, <1>13, <3>1
    <2>3. tr[0] \in PartialOn(L1Vaults, L1Moves) /\ Agree(tr[0], l1_vaults_balances) /\ 0 \in Nat
      BY <1>13
    <2>4. 0 + k = k
      BY <1>9
    <2>5. /\ tr[0 + Len(changes)] \in PartialOn(L1Vaults, L1Moves)
          /\ u \in PartialOn(L1Vaults, HintMoves)
          /\ Agree(tr[0 + Len(changes)], u)
          /\ HeldBy(net, tr[0 + Len(changes)], t) = HeldBy(net, tr[0], t) + OnL1(oa, sa, sb, fa, t)
          /\ DOMAIN tr[0 + Len(changes)] \subseteq DOMAIN tr[0] \cup KeysA
      <3>1. OrderMoves(net, tr[0], tr[0 + Len(changes)], u, oa, sa, sb, fa, t)
        BY <1>1, <2>2, <2>3, OrderOnL1
      <3> QED
        BY <3>1 DEF OrderMoves
    <2> HIDE DEF u, KeysA, changes
    <2> QED
      BY <2>1, <2>4, <2>5
  <1> HIDE DEF u
  <1>15. /\ tr[k + m] \in PartialOn(L1Vaults, L1Moves) /\ v \in PartialOn(L1Vaults, HintMoves)
         /\ Agree(tr[k + m], v)
         /\ HeldBy(net, tr[k + m], t) = HeldBy(net, tr[k], t) + OnL1(ob, sb, sa, fb, t)
         /\ DOMAIN tr[k + m] \subseteq DOMAIN tr[k] \cup KeysB
    <2> DEFINE changes == OrderChanges(ob, sb, sa, fb)
    <2>1. changes = b /\ Len(changes) = m
      BY <1>2 DEF m
    <2>2. RunsOnL1(tr, k, changes)
      <3> SUFFICES ASSUME NEW i \in 1 .. m PROVE tr[k + i] = L1Step(tr[k + i - 1], b[i])
        BY <2>1 DEF RunsOnL1
      <3>1. k + i \in 1 .. n /\ (k + i) - 1 = k + i - 1
        BY <1>9
      <3>2. tr[k + i] = L1Step(tr[(k + i) - 1], q[k + i])
        BY <1>13, <3>1
      <3>3. q[k + i] = b[i]
        BY <1>10
      <3> QED
        BY <3>1, <3>2, <3>3
    <2>3. /\ tr[k + Len(changes)] \in PartialOn(L1Vaults, L1Moves)
          /\ v \in PartialOn(L1Vaults, HintMoves)
          /\ Agree(tr[k + Len(changes)], v)
          /\ HeldBy(net, tr[k + Len(changes)], t) = HeldBy(net, tr[k], t) + OnL1(ob, sb, sa, fb, t)
          /\ DOMAIN tr[k + Len(changes)] \subseteq DOMAIN tr[k] \cup KeysB
      <3>1. OrderMoves(net, tr[k], tr[k + Len(changes)], v, ob, sb, sa, fb, t)
        BY <1>1, <1>9, <1>14, <2>2, OrderOnL1
      <3> QED
        BY <3>1 DEF OrderMoves
    <2> HIDE DEF v, KeysB, changes
    <2> QED
      BY <2>1, <2>3
  <1>16. /\ L1DictAfter(s) = tr[k + m] /\ L1HintAfter(s) = v /\ tr[0] = l1_vault_dict
    BY <1>4, <1>9, <1>12, <1>13 DEF u
  <1> HIDE DEF v
  <1>17. HeldBy(net, L1DictAfter(s), t) = HeldBy(net, l1_vault_dict, t)
           + OnL1(oa, sa, sb, fa, t) + OnL1(ob, sb, sa, fb, t)
    BY <1>14, <1>15, <1>16
  <1>18. ASSUME NEW key \in DOMAIN L1DictAfter(s)
         PROVE  \/ key \in DOMAIN l1_vault_dict
                \/ \E p \in {"A", "B"} : s.order[p].is_l1 /\ key \in KeysOf(s.order[p])
    <2>1. key \in DOMAIN l1_vault_dict \/ key \in KeysA \/ key \in KeysB
      BY <1>14, <1>15, <1>16
    <2> QED
      BY <2>1 DEF oa, ob
  <1> QED
    BY <1>14, <1>15, <1>16, <1>17, <1>18 DEF oa, ob, sa, sb, fa, fb

\* A settlement moves tokens between vaults, on whatever layer they are: what an
\* order gets, the other gives, and a fee stays where it is or crosses the layers.
LEMMA SettlementBalances ==
  ASSUME NEW s \in Settlements, Settles(s), NEW t
  PROVE  LET OnL2Of(p, q) == OnL2(s.order[p], s.sold[p], s.sold[q], s.fee_info[p], t)
             OnL1Of(p, q) == OnL1(s.order[p], s.sold[p], s.sold[q], s.fee_info[p], t)
         IN  /\ OnL2Of("A", "B") \in Int /\ OnL2Of("B", "A") \in Int
             /\ OnL1Of("A", "B") \in Int /\ OnL1Of("B", "A") \in Int
             /\ OnL2Of("A", "B") + OnL2Of("B", "A") + OnL1Of("A", "B") + OnL1Of("B", "A") = 0
PROOF
  <1> DEFINE oa == s.order["A"]
             ob == s.order["B"]
             sa == s.sold["A"]
             sb == s.sold["B"]
             fa == s.fee_info["A"]
             fb == s.fee_info["B"]
  <1>1. /\ IsFill(oa, sa, sb, fa) /\ IsFill(ob, sb, sa, fb)
        /\ oa.asset_id_buy = ob.asset_id_sell /\ ob.asset_id_buy = oa.asset_id_sell
        /\ sa \in Nat /\ sb \in Nat
    BY SettlementParties
  <1> HIDE DEF oa, ob, sa, sb, fa, fb
  <1>2. /\ TradeGain(oa, sa, sb, t) \in Int /\ FeeGain(oa, fa, t) \in Int
        /\ TradeGain(ob, sb, sa, t) \in Int /\ FeeGain(ob, fb, t) \in Int
    BY <1>1, GainsOfOrder
  <1>3. TradeGain(oa, sa, sb, t) + TradeGain(ob, sb, sa, t) = 0
    BY <1>1 DEF TradeGain
  <1>4. /\ OnL2(oa, sa, sb, fa, t) \in Int /\ OnL1(oa, sa, sb, fa, t) \in Int
        /\ OnL2(oa, sa, sb, fa, t) + OnL1(oa, sa, sb, fa, t) = TradeGain(oa, sa, sb, t)
    BY <1>2 DEF OnL1, OnL2
  <1>5. /\ OnL2(ob, sb, sa, fb, t) \in Int /\ OnL1(ob, sb, sa, fb, t) \in Int
        /\ OnL2(ob, sb, sa, fb, t) + OnL1(ob, sb, sa, fb, t) = TradeGain(ob, sb, sa, t)
    BY <1>2 DEF OnL1, OnL2
  <1>6. OnL2(oa, sa, sb, fa, t) + OnL2(ob, sb, sa, fb, t)
          + OnL1(oa, sa, sb, fa, t) + OnL1(ob, sb, sa, fb, t) = 0
    BY <1>2, <1>3, <1>4, <1>5
  <1> QED
    BY <1>4, <1>5, <1>6 DEF oa, ob, sa, sb, fa, fb

\* A sum over the two parties.
LEMMA SumOfParties ==
  ASSUME NEW f, DOMAIN f = {"A", "B"}, f["A"] \in Int, f["B"] \in Int
  PROVE  SumFunction(f) = f["A"] + f["B"]
PROOF
  <1>1. IsFiniteSet({"A", "B"})
    <2>1. IsFiniteSet({"A"}) /\ {"A"} \cup {"B"} = {"A", "B"}
      BY FS_Singleton
    <2>2. IsFiniteSet({"A"} \cup {"B"})
      BY <2>1, FS_AddElement
    <2> QED
      BY <2>1, <2>2, Zenon
  <1>2. \A p \in {"A", "B"} : f[p] \in Int
    OBVIOUS
  <1>3. SumFunctionOnSet(f, {"A", "B"}) = f["A"] + SumFunctionOnSet(f, {"A", "B"} \ {"A"})
    BY <1>1, <1>2, SumTakesAny
  <1>4. SumFunctionOnSet(f, {"A", "B"} \ {"A"}) = SumFunctionOnSet(f, {} \cup {"B"})
    <2>1. {"A", "B"} \ {"A"} = {} \cup {"B"}
      OBVIOUS
    <2> QED
      BY <2>1, Zenon
  <1>5. SumFunctionOnSet(f, {} \cup {"B"}) = f["B"] + SumFunctionOnSet(f, {})
    BY <1>1, <1>2, SumWithElement
  <1>6. SumFunctionOnSet(f, {}) = 0
    BY SumOfNothing
  <1>7. SumFunction(f) = SumFunctionOnSet(f, {"A", "B"})
    BY DEF SumFunction
  <1>8. \A x, y, z, u : x = f["A"] + y /\ y = z /\ z = f["B"] + u /\ u = 0 => x = f["A"] + f["B"]
    OBVIOUS
  <1> QED
    BY <1>8, <1>3, <1>4, <1>5, <1>6, <1>7

\* What a settlement adds for an order id: to what is sold, bought and paid.
LEMMA SettlementFills ==
  ASSUME NEW s \in Settlements, Settles(s), NEW id
  PROVE  LET Sold == SumFunction([p \in {"A", "B"} |->
                       IF s.order[p].order_id = id THEN s.sold[p] ELSE 0])
             Bought == SumFunction([p \in {"A", "B"} |->
                         IF s.order[p].order_id = id THEN s.sold[other_party(p)] ELSE 0])
             Fee == SumFunction([p \in {"A", "B"} |->
                      IF s.order[p].order_id = id /\ s.fee_info[p] # NoFee
                      THEN s.fee_info[p].fee_taken ELSE 0])
             Paid(p) == IF s.fee_info[p] # NoFee THEN s.fee_info[p].fee_taken ELSE 0
         IN  /\ s.order["A"].order_id = id =>
                  Sold = s.sold["A"] /\ Bought = s.sold["B"] /\ Fee = Paid("A")
             /\ s.order["B"].order_id = id =>
                  Sold = s.sold["B"] /\ Bought = s.sold["A"] /\ Fee = Paid("B")
             /\ s.order["A"].order_id # id /\ s.order["B"].order_id # id =>
                  Sold = 0 /\ Bought = 0 /\ Fee = 0
             /\ Sold \in Nat /\ Bought \in Nat /\ Fee \in Int
PROOF
  <1> DEFINE sold == [p \in {"A", "B"} |-> IF s.order[p].order_id = id THEN s.sold[p] ELSE 0]
             bought == [p \in {"A", "B"} |->
                          IF s.order[p].order_id = id THEN s.sold[other_party(p)] ELSE 0]
             fee == [p \in {"A", "B"} |->
                       IF s.order[p].order_id = id /\ s.fee_info[p] # NoFee
                       THEN s.fee_info[p].fee_taken ELSE 0]
  <1>1. /\ s.order["A"].order_id # s.order["B"].order_id
        /\ other_party("A") = "B" /\ other_party("B") = "A"
        /\ s.sold["A"] \in Nat /\ s.sold["B"] \in Nat
        /\ s.fee_info["A"] # NoFee => s.fee_info["A"].fee_taken \in Int
        /\ s.fee_info["B"] # NoFee => s.fee_info["B"].fee_taken \in Int
    BY SettlementParties, RequestsAssumption DEF IsFill
  <1>2. /\ sold["A"] = (IF s.order["A"].order_id = id THEN s.sold["A"] ELSE 0)
        /\ sold["B"] = (IF s.order["B"].order_id = id THEN s.sold["B"] ELSE 0)
        /\ bought["A"] = (IF s.order["A"].order_id = id THEN s.sold["B"] ELSE 0)
        /\ bought["B"] = (IF s.order["B"].order_id = id THEN s.sold["A"] ELSE 0)
        /\ fee["A"] = (IF s.order["A"].order_id = id /\ s.fee_info["A"] # NoFee
                       THEN s.fee_info["A"].fee_taken ELSE 0)
        /\ fee["B"] = (IF s.order["B"].order_id = id /\ s.fee_info["B"] # NoFee
                       THEN s.fee_info["B"].fee_taken ELSE 0)
    BY <1>1
  <1>3. DOMAIN sold = {"A", "B"} /\ DOMAIN bought = {"A", "B"} /\ DOMAIN fee = {"A", "B"}
    OBVIOUS
  <1> HIDE DEF sold, bought, fee
  <1>4. /\ SumFunction(sold) = sold["A"] + sold["B"]
        /\ SumFunction(bought) = bought["A"] + bought["B"]
        /\ SumFunction(fee) = fee["A"] + fee["B"]
    BY <1>1, <1>2, <1>3, SumOfParties
  <1>5. /\ s.order["A"].order_id = id =>
             /\ SumFunction(sold) = s.sold["A"] /\ SumFunction(bought) = s.sold["B"]
             /\ SumFunction(fee) = IF s.fee_info["A"] # NoFee THEN s.fee_info["A"].fee_taken ELSE 0
        /\ s.order["B"].order_id = id =>
             /\ SumFunction(sold) = s.sold["B"] /\ SumFunction(bought) = s.sold["A"]
             /\ SumFunction(fee) = IF s.fee_info["B"] # NoFee THEN s.fee_info["B"].fee_taken ELSE 0
        /\ s.order["A"].order_id # id /\ s.order["B"].order_id # id =>
             SumFunction(sold) = 0 /\ SumFunction(bought) = 0 /\ SumFunction(fee) = 0
        /\ SumFunction(sold) \in Nat /\ SumFunction(bought) \in Nat /\ SumFunction(fee) \in Int
    BY <1>1, <1>2, <1>4
  <1> QED
    BY <1>5 DEF sold, bought, fee

-----------------------------------------------------------------------------
(* The invariant.                                                          *)

MintIds == {mint_index(token_id) : token_id \in MintableTokens}

DexTypes ==
  /\ vault_dict \in Dicts
  /\ order_dict \in [OrderIds \cup MintIds -> Nat]
  /\ filled \in [OrderIds -> [bought : Nat, fee : Int]]
  /\ l1_vault_dict \in PartialOn(L1Vaults, L1Moves)
  /\ l1_vaults_balances \in PartialOn(L1Vaults, HintMoves)
  /\ outside \in [TokenIds -> Nat]
  /\ l1_net \in [L1Vaults -> Int]
  /\ requests \subseteq FullWithdrawalRequests

DexInv ==
  /\ DexTypes
  /\ Agree(l1_vault_dict, l1_vaults_balances)
  /\ TokensConserved
  /\ OrderTermsHoldOverFills
  /\ L1VaultsNamedByOrders

\* TokensConserved, of the state's parts.
Conserved(vaults, net, l1, out, ord, t) ==
  HeldIn(vaults, t) + HeldBy(net, l1, t) + out[t]
    = Supply[t] + (IF t \in MintableTokens THEN ord[mint_index(t)] ELSE 0)

\* TokensConserved, now and after a step.
LEMMA ConservationOfParts ==
  /\ TokensConserved <=>
       \A t \in TokenIds :
         Conserved(vault_dict, l1_net, l1_vault_dict, outside, order_dict, t)
  /\ TokensConserved' <=>
       \A t \in TokenIds :
         Conserved(vault_dict', l1_net', l1_vault_dict', outside', order_dict', t)
PROOF
  <1>1. TokensConserved <=>
          \A t \in TokenIds :
            Conserved(vault_dict, l1_net, l1_vault_dict, outside, order_dict, t)
    BY DEF TokensConserved, HeldOnL2, HeldOnL1, Minted, Conserved, HeldIn, HeldBy
  <1>2. TokensConserved' <=>
          \A t \in TokenIds :
            Conserved(vault_dict', l1_net', l1_vault_dict', outside', order_dict', t)
    BY DEF TokensConserved, HeldOnL2, HeldOnL1, Minted, Conserved, HeldIn, HeldBy
  <1> QED
    BY <1>1, <1>2

\* What a dictionary holds is a number.
LEMMA HeldInType ==
  ASSUME NEW d \in Dicts, NEW t
  PROVE  HeldIn(d, t) \in Int
PROOF
  <1> DEFINE share == [v \in VaultIds |-> IF d[v].token_id = t THEN d[v].balance ELSE 0]
  <1>1. \A v \in VaultIds : share[v] \in Int
    BY VaultFields DEF Dicts
  <1>2. HeldIn(d, t) = SumFunctionOnSet(share, VaultIds)
    BY DEF HeldIn, SumFunction
  <1> HIDE DEF share
  <1> QED
    BY <1>1, <1>2, SumType, RequestsAssumption

\* The terms of an order, of what it has sold, bought and paid.
Terms(o, sold, bought, fee) ==
  /\ sold <= o.amount_sell
  /\ o.amount_sell * bought >= sold * o.amount_buy
  /\ IF o.fee_info = NoFee THEN fee = 0
     ELSE fee * o.amount_buy <= o.fee_info.fee_limit * bought

\* Orders with one message have the same terms.
LEMMA TermsAreSigned ==
  ASSUME NEW o, NEW other, SignedTerms(o) = SignedTerms(other), NEW sold, NEW bought, NEW fee
  PROVE  Terms(o, sold, bought, fee) <=> Terms(other, sold, bought, fee)
PROOF
  <1>1. /\ o.amount_sell = other.amount_sell /\ o.amount_buy = other.amount_buy
        /\ o.fee_info = other.fee_info
    BY DEF SignedTerms
  <1> QED
    BY <1>1 DEF Terms

\* A fill that the program allows keeps them: prices and fee limits add up.
LEMMA FillKeepsTerms ==
  ASSUME NEW o \in Orders, NEW sold \in Nat, NEW bought \in Nat, NEW fee_info,
         IsFill(o, sold, bought, fee_info), OrderAllows(o, sold, bought, fee_info),
         order_dict[o.order_id] \in Nat,
         NEW bought_before \in Nat, NEW fee_before \in Int,
         Terms(o, order_dict[o.order_id], bought_before, fee_before)
  PROVE  Terms(o, order_dict[o.order_id] + sold, bought_before + bought,
               fee_before + (IF fee_info # NoFee THEN fee_info.fee_taken ELSE 0))
PROOF
  <1>1. /\ o.amount_sell \in Int /\ o.amount_buy \in Int
        /\ o.fee_info # NoFee => o.fee_info.fee_limit \in Int
    BY RequestsAssumption DEF OrderFields, FeeFields
  <1>2. PICK before \in Nat : before = order_dict[o.order_id]
    OBVIOUS
  <1>3. /\ before + sold <= o.amount_sell
        /\ o.amount_sell * bought >= sold * o.amount_buy
        /\ fee_info = NoFee <=> o.fee_info = NoFee
        /\ fee_info # NoFee => fee_info.fee_taken * o.amount_buy <= o.fee_info.fee_limit * bought
    <2>1. fee_info # NoFee =>
            fee_info.fee_taken * o.amount_buy \in 0 .. o.fee_info.fee_limit * bought
      BY DEF OrderAllows, order_validate_fee
    <2>2. fee_info # NoFee => /\ fee_info.fee_taken * o.amount_buy \in Int
                              /\ o.fee_info.fee_limit * bought \in Int
      BY <1>1, RequestsAssumption DEF IsFill
    <2>3. fee_info # NoFee => fee_info.fee_taken * o.amount_buy <= o.fee_info.fee_limit * bought
      BY <2>1, <2>2
    <2> QED
      BY <1>2, <2>3 DEF OrderAllows
  <1>4. \A a, x, y \in Int : a * (x + y) = a * x + a * y /\ (x + y) * a = x * a + y * a
    OBVIOUS
  <1>5. o.amount_sell * (bought_before + bought) >= (before + sold) * o.amount_buy
    <2>1. o.amount_sell * bought_before >= before * o.amount_buy
      BY <1>2 DEF Terms
    <2>2. /\ o.amount_sell * (bought_before + bought) = o.amount_sell * bought_before + o.amount_sell * bought
          /\ (before + sold) * o.amount_buy = before * o.amount_buy + sold * o.amount_buy
      BY <1>1, <1>4
    <2>3. /\ o.amount_sell * bought_before \in Int /\ o.amount_sell * bought \in Int
          /\ before * o.amount_buy \in Int /\ sold * o.amount_buy \in Int
      BY <1>1
    <2>4. \A p, q, r, u \in Int : p >= r /\ q >= u => p + q >= r + u
      OBVIOUS
    <2> QED
      BY <1>3, <2>1, <2>2, <2>3, <2>4
  <1>6. CASE fee_info = NoFee
    BY <1>2, <1>3, <1>5, <1>6 DEF Terms
  <1>7. CASE fee_info # NoFee
    <2>1. PICK limit \in Int, buy \in Int, taken \in Int :
            limit = o.fee_info.fee_limit /\ buy = o.amount_buy /\ taken = fee_info.fee_taken
      BY <1>1, <1>3, <1>7, RequestsAssumption DEF IsFill
    <2>2. fee_before * buy <= limit * bought_before
      BY <1>3, <1>7, <2>1 DEF Terms
    <2>3. taken * buy <= limit * bought
      BY <1>3, <1>7, <2>1
    <2>4. /\ (fee_before + taken) * buy = fee_before * buy + taken * buy
          /\ limit * (bought_before + bought) = limit * bought_before + limit * bought
      BY <1>4
    <2>5. /\ fee_before * buy \in Int /\ taken * buy \in Int
          /\ limit * bought_before \in Int /\ limit * bought \in Int
      OBVIOUS
    <2>6. \A p, q, r, u \in Int : p <= r /\ q <= u => p + q <= r + u
      OBVIOUS
    <2>7. (fee_before + taken) * buy <= limit * (bought_before + bought)
      BY <2>2, <2>3, <2>4, <2>5, <2>6
    <2> QED
      BY <1>2, <1>3, <1>5, <1>7, <2>1, <2>7 DEF Terms
  <1> QED
    BY <1>6, <1>7

-----------------------------------------------------------------------------
(* Every transaction keeps the invariant.                                  *)

\* A settlement keeps the types, and the hint beside the program.
LEMMA SettlementKeepsTypes ==
  ASSUME DexTypes, Agree(l1_vault_dict, l1_vaults_balances),
         NEW s \in Settlements, execute_settlement(s)
  PROVE  DexTypes' /\ Agree(l1_vault_dict, l1_vaults_balances)'
PROOF
  <1>1. Settles(s) /\ L2DictAfter(s) # Rejected
    BY DEF execute_settlement
  <1>2. /\ vault_dict' = L2DictAfter(s)
        /\ l1_vault_dict' = L1DictAfter(s) /\ l1_vaults_balances' = L1HintAfter(s)
        /\ outside' = outside /\ l1_net' = l1_net /\ requests' = requests
    BY DEF execute_settlement, contract
  <1>3. /\ vault_dict \in Dicts /\ l1_vault_dict \in PartialOn(L1Vaults, L1Moves)
        /\ l1_vaults_balances \in PartialOn(L1Vaults, HintMoves) /\ l1_net \in [L1Vaults -> Int]
    BY DEF DexTypes
  <1>4. PICK t : t \in TokenIds
    <2>1. s.order["A"] \in OrderFields
      BY <1>1, SettlementParties, RequestsAssumption DEF IsFill
    <2> QED
      BY <2>1 DEF OrderFields
  <1>5. vault_dict' \in Dicts
    BY <1>1, <1>2, <1>3, <1>4, SettlementOnL2
  <1>6. /\ l1_vault_dict' \in PartialOn(L1Vaults, L1Moves)
        /\ l1_vaults_balances' \in PartialOn(L1Vaults, HintMoves)
        /\ Agree(l1_vault_dict', l1_vaults_balances')
    BY <1>1, <1>2, <1>3, SettlementOnL1
  <1>7. order_dict' \in [OrderIds \cup MintIds -> Nat]
    <2> DEFINE Sold(id) == SumFunction([p \in {"A", "B"} |->
                             IF s.order[p].order_id = id THEN s.sold[p] ELSE 0])
    <2>1. order_dict' = [id \in DOMAIN order_dict |-> order_dict[id] + Sold(id)]
      BY DEF execute_settlement
    <2>2. \A id : Sold(id) \in Nat
      BY <1>1, SettlementFills, ZenonT(30)
    <2>3. DOMAIN order_dict = OrderIds \cup MintIds /\ \A id \in DOMAIN order_dict : order_dict[id] \in Nat
      BY DEF DexTypes
    <2> HIDE DEF Sold
    <2>4. \A id \in DOMAIN order_dict : order_dict[id] + Sold(id) \in Nat
      BY <2>2, <2>3
    <2> QED
      BY <2>1, <2>3, <2>4
  <1>8. filled' \in [OrderIds -> [bought : Nat, fee : Int]]
    <2> DEFINE Bought(id) == SumFunction([p \in {"A", "B"} |->
                               IF s.order[p].order_id = id THEN s.sold[other_party(p)] ELSE 0])
               Fee(id) == SumFunction([p \in {"A", "B"} |->
                            IF s.order[p].order_id = id /\ s.fee_info[p] # NoFee
                            THEN s.fee_info[p].fee_taken ELSE 0])
    <2>1. filled' = [id \in OrderIds |-> [bought |-> filled[id].bought + Bought(id),
                                          fee |-> filled[id].fee + Fee(id)]]
      BY DEF execute_settlement
    <2>2. \A id : Bought(id) \in Nat /\ Fee(id) \in Int
      BY <1>1, SettlementFills, ZenonT(30)
    <2>3. \A id \in OrderIds : filled[id].bought \in Nat /\ filled[id].fee \in Int
      BY DEF DexTypes
    <2> HIDE DEF Bought, Fee
    <2>4. \A id \in OrderIds : /\ filled[id].bought + Bought(id) \in Nat
                             /\ filled[id].fee + Fee(id) \in Int
      BY <2>2, <2>3
    <2> QED
      BY <2>1, <2>4
  <1>9. outside' \in [TokenIds -> Nat] /\ l1_net' \in [L1Vaults -> Int]
        /\ requests' \subseteq FullWithdrawalRequests
    BY <1>2 DEF DexTypes
  <1>10. DexTypes'
    BY <1>5, <1>6, <1>7, <1>8, <1>9 DEF DexTypes
  <1>11. Agree(l1_vault_dict, l1_vaults_balances)'
    BY <1>6
  <1> QED
    BY <1>10, <1>11

\* A settlement keeps the tokens: what the two orders move sums to nothing.
LEMMA SettlementConserves ==
  ASSUME DexTypes, Agree(l1_vault_dict, l1_vaults_balances), TokensConserved,
         NEW s \in Settlements, execute_settlement(s)
  PROVE  TokensConserved'
PROOF
  <1> SUFFICES ASSUME NEW t \in TokenIds
               PROVE  Conserved(vault_dict', l1_net', l1_vault_dict', outside', order_dict', t)
    BY ConservationOfParts
  <1>1. Settles(s) /\ L2DictAfter(s) # Rejected
    BY DEF execute_settlement
  <1>2. /\ vault_dict' = L2DictAfter(s) /\ l1_vault_dict' = L1DictAfter(s)
        /\ outside' = outside /\ l1_net' = l1_net
    BY DEF execute_settlement, contract
  <1>3. /\ vault_dict \in Dicts /\ l1_vault_dict \in PartialOn(L1Vaults, L1Moves)
        /\ l1_vaults_balances \in PartialOn(L1Vaults, HintMoves) /\ l1_net \in [L1Vaults -> Int]
        /\ outside[t] \in Int
    BY DEF DexTypes
  <1> DEFINE l2a == OnL2(s.order["A"], s.sold["A"], s.sold["B"], s.fee_info["A"], t)
             l2b == OnL2(s.order["B"], s.sold["B"], s.sold["A"], s.fee_info["B"], t)
             l1a == OnL1(s.order["A"], s.sold["A"], s.sold["B"], s.fee_info["A"], t)
             l1b == OnL1(s.order["B"], s.sold["B"], s.sold["A"], s.fee_info["B"], t)
  <1>4. HeldIn(vault_dict', t) = HeldIn(vault_dict, t) + l2a + l2b
    BY <1>1, <1>2, <1>3, SettlementOnL2
  <1>5. HeldBy(l1_net', l1_vault_dict', t) = HeldBy(l1_net, l1_vault_dict, t) + l1a + l1b
    BY <1>1, <1>2, <1>3, SettlementOnL1
  <1>6. /\ l2a \in Int /\ l2b \in Int /\ l1a \in Int /\ l1b \in Int
        /\ l2a + l2b + l1a + l1b = 0
    BY <1>1, SettlementBalances
  <1> HIDE DEF l2a, l2b, l1a, l1b
  <1>7. HeldIn(vault_dict, t) \in Int /\ HeldBy(l1_net, l1_vault_dict, t) \in Int
    BY <1>3, HeldInType, HeldByType
  <1>8. HeldIn(vault_dict', t) + HeldBy(l1_net', l1_vault_dict', t) + outside'[t]
          = HeldIn(vault_dict, t) + HeldBy(l1_net, l1_vault_dict, t) + outside[t]
    BY <1>2, <1>3, <1>4, <1>5, <1>6, <1>7
  <1>9. t \in MintableTokens => order_dict'[mint_index(t)] = order_dict[mint_index(t)]
    <2> SUFFICES ASSUME t \in MintableTokens
                 PROVE  order_dict'[mint_index(t)] = order_dict[mint_index(t)]
      OBVIOUS
    <2> DEFINE id == mint_index(t)
               Sold == SumFunction([p \in {"A", "B"} |->
                         IF s.order[p].order_id = id THEN s.sold[p] ELSE 0])
    <2>1. id \in DOMAIN order_dict /\ order_dict[id] \in Nat
      BY DEF DexTypes, MintIds
    <2>2. order_dict'[id] = order_dict[id] + Sold
      BY <2>1 DEF execute_settlement
    <2>3. s.order["A"].order_id # id /\ s.order["B"].order_id # id
      <3>1. s.order["A"] \in OrderFields /\ s.order["B"] \in OrderFields
        BY <1>1, SettlementParties, RequestsAssumption DEF IsFill
      <3>2. s.order["A"].order_id \in Nat /\ s.order["B"].order_id \in Nat
        BY <3>1, RequestsAssumption DEF OrderFields
      <3>3. t \in Nat /\ t # 0
        BY DexAssumption
      <3> QED
        BY <3>2, <3>3 DEF mint_index
    <2>4. Sold = 0
      <3> HIDE DEF id
      <3> QED
        BY <1>1, <2>3, SettlementFills
    <2> HIDE DEF id, Sold
    <2> QED
      BY <2>1, <2>2, <2>4 DEF id
  <1>10. Conserved(vault_dict, l1_net, l1_vault_dict, outside, order_dict, t)
    BY ConservationOfParts
  <1> QED
    BY <1>8, <1>9, <1>10 DEF Conserved

\* A settlement keeps the terms of every order: its own two, and the others.
LEMMA SettlementKeepsTerms ==
  ASSUME DexTypes, OrderTermsHoldOverFills, NEW s \in Settlements, execute_settlement(s)
  PROVE  OrderTermsHoldOverFills'
PROOF
  <1> SUFFICES ASSUME NEW o \in Orders
               PROVE  Terms(o, order_dict'[o.order_id], filled'[o.order_id].bought,
                            filled'[o.order_id].fee)
    BY DEF OrderTermsHoldOverFills, Terms
  <1> DEFINE id == o.order_id
             Sold == SumFunction([p \in {"A", "B"} |->
                       IF s.order[p].order_id = id THEN s.sold[p] ELSE 0])
             Bought == SumFunction([p \in {"A", "B"} |->
                         IF s.order[p].order_id = id THEN s.sold[other_party(p)] ELSE 0])
             Fee == SumFunction([p \in {"A", "B"} |->
                      IF s.order[p].order_id = id /\ s.fee_info[p] # NoFee
                      THEN s.fee_info[p].fee_taken ELSE 0])
             Paid(p) == IF s.fee_info[p] # NoFee THEN s.fee_info[p].fee_taken ELSE 0
  <1>1. Settles(s)
    BY DEF execute_settlement
  <1>2. /\ id \in OrderIds /\ order_dict[id] \in Nat
        /\ filled[id].bought \in Nat /\ filled[id].fee \in Int
        /\ id \in DOMAIN order_dict
    <2>1. id \in OrderIds
      BY RequestsAssumption DEF OrderFields
    <2> QED
      BY <2>1 DEF DexTypes
  <1>3. /\ order_dict'[id] = order_dict[id] + Sold
        /\ filled'[id].bought = filled[id].bought + Bought
        /\ filled'[id].fee = filled[id].fee + Fee
    BY <1>2 DEF execute_settlement
  <1>4. /\ s.order["A"].order_id = id =>
             Sold = s.sold["A"] /\ Bought = s.sold["B"] /\ Fee = Paid("A")
        /\ s.order["B"].order_id = id =>
             Sold = s.sold["B"] /\ Bought = s.sold["A"] /\ Fee = Paid("B")
        /\ s.order["A"].order_id # id /\ s.order["B"].order_id # id =>
             Sold = 0 /\ Bought = 0 /\ Fee = 0
    <2> HIDE DEF id
    <2> QED
      BY <1>1, SettlementFills
  <1> HIDE DEF Sold, Bought, Fee
  <1>5. Terms(o, order_dict[id], filled[id].bought, filled[id].fee)
    BY DEF OrderTermsHoldOverFills, Terms
  <1>6. CASE s.order["A"].order_id = id
    <2>1. /\ IsFill(s.order["A"], s.sold["A"], s.sold["B"], s.fee_info["A"])
          /\ OrderAllows(s.order["A"], s.sold["A"], s.sold["B"], s.fee_info["A"])
          /\ s.sold["A"] \in Nat /\ s.sold["B"] \in Nat
      BY <1>1, SettlementParties
    <2>2. SignedTerms(s.order["A"]) = SignedTerms(o) /\ s.order["A"] \in Orders
      BY <1>6, <2>1, RequestsAssumption DEF IsFill
    <2> HIDE DEF Paid
    <2>3. Terms(s.order["A"], order_dict[id], filled[id].bought, filled[id].fee)
      BY <1>5, <2>2, TermsAreSigned
    <2>4. Terms(s.order["A"], order_dict[id] + s.sold["A"], filled[id].bought + s.sold["B"],
                filled[id].fee + Paid("A"))
      <3>1. order_dict[s.order["A"].order_id] = order_dict[id]
        BY <1>6
      <3>2. /\ order_dict[s.order["A"].order_id] \in Nat
            /\ Terms(s.order["A"], order_dict[s.order["A"].order_id],
                     filled[id].bought, filled[id].fee)
        BY <1>2, <2>3, <3>1
      <3>3. Terms(s.order["A"], order_dict[s.order["A"].order_id] + s.sold["A"],
                  filled[id].bought + s.sold["B"], filled[id].fee + Paid("A"))
        <4>1. filled[id].bought \in Nat /\ filled[id].fee \in Int
          BY <1>2
        <4> HIDE DEF id
        <4> QED
          BY <2>1, <2>2, <3>2, <4>1, FillKeepsTerms, SMTT(30) DEF Paid
      <3> QED
        BY <3>1, <3>3
    <2>5. Terms(o, order_dict[id] + s.sold["A"], filled[id].bought + s.sold["B"],
                filled[id].fee + Paid("A"))
      BY <2>2, <2>4, TermsAreSigned
    <2> QED
      BY <1>3, <1>4, <1>6, <2>5
  <1>7. CASE s.order["B"].order_id = id
    <2>1. /\ IsFill(s.order["B"], s.sold["B"], s.sold["A"], s.fee_info["B"])
          /\ OrderAllows(s.order["B"], s.sold["B"], s.sold["A"], s.fee_info["B"])
          /\ s.sold["A"] \in Nat /\ s.sold["B"] \in Nat
      BY <1>1, SettlementParties
    <2>2. SignedTerms(s.order["B"]) = SignedTerms(o) /\ s.order["B"] \in Orders
      BY <1>7, <2>1, RequestsAssumption DEF IsFill
    <2> HIDE DEF Paid
    <2>3. Terms(s.order["B"], order_dict[id], filled[id].bought, filled[id].fee)
      BY <1>5, <2>2, TermsAreSigned
    <2>4. Terms(s.order["B"], order_dict[id] + s.sold["B"], filled[id].bought + s.sold["A"],
                filled[id].fee + Paid("B"))
      <3>1. order_dict[s.order["B"].order_id] = order_dict[id]
        BY <1>7
      <3>2. /\ order_dict[s.order["B"].order_id] \in Nat
            /\ Terms(s.order["B"], order_dict[s.order["B"].order_id],
                     filled[id].bought, filled[id].fee)
        BY <1>2, <2>3, <3>1
      <3>3. Terms(s.order["B"], order_dict[s.order["B"].order_id] + s.sold["B"],
                  filled[id].bought + s.sold["A"], filled[id].fee + Paid("B"))
        <4>1. filled[id].bought \in Nat /\ filled[id].fee \in Int
          BY <1>2
        <4> HIDE DEF id
        <4> QED
          BY <2>1, <2>2, <3>2, <4>1, FillKeepsTerms, SMTT(30) DEF Paid
      <3> QED
        BY <3>1, <3>3
    <2>5. Terms(o, order_dict[id] + s.sold["B"], filled[id].bought + s.sold["A"],
                filled[id].fee + Paid("B"))
      BY <2>2, <2>4, TermsAreSigned
    <2> QED
      BY <1>3, <1>4, <1>7, <2>5
  <1>8. CASE s.order["A"].order_id # id /\ s.order["B"].order_id # id
    <2>1. \A x \in Int : x + 0 = x
      OBVIOUS
    <2> QED
      BY <1>2, <1>3, <1>4, <1>5, <1>8, <2>1
  <1> QED
    BY <1>6, <1>7, <1>8

\* A settlement names the L1 vaults it takes from or gives to.
LEMMA SettlementNamesVaults ==
  ASSUME DexTypes, Agree(l1_vault_dict, l1_vaults_balances), L1VaultsNamedByOrders,
         NEW s \in Settlements, execute_settlement(s)
  PROVE  L1VaultsNamedByOrders'
PROOF
  <1>1. /\ Settles(s) /\ l1_vault_dict' = L1DictAfter(s) /\ l1_order_messages' = MessagesAfter(s)
    BY DEF execute_settlement
  <1>2. \A key \in DOMAIN L1DictAfter(s) :
          \/ key \in DOMAIN l1_vault_dict
          \/ \E p \in {"A", "B"} : s.order[p].is_l1 /\ key \in KeysOf(s.order[p])
    BY <1>1, SettlementOnL1 DEF DexTypes
  <1>3. \A p \in {"A", "B"} : s.order[p].is_l1 => s.order[p] \in MessagesAfter(s)
    BY <1>1, SettlementParties DEF MessagesAfter, Range
  <1>4. l1_order_messages \subseteq MessagesAfter(s)
    BY DEF MessagesAfter
  <1> SUFFICES ASSUME NEW key \in DOMAIN L1DictAfter(s)
               PROVE  \E o \in MessagesAfter(s), role \in {"SELL", "BUY", "FEE_SOURCE"} :
                        from_order_l1(o, role) = key
    BY <1>1 DEF L1VaultsNamedByOrders
  <1>5. CASE key \in DOMAIN l1_vault_dict
    BY <1>4, <1>5 DEF L1VaultsNamedByOrders
  <1>6. CASE \E p \in {"A", "B"} : s.order[p].is_l1 /\ key \in KeysOf(s.order[p])
    BY <1>3, <1>6 DEF KeysOf
  <1> QED
    BY <1>2, <1>5, <1>6

-----------------------------------------------------------------------------
(* Squashing a few accesses.                                               *)

\* squash_dict of one access.
LEMMA SquashOfOne ==
  ASSUME NEW d \in Dicts, NEW a, IsAccess(a) \/ a = Rejected
  PROVE  squash_dict(d, <<a>>) = SquashStep(d, a)
PROOF
  <1>1. DOMAIN <<a>> = 1 .. 1 /\ <<a>>[1] = a /\ \A i \in 1 .. 1 : i = 1
    OBVIOUS
  <1>2. PICK n \in Nat : n = 1
    OBVIOUS
  <1>3. PICK q : q = <<a>>
    OBVIOUS
  <1>4. DOMAIN q = 1 .. n /\ \A i \in 1 .. n : IsAccess(q[i]) \/ q[i] = Rejected
    BY <1>1, <1>2, <1>3
  <1>5. PICK tr : IsSquash(tr, d, q, n) /\ tr[n] = squash_dict(d, q)
    <2> HIDE <1>2, <1>3
    <2> QED
      BY <1>4, SquashHasTrace
  <1>6. tr[1] = SquashStep(tr[0], q[1]) /\ tr[0] = d
    BY <1>2, <1>5 DEF IsSquash
  <1> QED
    BY <1>1, <1>2, <1>3, <1>5, <1>6

\* squash_dict of two accesses.
LEMMA SquashOfTwo ==
  ASSUME NEW d \in Dicts, NEW a, NEW b,
         \A x \in {a, b} : IsAccess(x) \/ x = Rejected
  PROVE  squash_dict(d, <<a, b>>) = SquashStep(SquashStep(d, a), b)
PROOF
  <1>1. /\ DOMAIN <<a, b>> = 1 .. 2 /\ <<a, b>>[1] = a /\ <<a, b>>[2] = b
        /\ \A i \in 1 .. 2 : i = 1 \/ i = 2
    OBVIOUS
  <1>2. PICK n \in Nat : n = 2
    OBVIOUS
  <1>3. PICK q : q = <<a, b>>
    OBVIOUS
  <1>4. DOMAIN q = 1 .. n /\ \A i \in 1 .. n : IsAccess(q[i]) \/ q[i] = Rejected
    BY <1>1, <1>2, <1>3
  <1>5. PICK tr : IsSquash(tr, d, q, n) /\ tr[n] = squash_dict(d, q)
    <2> HIDE <1>2, <1>3
    <2> QED
      BY <1>4, SquashHasTrace
  <1>6. /\ tr[0] = d /\ tr[1] = SquashStep(tr[0], q[1]) /\ tr[2] = SquashStep(tr[1], q[2])
    <2>1. 1 \in 1 .. n /\ 2 \in 1 .. n /\ 1 - 1 = 0 /\ 2 - 1 = 1
      BY <1>2
    <2> QED
      BY <1>5, <2>1 DEF IsSquash
  <1> QED
    BY <1>1, <1>2, <1>3, <1>5, <1>6

\* squash_dict of four accesses.
LEMMA SquashOfFour ==
  ASSUME NEW d \in Dicts, NEW a1, NEW a2, NEW a3, NEW a4,
         \A x \in {a1, a2, a3, a4} : IsAccess(x) \/ x = Rejected
  PROVE  squash_dict(d, <<a1, a2, a3, a4>>)
           = SquashStep(SquashStep(SquashStep(SquashStep(d, a1), a2), a3), a4)
PROOF
  <1>1. PICK q : q = <<a1, a2, a3, a4>>
    OBVIOUS
  <1>2. /\ DOMAIN q = 1 .. 4 /\ q[1] = a1 /\ q[2] = a2 /\ q[3] = a3 /\ q[4] = a4
        /\ \A i \in 1 .. 4 : i = 1 \/ i = 2 \/ i = 3 \/ i = 4
    BY <1>1
  <1>3. PICK n \in Nat : n = 4
    OBVIOUS
  <1>4. DOMAIN q = 1 .. n /\ \A i \in 1 .. n : IsAccess(q[i]) \/ q[i] = Rejected
    BY <1>2, <1>3
  <1>5. PICK tr : IsSquash(tr, d, q, n) /\ tr[n] = squash_dict(d, q)
    <2> HIDE <1>1, <1>3
    <2> QED
      BY <1>4, SquashHasTrace
  <1>6. /\ tr[0] = d /\ tr[1] = SquashStep(tr[0], q[1]) /\ tr[2] = SquashStep(tr[1], q[2])
        /\ tr[3] = SquashStep(tr[2], q[3]) /\ tr[4] = SquashStep(tr[3], q[4])
    <2>1. /\ 1 \in 1 .. n /\ 2 \in 1 .. n /\ 3 \in 1 .. n /\ 4 \in 1 .. n
          /\ 1 - 1 = 0 /\ 2 - 1 = 1 /\ 3 - 1 = 2 /\ 4 - 1 = 3
      BY <1>3
    <2> HIDE <1>1, <1>2, <1>3
    <2> QED
      BY <1>5, <2>1 DEF IsSquash
  <1> QED
    BY <1>1, <1>2, <1>3, <1>5, <1>6

\* The same, of the changes that the accesses make.
LEMMA AccessOfChange ==
  ASSUME NEW c, IsL2Change(c), NEW b
  PROVE  IsAccess(l2_vault_update_diff(c, b)) \/ l2_vault_update_diff(c, b) = Rejected
BY AccessType

\* What two accesses add to the tree.
LEMMA TwoChangesGain ==
  ASSUME NEW d \in Dicts, NEW c1, NEW c2, IsL2Change(c1), IsL2Change(c2),
         NEW b1, NEW b2, NEW t \in TokenIds, NEW after,
         after = squash_dict(d, <<l2_vault_update_diff(c1, b1), l2_vault_update_diff(c2, b2)>>),
         after # Rejected
  PROVE  after \in Dicts /\ HeldIn(after, t) = HeldIn(d, t) + Gain(c1, t) + Gain(c2, t)
PROOF
  <1> DEFINE d1 == SquashStep(d, l2_vault_update_diff(c1, b1))
             d2 == SquashStep(d1, l2_vault_update_diff(c2, b2))
  <1>1. after = d2
    BY AccessOfChange, SquashOfTwo
  <1>2. d1 # Rejected
    BY <1>1 DEF SquashStep
  <1>3. d1 \in Dicts /\ HeldIn(d1, t) = HeldIn(d, t) + Gain(c1, t)
    BY <1>2, AccessGains
  <1> HIDE DEF d1
  <1>4. d2 \in Dicts /\ HeldIn(d2, t) = HeldIn(d1, t) + Gain(c2, t)
    BY <1>1, <1>3, AccessGains
  <1> HIDE DEF d2
  <1> QED
    BY <1>1, <1>3, <1>4

\* What four accesses add to the tree.
LEMMA FourChangesGain ==
  ASSUME NEW d \in Dicts, NEW c1, NEW c2, NEW c3, NEW c4,
         IsL2Change(c1), IsL2Change(c2), IsL2Change(c3), IsL2Change(c4),
         NEW b1, NEW b2, NEW b3, NEW b4, NEW t \in TokenIds, NEW after,
         after = squash_dict(d, <<l2_vault_update_diff(c1, b1), l2_vault_update_diff(c2, b2),
                                  l2_vault_update_diff(c3, b3), l2_vault_update_diff(c4, b4)>>),
         after # Rejected
  PROVE  /\ after \in Dicts
         /\ HeldIn(after, t) = HeldIn(d, t) + Gain(c1, t) + Gain(c2, t) + Gain(c3, t) + Gain(c4, t)
PROOF
  <1> DEFINE d1 == SquashStep(d, l2_vault_update_diff(c1, b1))
             d2 == SquashStep(d1, l2_vault_update_diff(c2, b2))
             d3 == SquashStep(d2, l2_vault_update_diff(c3, b3))
             d4 == SquashStep(d3, l2_vault_update_diff(c4, b4))
  <1>1. after = d4
    <2> DEFINE a1 == l2_vault_update_diff(c1, b1)
               a2 == l2_vault_update_diff(c2, b2)
               a3 == l2_vault_update_diff(c3, b3)
               a4 == l2_vault_update_diff(c4, b4)
    <2>1. \A x \in {a1, a2, a3, a4} : IsAccess(x) \/ x = Rejected
      BY AccessOfChange
    <2> HIDE DEF a1, a2, a3, a4
    <2>2. squash_dict(d, <<a1, a2, a3, a4>>)
            = SquashStep(SquashStep(SquashStep(SquashStep(d, a1), a2), a3), a4)
      BY <2>1, SquashOfFour
    <2> QED
      BY <2>2, Zenon DEF a1, a2, a3, a4
  <1>2. d1 # Rejected /\ d2 # Rejected /\ d3 # Rejected
    <2>1. \A e, a : SquashStep(e, a) # Rejected => e # Rejected
      BY DEF SquashStep
    <2> QED
      BY <1>1, <2>1, Zenon
  <1>3. d1 \in Dicts /\ HeldIn(d1, t) = HeldIn(d, t) + Gain(c1, t)
    BY <1>2, AccessGains
  <1> HIDE DEF d1
  <1>4. d2 \in Dicts /\ HeldIn(d2, t) = HeldIn(d1, t) + Gain(c2, t)
    BY <1>2, <1>3, AccessGains
  <1> HIDE DEF d2
  <1>5. d3 \in Dicts /\ HeldIn(d3, t) = HeldIn(d2, t) + Gain(c3, t)
    BY <1>2, <1>4, AccessGains
  <1> HIDE DEF d3
  <1>6. d4 \in Dicts /\ HeldIn(d4, t) = HeldIn(d3, t) + Gain(c4, t)
    BY <1>1, <1>5, AccessGains
  <1> HIDE DEF d4
  <1> QED
    BY <1>1, <1>3, <1>4, <1>5, <1>6

-----------------------------------------------------------------------------
(* Transfers.                                                              *)

\* Two pairs that cancel.
LEMMA FourCancel ==
  ASSUME NEW h \in Int, NEW a \in Int, NEW b \in Int, NEW c \in Int, NEW d \in Int,
         a + b = 0, c + d = 0
  PROVE  h + a + b + c + d = h
PROOF
  <1>1. b = -a /\ d = -c
    OBVIOUS
  <1> QED
    BY <1>1

\* A transfer moves its token from one vault to another, and so does its fee.
LEMMA TransferMovesOnly ==
  ASSUME vault_dict \in Dicts, NEW x \in Transfers, NEW fee_info \in FeeInfos \cup {NoFee},
         fee_info = NoFee <=> x.fee_info = NoFee,
         NEW balance, NEW after,
         after = squash_dict(vault_dict, Accesses(TransferChanges(x, fee_info), balance)),
         after # Rejected, NEW t \in TokenIds
  PROVE  after \in Dicts /\ HeldIn(after, t) = HeldIn(vault_dict, t)
PROOF
  <1> DEFINE sender == Change("SENDER", FALSE, x.public_key, x.token_id, x.sender_vault_id, -x.amount)
             receiver == Change("RECEIVER", FALSE, x.receiver_public_key, x.token_id,
                                x.receiver_vault_id, x.amount)
             source == Change("FEE_SOURCE", FALSE, x.public_key, x.fee_info.token_id,
                              x.fee_info.source_vault_id, -fee_info.fee_taken)
             destination == Change("FEE_DESTINATION", FALSE, fee_info.destination_stark_key,
                                   x.fee_info.token_id, fee_info.destination_vault_id,
                                   fee_info.fee_taken)
             Access(c) == l2_vault_update_diff(c, balance[c.role])
  <1>1. x \in TransferFields
    BY RequestsAssumption
  <1>2. IsL2Change(sender) /\ IsL2Change(receiver) /\ ~ sender.is_l1 /\ ~ receiver.is_l1
    BY <1>1 DEF TransferFields, IsL2Change, Change
  <1>3. ASSUME fee_info # NoFee
        PROVE  IsL2Change(source) /\ IsL2Change(destination) /\ ~ source.is_l1 /\ ~ destination.is_l1
    <2>1. /\ fee_info \in FeeInfos /\ x.fee_info \in FeeFields
          /\ x.fee_info.source_vault_id \in VaultIds
      BY <1>1, <1>3, RequestsAssumption DEF TransferFields
    <2>2. /\ fee_info.fee_taken \in Int /\ fee_info.destination_vault_id \in VaultIds
          /\ fee_info.destination_stark_key \in StarkKeys
      BY <2>1, RequestsAssumption
    <2>3. x.public_key \in StarkKeys /\ x.fee_info.token_id \in TokenIds
      BY <1>1, <2>1 DEF TransferFields, FeeFields
    <2> QED
      BY <2>1, <2>2, <2>3 DEF IsL2Change, Change
  <1>4. /\ Gain(sender, t) \in Int /\ Gain(receiver, t) \in Int
        /\ Gain(sender, t) + Gain(receiver, t) = 0
    BY <1>1 DEF Gain, Change, TransferFields
  <1>5. ASSUME fee_info # NoFee
        PROVE  /\ Gain(source, t) \in Int /\ Gain(destination, t) \in Int
               /\ Gain(source, t) + Gain(destination, t) = 0
    <2>1. fee_info.fee_taken \in Int
      BY <1>5, RequestsAssumption
    <2> QED
      BY <2>1 DEF Gain, Change
  <1>6. TransferChanges(x, fee_info) = IF fee_info = NoFee THEN <<sender, receiver>>
                                       ELSE <<sender, receiver, source, destination>>
    <2>1. TransferChanges(x, fee_info) =
            <<sender, receiver>> \o (IF fee_info = NoFee THEN <<>> ELSE <<source, destination>>)
      BY DEF TransferChanges, update_fee_vaults
    <2> HIDE DEF sender, receiver, source, destination
    <2>2. <<sender, receiver>> \o <<>> = <<sender, receiver>>
      OBVIOUS
    <2>3. <<sender, receiver>> \o <<source, destination>> = <<sender, receiver, source, destination>>
      BY TwoWithTwo
    <2> QED
      BY <2>1, <2>2, <2>3
  <1> HIDE DEF sender, receiver, source, destination
  <1>7. HeldIn(vault_dict, t) \in Int
    BY HeldInType
  <1>8. \A accesses, c : ~ c.is_l1 => AccessesStep(accesses, c, balance) = Append(accesses, Access(c))
    BY DEF AccessesStep
  <1>9. CASE fee_info = NoFee
    <2>1. Accesses(<<sender, receiver>>, balance)
            = AccessesStep(AccessesStep(<<>>, sender, balance), receiver, balance)
      BY AccessesOfTwo
    <2> HIDE DEF Access
    <2>2. AccessesStep(<<>>, sender, balance) = <<Access(sender)>>
      BY <1>2, <1>8, AppendToNone, Zenon
    <2>3. AccessesStep(<<Access(sender)>>, receiver, balance) = <<Access(sender), Access(receiver)>>
      BY <1>2, <1>8, AppendToOne, Zenon
    <2>4. after = squash_dict(vault_dict, <<Access(sender), Access(receiver)>>)
      BY <1>6, <1>9, <2>1, <2>2, <2>3, Zenon
    <2>5. after \in Dicts
          /\ HeldIn(after, t) = HeldIn(vault_dict, t) + Gain(sender, t) + Gain(receiver, t)
      BY <1>2, <2>4, TwoChangesGain DEF Access
    <2> QED
      BY <1>4, <1>7, <2>5
  <1>10. CASE fee_info # NoFee
    <2>1. Accesses(<<sender, receiver, source, destination>>, balance)
            = AccessesStep(AccessesStep(AccessesStep(AccessesStep(<<>>, sender, balance),
                             receiver, balance), source, balance), destination, balance)
      BY AccessesOfFour
    <2>2. ~ source.is_l1 /\ ~ destination.is_l1
      BY <1>3, <1>10
    <2> HIDE DEF Access
    <2>3. AccessesStep(<<>>, sender, balance) = <<Access(sender)>>
      BY <1>2, <1>8, AppendToNone, Zenon
    <2>4. AccessesStep(<<Access(sender)>>, receiver, balance) = <<Access(sender), Access(receiver)>>
      BY <1>2, <1>8, AppendToOne, Zenon
    <2>5. AccessesStep(<<Access(sender), Access(receiver)>>, source, balance)
            = <<Access(sender), Access(receiver), Access(source)>>
      BY <1>8, <2>2, AppendToTwo, Zenon
    <2>6. AccessesStep(<<Access(sender), Access(receiver), Access(source)>>, destination, balance)
            = <<Access(sender), Access(receiver), Access(source), Access(destination)>>
      BY <1>8, <2>2, AppendToThree, Zenon
    <2>7. Accesses(<<sender, receiver, source, destination>>, balance)
            = <<Access(sender), Access(receiver), Access(source), Access(destination)>>
      BY <2>1, <2>3, <2>4, <2>5, <2>6, Zenon
    <2>8. after = squash_dict(vault_dict, <<Access(sender), Access(receiver), Access(source),
                                            Access(destination)>>)
      BY <1>6, <1>10, <2>7, Zenon
    <2>9. /\ after \in Dicts
          /\ HeldIn(after, t) = HeldIn(vault_dict, t) + Gain(sender, t) + Gain(receiver, t)
                                  + Gain(source, t) + Gain(destination, t)
      BY <1>2, <1>3, <1>10, <2>8, FourChangesGain DEF Access
    <2>11. /\ Gain(source, t) \in Int /\ Gain(destination, t) \in Int
           /\ Gain(source, t) + Gain(destination, t) = 0
      BY <1>5, <1>10
    <2>12. HeldIn(vault_dict, t) + Gain(sender, t) + Gain(receiver, t)
             + Gain(source, t) + Gain(destination, t) = HeldIn(vault_dict, t)
      <3> HIDE DEF Gain
      <3> QED
        BY <1>4, <1>7, <2>11, FourCancel
    <2> QED
      BY <2>9, <2>12, Zenon
  <1> QED
    BY <1>9, <1>10

\* Transactions other than settlements leave the L1 vaults as they are; those of
\* an order id that is no order's leave the terms of the orders.
LEMMA TermsOfOthers ==
  ASSUME OrderTermsHoldOverFills, filled' = filled,
         \A o \in Orders : order_dict'[o.order_id] = order_dict[o.order_id]
  PROVE  OrderTermsHoldOverFills'
BY DEF OrderTermsHoldOverFills

\* A transfer keeps the invariant.
LEMMA TransferKeeps ==
  ASSUME DexInv, NEW x \in Transfers, NEW fee_info \in FeeInfos \cup {NoFee},
         execute_transfer(x, fee_info)
  PROVE  DexInv'
PROOF
  <1>1. DexTypes
    BY DEF DexInv
  <1> DEFINE run == Batcher(TransferChanges(x, fee_info))
             balance == [SENDER |-> run.vault_diffs[1].balance,
                         RECEIVER |-> run.vault_diffs[2].balance]
             fee_balance == [FEE_SOURCE |-> run.vault_diffs[3].balance,
                             FEE_DESTINATION |-> run.vault_diffs[4].balance]
             guessed == IF fee_info = NoFee THEN balance ELSE Together(fee_balance, balance)
             after == squash_dict(vault_dict, Accesses(TransferChanges(x, fee_info), guessed))
  <1>2. /\ fee_info = NoFee <=> x.fee_info = NoFee
        /\ after # Rejected /\ vault_dict' = after
        /\ order_dict' = [order_dict EXCEPT ![x.order_id] = x.amount]
        /\ UNCHANGED <<batch, contract, filled>>
    BY DEF execute_transfer
  <1> HIDE DEF guessed
  <1>3. \A t \in TokenIds :
          vault_dict' \in Dicts /\ HeldIn(vault_dict', t) = HeldIn(vault_dict, t)
    BY <1>1, <1>2, TransferMovesOnly DEF DexTypes
  <1> HIDE DEF after
  <1>4. /\ x.token_id \in TokenIds /\ x.order_id \in OrderIds /\ x.amount \in Nat
        /\ \A o \in Orders : o.order_id # x.order_id
    BY RequestsAssumption DEF TransferFields
  <1>5. order_dict' \in [OrderIds \cup MintIds -> Nat]
    BY <1>1, <1>2, <1>4 DEF DexTypes
  <1>6. DexTypes' /\ Agree(l1_vault_dict, l1_vaults_balances)'
    BY <1>1, <1>2, <1>3, <1>4, <1>5 DEF DexTypes, DexInv, batch, contract
  <1>7. OrderTermsHoldOverFills'
    BY <1>1, <1>2, <1>4, TermsOfOthers DEF DexInv, DexTypes
  <1>8. L1VaultsNamedByOrders'
    BY <1>2 DEF DexInv, L1VaultsNamedByOrders, batch
  <1>9. TokensConserved'
    <2> SUFFICES ASSUME NEW t \in TokenIds
                 PROVE  Conserved(vault_dict', l1_net', l1_vault_dict', outside', order_dict', t)
      BY ConservationOfParts
    <2>1. Conserved(vault_dict, l1_net, l1_vault_dict, outside, order_dict, t)
      BY ConservationOfParts DEF DexInv
    <2>2. t \in MintableTokens => mint_index(t) # x.order_id
      BY <1>4, DexAssumption, RequestsAssumption DEF mint_index
    <2>3. t \in MintableTokens => order_dict'[mint_index(t)] = order_dict[mint_index(t)]
      BY <1>1, <1>2, <2>2 DEF DexTypes
    <2>4. /\ l1_net' = l1_net /\ l1_vault_dict' = l1_vault_dict /\ outside' = outside
          /\ HeldIn(vault_dict', t) = HeldIn(vault_dict, t)
      BY <1>2, <1>3 DEF batch, contract
    <2> QED
      BY <2>1, <2>3, <2>4 DEF Conserved
  <1> QED
    BY <1>6, <1>7, <1>8, <1>9 DEF DexInv

-----------------------------------------------------------------------------
(* Modifications, full withdrawals and mints.                              *)

\* An access to one vault, between two balances of the same owner and token.
LEMMA OneAccessGains ==
  ASSUME NEW d \in Dicts, NEW v \in VaultIds, NEW k \in StarkKeys, NEW token \in TokenIds,
         NEW before \in Int, NEW new \in Int, InRange(new), NEW after,
         after = squash_dict(d, <<l2_vault_update_balances(v, k, token, before, new)>>),
         after # Rejected, NEW t \in TokenIds
  PROVE  /\ after \in Dicts /\ after[v] = get_vault_state(k, token, new)
         /\ HeldIn(after, t) = HeldIn(d, t) + (IF token = t THEN new - before ELSE 0)
PROOF
  <1> DEFINE c == Change("", FALSE, k, token, v, new - before)
  <1>1. IsL2Change(c) /\ c.diff = new - before /\ Gain(c, t) = IF token = t THEN new - before ELSE 0
    BY DEF IsL2Change, Change, Gain
  <1>2. PICK a : a = l2_vault_update_balances(v, k, token, before, new)
    OBVIOUS
  <1>3. a = l2_vault_update_diff(c, before)
    <2>1. before + (new - before) = new
      OBVIOUS
    <2> QED
      BY <1>2, <2>1 DEF c, Change, l2_vault_update_diff
  <1> HIDE DEF c
  <1>4. IsAccess(a) \/ a = Rejected
    BY <1>1, <1>3, AccessOfChange
  <1>5. after = SquashStep(d, a)
    BY <1>2, <1>4, SquashOfOne
  <1>6. after \in Dicts /\ HeldIn(after, t) = HeldIn(d, t) + Gain(c, t)
    BY <1>1, <1>3, <1>5, AccessGains
  <1>7. after[v] = get_vault_state(k, token, new)
    <2>1. after = [d EXCEPT ![a.key] = a.new_value]
      BY <1>5 DEF SquashStep
    <2>2. a.key = v /\ a.new_value = get_vault_state(k, token, new)
      BY <1>2 DEF l2_vault_update_balances
    <2> QED
      BY <2>1, <2>2 DEF Dicts
  <1> QED
    BY <1>1, <1>6, <1>7

\* What comes in or goes out of a vault goes out of or comes in to the contract.
LEMMA ModificationKeeps ==
  ASSUME DexInv, NEW v \in VaultIds, NEW k \in StarkKeys, NEW token \in TokenIds,
         NEW new \in 0 .. BALANCE_BOUND - 1, NEW full,
         execute_modification(v, k, token, new, full)
  PROVE  DexInv' /\ vault_dict'[v] = get_vault_state(k, token, new)
PROOF
  <1> DEFINE before == vault_dict[v].balance
             m == Modification(k, token, v, new - before, full)
             after == squash_dict(vault_dict, <<l2_vault_update_balances(v, k, token, before, new)>>)
  <1>1. DexTypes
    BY DEF DexInv
  <1>2. /\ after # Rejected /\ vault_dict' = after /\ Output(m)
        /\ UNCHANGED <<order_dict, batch, l1_net, filled>>
    BY DEF execute_modification, CanModify, VaultsModified
  <1>3. before \in Int /\ new \in Int /\ InRange(new)
    BY <1>1, DexAssumption, VaultFields DEF DexTypes, Dicts, InRange
  <1>4. /\ outside' = [outside EXCEPT ![token] = @ - (new - before)]
        /\ requests' \subseteq requests
    <2>1. m.token_id = token /\ m.diff = new - before /\ token # 0
      BY DexAssumption DEF Modification
    <2> QED
      BY <1>2, <2>1 DEF Output
  <1>5. \A t \in TokenIds :
          /\ vault_dict' \in Dicts /\ vault_dict'[v] = get_vault_state(k, token, new)
          /\ HeldIn(vault_dict', t) = HeldIn(vault_dict, t) + (IF token = t THEN new - before ELSE 0)
    <2> HIDE DEF before
    <2> QED
      BY <1>1, <1>2, <1>3, OneAccessGains DEF DexTypes
  <1> HIDE DEF before, m, after
  <1>6. outside' \in [TokenIds -> Nat]
    <2>1. new - before <= outside[token]
      BY DEF execute_modification, CanModify, before
    <2> QED
      BY <1>1, <1>3, <1>4, <2>1 DEF DexTypes
  <1>7. DexTypes' /\ Agree(l1_vault_dict, l1_vaults_balances)'
    BY <1>1, <1>2, <1>4, <1>5, <1>6 DEF DexTypes, DexInv, batch
  <1>8. OrderTermsHoldOverFills'
    BY <1>2, TermsOfOthers DEF DexInv
  <1>9. L1VaultsNamedByOrders'
    BY <1>2 DEF DexInv, L1VaultsNamedByOrders, batch
  <1>10. TokensConserved'
    <2> SUFFICES ASSUME NEW t \in TokenIds
                 PROVE  Conserved(vault_dict', l1_net', l1_vault_dict', outside', order_dict', t)
      BY ConservationOfParts
    <2>1. Conserved(vault_dict, l1_net, l1_vault_dict, outside, order_dict, t)
      BY ConservationOfParts DEF DexInv
    <2>2. l1_net' = l1_net /\ l1_vault_dict' = l1_vault_dict /\ order_dict' = order_dict
      BY <1>2 DEF batch
    <2>3. HeldIn(vault_dict, t) \in Int /\ HeldBy(l1_net, l1_vault_dict, t) \in Int /\ outside[t] \in Int
      BY <1>1, HeldInType, HeldByType DEF DexTypes
    <2>4. outside'[t] = outside[t] - (IF token = t THEN new - before ELSE 0)
      BY <1>1, <1>3, <1>4, <2>3 DEF DexTypes
    <2>5. HeldIn(vault_dict', t) + HeldBy(l1_net, l1_vault_dict, t) + outside'[t]
            = HeldIn(vault_dict, t) + HeldBy(l1_net, l1_vault_dict, t) + outside[t]
      BY <1>3, <1>5, <2>3, <2>4
    <2> QED
      BY <2>1, <2>2, <2>5 DEF Conserved
  <1> QED
    BY <1>5, <1>7, <1>8, <1>9, <1>10 DEF DexInv

\* The answer to the request of another leaves the vaults as they are.
LEMMA FalseWithdrawalKeeps ==
  ASSUME DexInv, NEW request \in requests, execute_false_full_withdrawal(request)
  PROVE  DexInv' /\ vault_dict' = vault_dict
PROOF
  <1> DEFINE v == request[2]
             vault == vault_dict[v]
             a == l2_vault_update_balances(v, vault.stark_key, vault.token_id,
                                           vault.balance, vault.balance)
  <1>1. DexTypes
    BY DEF DexInv
  <1>2. v \in VaultIds /\ vault \in Vault /\ vault_dict \in Dicts
    BY <1>1, RequestsAssumption DEF DexTypes, Dicts
  <1>3. /\ squash_dict(vault_dict, <<a>>) # Rejected /\ vault_dict' = squash_dict(vault_dict, <<a>>)
        /\ Output(Modification(request[1], 0, v, 0, TRUE))
        /\ UNCHANGED <<order_dict, batch, l1_net, filled>>
    BY DEF execute_false_full_withdrawal, CanAnswerFalse, VaultsShown
  <1>4. a.key = v /\ a.prev_value = a.new_value /\ a.new_value \in Vault
    BY <1>2, DexAssumption, VaultStateOfFields DEF l2_vault_update_balances
  <1> HIDE DEF a
  <1>5. squash_dict(vault_dict, <<a>>) = SquashStep(vault_dict, a)
    <2>1. IsAccess(a)
      BY <1>2, <1>4 DEF IsAccess
    <2> QED
      BY <1>2, <2>1, SquashOfOne
  <1>6. vault_dict' = vault_dict
    <2>1. a.prev_value = vault_dict[v] /\ vault_dict' = [vault_dict EXCEPT ![v] = a.new_value]
      BY <1>3, <1>4, <1>5 DEF SquashStep
    <2> QED
      BY <1>2, <1>4, <2>1 DEF Dicts
  <1>7. outside' = outside /\ requests' \subseteq requests
    BY <1>3 DEF Output, Modification
  <1>8. DexTypes' /\ Agree(l1_vault_dict, l1_vaults_balances)'
    BY <1>1, <1>3, <1>6, <1>7 DEF DexTypes, DexInv, batch
  <1>9. OrderTermsHoldOverFills'
    BY <1>3, TermsOfOthers DEF DexInv
  <1>10. L1VaultsNamedByOrders'
    BY <1>3 DEF DexInv, L1VaultsNamedByOrders, batch
  <1>11. TokensConserved'
    BY <1>3, <1>6, <1>7 DEF DexInv, TokensConserved, HeldOnL2, HeldOnL1, Minted, batch
  <1> QED
    BY <1>6, <1>8, <1>9, <1>10, <1>11 DEF DexInv

\* A request moves nothing.
LEMMA RequestKeeps ==
  ASSUME DexInv, NEW request \in FullWithdrawalRequests, RequestFullWithdrawal(request)
  PROVE  DexInv'
PROOF
  <1>1. /\ requests' = requests \cup {request}
        /\ UNCHANGED <<vault_dict, order_dict, batch, outside, l1_net, filled>>
    BY DEF RequestFullWithdrawal
  <1>2. DexTypes' /\ Agree(l1_vault_dict, l1_vaults_balances)'
    BY <1>1 DEF DexInv, DexTypes, batch
  <1>3. OrderTermsHoldOverFills'
    BY <1>1, TermsOfOthers DEF DexInv
  <1>4. L1VaultsNamedByOrders' /\ TokensConserved'
    BY <1>1 DEF DexInv, L1VaultsNamedByOrders, TokensConserved, HeldOnL2, HeldOnL1, Minted, batch
  <1> QED
    BY <1>2, <1>3, <1>4 DEF DexInv

\* A mint is remembered: what it adds is what there is to have been minted.
LEMMA MintKeeps ==
  ASSUME DexInv, NEW v \in VaultIds, NEW k \in StarkKeys, NEW token \in TokenIds,
         execute_offchain_minting(token, k, v)
  PROVE  DexInv'
PROOF
  <1> DEFINE before == vault_dict[v].balance
             c == Change("MINT", FALSE, k, token, v, 1)
             a == l2_vault_update_diff(c, before)
  <1>1. DexTypes
    BY DEF DexInv
  <1>2. /\ squash_dict(vault_dict, <<a>>) # Rejected /\ vault_dict' = squash_dict(vault_dict, <<a>>)
        /\ token \in MintableTokens /\ order_dict[mint_index(token)] = 0
        /\ order_dict' = [order_dict EXCEPT ![mint_index(token)] = 1]
        /\ UNCHANGED <<batch, contract, filled>>
    BY DEF execute_offchain_minting, CanMint
  <1>3. IsL2Change(c) /\ \A t : Gain(c, t) = IF token = t THEN 1 ELSE 0
    BY DEF IsL2Change, Change, Gain
  <1> HIDE DEF c, before
  <1>4. vault_dict' = SquashStep(vault_dict, a) /\ vault_dict' # Rejected
    BY <1>1, <1>2, <1>3, AccessOfChange, SquashOfOne DEF DexTypes
  <1>5. \A t \in TokenIds :
          /\ vault_dict' \in Dicts
          /\ HeldIn(vault_dict', t) = HeldIn(vault_dict, t) + (IF token = t THEN 1 ELSE 0)
    BY <1>1, <1>3, <1>4, AccessGains DEF DexTypes
  <1> HIDE DEF a
  <1>6. /\ mint_index(token) \in MintIds
        /\ \A t \in MintableTokens : mint_index(t) = mint_index(token) => t = token
        /\ \A o \in Orders : o.order_id # mint_index(token)
        /\ \A t \in MintableTokens : mint_index(t) \in DOMAIN order_dict
    <2>1. \A t \in MintableTokens \cup {token} : t \in Nat /\ t # 0
      BY DexAssumption, RequestsAssumption
    <2>2. \A o \in Orders : o.order_id \in Nat
      BY RequestsAssumption DEF OrderFields
    <2>3. /\ mint_index(token) = -token
          /\ \A t \in MintableTokens : mint_index(t) = -t
      BY DEF mint_index
    <2>4. \A t \in MintableTokens : mint_index(t) = mint_index(token) => t = token
      BY <2>1, <2>3
    <2>5. \A o \in Orders : o.order_id # mint_index(token)
      BY <2>1, <2>2, <2>3
    <2>6. \A t \in MintableTokens : mint_index(t) \in MintIds
      BY DEF MintIds
    <2>7. DOMAIN order_dict = OrderIds \cup MintIds
      BY <1>1 DEF DexTypes
    <2> QED
      BY <1>2, <2>4, <2>5, <2>6, <2>7
  <1>7. order_dict' \in [OrderIds \cup MintIds -> Nat]
    BY <1>1, <1>2 DEF DexTypes
  <1>8. DexTypes' /\ Agree(l1_vault_dict, l1_vaults_balances)'
    BY <1>1, <1>2, <1>5, <1>7 DEF DexTypes, DexInv, batch, contract
  <1>9. OrderTermsHoldOverFills'
    <2>1. \A o \in Orders : order_dict'[o.order_id] = order_dict[o.order_id]
      <3>1. \A o \in Orders : o.order_id \in OrderIds
        BY RequestsAssumption DEF OrderFields
      <3> QED
        BY <1>1, <1>2, <1>6, <3>1 DEF DexTypes
    <2> QED
      BY <1>2, <2>1, TermsOfOthers DEF DexInv
  <1>10. L1VaultsNamedByOrders'
    BY <1>2 DEF DexInv, L1VaultsNamedByOrders, batch
  <1>11. TokensConserved'
    <2> SUFFICES ASSUME NEW t \in TokenIds
                 PROVE  Conserved(vault_dict', l1_net', l1_vault_dict', outside', order_dict', t)
      BY ConservationOfParts
    <2>1. Conserved(vault_dict, l1_net, l1_vault_dict, outside, order_dict, t)
      BY ConservationOfParts DEF DexInv
    <2>2. l1_net' = l1_net /\ l1_vault_dict' = l1_vault_dict /\ outside' = outside
      BY <1>2 DEF batch, contract
    <2>3. /\ HeldIn(vault_dict, t) \in Int /\ HeldBy(l1_net, l1_vault_dict, t) \in Int
          /\ outside[t] \in Int /\ Supply[t] \in Int
      BY <1>1, HeldInType, HeldByType, DexAssumption DEF DexTypes
    <2>4. CASE t = token
      <3>1. order_dict'[mint_index(t)] = 1 /\ order_dict[mint_index(t)] = 0
        BY <1>1, <1>2, <1>6, <2>4 DEF DexTypes
      <3>2. HeldIn(vault_dict', t) = HeldIn(vault_dict, t) + 1
        BY <1>5, <2>4
      <3> QED
        BY <1>2, <2>1, <2>2, <2>3, <2>4, <3>1, <3>2 DEF Conserved
    <2>5. CASE t # token
      <3>1. t \in MintableTokens => order_dict'[mint_index(t)] = order_dict[mint_index(t)]
        BY <1>1, <1>2, <1>6, <2>5 DEF DexTypes
      <3>2. HeldIn(vault_dict', t) = HeldIn(vault_dict, t)
        BY <1>5, <2>3, <2>5
      <3> QED
        BY <2>1, <2>2, <3>1, <3>2 DEF Conserved
    <2> QED
      BY <2>4, <2>5
  <1> QED
    BY <1>8, <1>9, <1>10, <1>11 DEF DexInv

-----------------------------------------------------------------------------
(* The end of a batch.                                                     *)

\* The contract reads out of an action what the vault moved by.
LEMMA ActionTellsDifference ==
  ASSUME DexTypes, L1OutputMade, NEW key \in DOMAIN l1_vault_dict
  PROVE  DiffOf(L1Action(key)) = l1_vault_dict[key].moved
PROOF
  <1> DEFINE minimal == -l1_vaults_balances[key].min_balance
             moved == l1_vault_dict[key].moved
             high == key.vault_index * BALANCE_SHIFT + minimal
  <1>1. moved \in Int /\ l1_vaults_balances[key].min_balance \in Int
    <2>1. l1_vault_dict[key] \in L1Moves
      BY PartialType DEF DexTypes
    <2>2. l1_vaults_balances[key] \in HintMoves
      BY PartialType DEF DexTypes, L1OutputMade
    <2> QED
      BY <2>1, <2>2 DEF L1Moves, HintMoves
  <1>2. /\ InRange(minimal) /\ InRange(moved - l1_vaults_balances[key].min_balance)
        /\ key.vault_index \in 0 .. L1_VAULT_INDEX_BOUND - 1
    BY DEF L1OutputMade
  <1>3. BALANCE_BOUND \in Nat \ {0} /\ BALANCE_SHIFT \in Nat \ {0} /\ BALANCE_SHIFT = 2 * BALANCE_BOUND
    BY DexAssumption DEF BALANCE_SHIFT
  <1>4. minimal \in 0 .. BALANCE_BOUND - 1 /\ minimal + moved \in 0 .. BALANCE_BOUND - 1
    BY <1>1, <1>2 DEF InRange
  <1>5. L1Action(key) = high * BALANCE_SHIFT + ((minimal + moved) - minimal + BALANCE_BOUND)
    BY DEF L1Action
  <1>6. high \in Int
    BY <1>1, <1>2, <1>3
  <1> HIDE DEF minimal, moved, high
  <1>7. (minimal + moved) - minimal + BALANCE_BOUND = moved + BALANCE_BOUND
    <2>1. minimal \in Int /\ moved \in Int
      BY <1>1 DEF minimal, moved
    <2> QED
      BY <1>3, <2>1
  <1>8. moved + BALANCE_BOUND \in 0 .. BALANCE_SHIFT - 1
    BY <1>1, <1>3, <1>4 DEF moved
  <1>9. (high * BALANCE_SHIFT + (moved + BALANCE_BOUND)) % BALANCE_SHIFT = moved + BALANCE_BOUND
    BY <1>3, <1>6, <1>8, LowPart
  <1>10. DiffOf(L1Action(key)) = (moved + BALANCE_BOUND) - BALANCE_BOUND
    BY <1>5, <1>7, <1>9 DEF DiffOf
  <1>11. moved \in Int
    BY <1>1 DEF moved
  <1> QED
    BY <1>3, <1>10, <1>11 DEF moved

\* A dictionary of nothing.
LEMMA NothingIsPartial ==
  ASSUME NEW K, NEW V
  PROVE  <<>> \in PartialOn(K, V) /\ DOMAIN <<>> = {}
PROOF
  <1>1. DOMAIN <<>> = {} /\ <<>> = [x \in DOMAIN <<>> |-> <<>>[x]]
    OBVIOUS
  <1> QED
    BY <1>1, PartialType

\* The contract books what the vaults moved by, and the next batch starts anew.
LEMMA EndBatchKeeps ==
  ASSUME DexInv, EndBatch
  PROVE  DexInv'
PROOF
  <1>1. DexTypes
    BY DEF DexInv
  <1>2. /\ l1_net' = [key \in L1Vaults |->
             l1_net[key] + (IF key \in DOMAIN l1_vault_dict THEN DiffOf(L1Action(key)) ELSE 0)]
        /\ l1_vault_dict' = <<>> /\ l1_vaults_balances' = <<>>
        /\ UNCHANGED <<vault_dict, order_dict, outside, requests, filled>>
        /\ L1OutputMade
    BY DEF EndBatch
  <1>3. \A key \in DOMAIN l1_vault_dict :
          /\ DiffOf(L1Action(key)) = l1_vault_dict[key].moved
          /\ l1_vault_dict[key].moved \in Int
    <2>1. \A key \in DOMAIN l1_vault_dict : l1_vault_dict[key].moved \in Int
      <3>1. \A key \in DOMAIN l1_vault_dict : l1_vault_dict[key] \in L1Moves
        BY <1>1, PartialType DEF DexTypes
      <3> QED
        BY <3>1 DEF L1Moves
    <2> QED
      BY <1>1, <1>2, <2>1, ActionTellsDifference
  <1>4. l1_net' = [key \in L1Vaults |->
          l1_net[key] + (IF key \in DOMAIN l1_vault_dict THEN l1_vault_dict[key].moved ELSE 0)]
    BY <1>2, <1>3
  <1>5. l1_net' \in [L1Vaults -> Int]
    BY <1>1, <1>3, <1>4 DEF DexTypes
  <1>6. /\ l1_vault_dict' \in PartialOn(L1Vaults, L1Moves) /\ DOMAIN l1_vault_dict' = {}
        /\ l1_vaults_balances' \in PartialOn(L1Vaults, HintMoves) /\ DOMAIN l1_vaults_balances' = {}
    BY <1>2, NothingIsPartial
  <1>7. DexTypes' /\ Agree(l1_vault_dict, l1_vaults_balances)' /\ L1VaultsNamedByOrders'
    <2>1. DexTypes'
      BY <1>1, <1>2, <1>5, <1>6 DEF DexTypes
    <2>2. Agree(l1_vault_dict, l1_vaults_balances)' /\ L1VaultsNamedByOrders'
      BY <1>6 DEF Agree, L1VaultsNamedByOrders
    <2> QED
      BY <2>1, <2>2
  <1>8. OrderTermsHoldOverFills'
    BY <1>2, TermsOfOthers DEF DexInv
  <1>9. \A t : HeldBy(l1_net', l1_vault_dict', t) = HeldBy(l1_net, l1_vault_dict, t)
    <2> TAKE t
    <2> DEFINE Share(net, d) == [key \in L1Vaults |->
                 IF key.token_id # t THEN 0 ELSE net[key] + GetOr(d, key, [moved |-> 0]).moved]
               after == Share(l1_net', l1_vault_dict')
               before == Share(l1_net, l1_vault_dict)
    <2>1. \A net, d : HeldBy(net, d, t) = SumFunctionOnSet(Share(net, d), L1Vaults)
      BY DEF HeldBy, SumFunction
    <2>2. \A key \in L1Vaults : after[key] = before[key]
      <3> SUFFICES ASSUME NEW key \in L1Vaults PROVE after[key] = before[key]
        OBVIOUS
      <3>1. GetOr(l1_vault_dict', key, [moved |-> 0]).moved = 0
        BY <1>6 DEF GetOr
      <3>2. GetOr(l1_vault_dict, key, [moved |-> 0]).moved
              = IF key \in DOMAIN l1_vault_dict THEN l1_vault_dict[key].moved ELSE 0
        BY DEF GetOr
      <3>3. l1_net'[key] + 0
              = l1_net[key] + (IF key \in DOMAIN l1_vault_dict THEN l1_vault_dict[key].moved ELSE 0)
        BY <1>4, <1>5
      <3> QED
        BY <3>1, <3>2, <3>3
    <2>3. SumFunctionOnSet(after, L1Vaults) = SumFunctionOnSet(before, L1Vaults)
      <3>1. IsFiniteSet(L1Vaults)
        BY RequestsAssumption
      <3> HIDE DEF after, before
      <3> QED
        BY <2>2, <3>1, SumOfEqual
    <2> QED
      BY <2>1, <2>3
  <1>10. TokensConserved'
    <2> SUFFICES ASSUME NEW t \in TokenIds
                 PROVE  Conserved(vault_dict', l1_net', l1_vault_dict', outside', order_dict', t)
      BY ConservationOfParts
    <2>1. Conserved(vault_dict, l1_net, l1_vault_dict, outside, order_dict, t)
      BY ConservationOfParts DEF DexInv
    <2> QED
      BY <1>2, <1>9, <2>1 DEF Conserved
  <1> QED
    BY <1>7, <1>8, <1>10 DEF DexInv

-----------------------------------------------------------------------------
(* The theorems.                                                           *)

\* The exchange starts in the invariant: nothing held, nothing filled.
LEMMA InitEstablishes == Init => DexInv
PROOF
  <1> SUFFICES ASSUME Init PROVE DexInv
    OBVIOUS
  <1>1. EmptyVault \in Vault
    BY DexAssumption DEF EmptyVault, Vault
  <1>2. DexTypes
    <2>1. vault_dict \in Dicts
      BY <1>1 DEF Init, Dicts
    <2>2. order_dict \in [OrderIds \cup MintIds -> Nat] /\ filled \in [OrderIds -> [bought : Nat, fee : Int]]
      BY DEF Init, MintIds
    <2>3. /\ l1_vault_dict \in PartialOn(L1Vaults, L1Moves)
          /\ l1_vaults_balances \in PartialOn(L1Vaults, HintMoves)
      BY NothingIsPartial DEF Init
    <2>4. outside \in [TokenIds -> Nat] /\ l1_net \in [L1Vaults -> Int] /\ requests = {}
      BY DexAssumption DEF Init
    <2> QED
      BY <2>1, <2>2, <2>3, <2>4 DEF DexTypes
  <1>3. DOMAIN l1_vault_dict = {} /\ DOMAIN l1_vaults_balances = {}
    BY NothingIsPartial DEF Init
  <1>4. Agree(l1_vault_dict, l1_vaults_balances) /\ L1VaultsNamedByOrders
    BY <1>3 DEF Agree, L1VaultsNamedByOrders
  <1>5. OrderTermsHoldOverFills
    <2> SUFFICES ASSUME NEW o \in Orders
                 PROVE  Terms(o, order_dict[o.order_id], filled[o.order_id].bought,
                              filled[o.order_id].fee)
      BY DEF OrderTermsHoldOverFills, Terms
    <2>1. /\ o.order_id \in OrderIds /\ o.amount_sell \in Nat /\ o.amount_buy \in Nat
          /\ o.fee_info # NoFee => o.fee_info.fee_limit \in Nat
      BY RequestsAssumption DEF OrderFields, FeeFields
    <2>2. /\ order_dict[o.order_id] = 0 /\ filled[o.order_id].bought = 0
          /\ filled[o.order_id].fee = 0
      BY <2>1 DEF Init
    <2> QED
      BY <2>1, <2>2 DEF Terms
  <1>6. TokensConserved
    <2> SUFFICES ASSUME NEW t \in TokenIds
                 PROVE  Conserved(vault_dict, l1_net, l1_vault_dict, outside, order_dict, t)
      BY ConservationOfParts
    <2>1. HeldIn(vault_dict, t) = 0
      <3> DEFINE share == [v \in VaultIds |->
                   IF vault_dict[v].token_id = t THEN vault_dict[v].balance ELSE 0]
      <3>1. HeldIn(vault_dict, t) = SumFunctionOnSet(share, VaultIds)
        BY DEF HeldIn, SumFunction
      <3>2. \A v \in VaultIds : share[v] = 0
        BY DEF Init, EmptyVault
      <3> HIDE DEF share
      <3> QED
        BY <3>1, <3>2, SumOfZeros, RequestsAssumption
    <2>2. HeldBy(l1_net, l1_vault_dict, t) = 0
      <3> DEFINE share == [key \in L1Vaults |-> IF key.token_id # t THEN 0
                   ELSE l1_net[key] + GetOr(l1_vault_dict, key, [moved |-> 0]).moved]
      <3>1. HeldBy(l1_net, l1_vault_dict, t) = SumFunctionOnSet(share, L1Vaults)
        BY DEF HeldBy, SumFunction
      <3>2. \A key \in L1Vaults : share[key] = 0
        <4>1. \A key \in L1Vaults : GetOr(l1_vault_dict, key, [moved |-> 0]).moved = 0
          BY <1>3 DEF GetOr
        <4>2. \A key \in L1Vaults : l1_net[key] = 0
          BY DEF Init
        <4> QED
          BY <4>1, <4>2
      <3> HIDE DEF share
      <3> QED
        BY <3>1, <3>2, SumOfZeros, RequestsAssumption
    <2>3. outside[t] = Supply[t] /\ Supply[t] \in Nat
      BY DexAssumption DEF Init
    <2>4. t \in MintableTokens => order_dict[mint_index(t)] = 0
      BY DEF Init
    <2> QED
      BY <2>1, <2>2, <2>3, <2>4 DEF Conserved
  <1> QED
    BY <1>2, <1>4, <1>5, <1>6 DEF DexInv

\* What a step keeps, and of a request that it closes, the vault it was for.
LEMMA StepKeeps ==
  ASSUME DexInv, [Next]_vars
  PROVE  /\ DexInv'
         /\ \A r \in requests \ requests' : vault_dict'[r[2]].stark_key # r[1]
PROOF
  <1> DEFINE ClosesRight == \A r \in requests \ requests' : vault_dict'[r[2]].stark_key # r[1]
  <1>1. ASSUME NEW s \in Settlements, execute_settlement(s) PROVE DexInv' /\ ClosesRight
    <2>1. DexTypes /\ Agree(l1_vault_dict, l1_vaults_balances) /\ TokensConserved
          /\ OrderTermsHoldOverFills /\ L1VaultsNamedByOrders
      BY DEF DexInv
    <2>2. DexTypes' /\ Agree(l1_vault_dict, l1_vaults_balances)'
      BY <1>1, <2>1, SettlementKeepsTypes
    <2>3. TokensConserved' /\ OrderTermsHoldOverFills' /\ L1VaultsNamedByOrders'
      BY <1>1, <2>1, SettlementConserves, SettlementKeepsTerms, SettlementNamesVaults
    <2>4. requests' = requests
      BY <1>1 DEF execute_settlement, contract
    <2> QED
      BY <2>2, <2>3, <2>4 DEF DexInv
  <1>2. ASSUME NEW x \in Transfers, NEW fee_info \in FeeInfos \cup {NoFee},
               execute_transfer(x, fee_info)
        PROVE  DexInv' /\ ClosesRight
    <2>1. requests' = requests
      BY <1>2 DEF execute_transfer, contract
    <2> QED
      BY <1>2, <2>1, TransferKeeps
  <1>3. ASSUME NEW h \in Holders, NEW b \in 0 .. BALANCE_BOUND - 1,
               execute_modification(h[1], h[2], h[3], b, FALSE)
        PROVE  DexInv' /\ ClosesRight
    <2>1. h[1] \in VaultIds /\ h[2] \in StarkKeys /\ h[3] \in TokenIds
      BY RequestsAssumption
    <2>2. requests' = requests
      BY <1>3 DEF execute_modification, CanModify, VaultsModified, Output, Modification
    <2> QED
      BY <1>3, <2>1, <2>2, ModificationKeeps
  <1>4. ASSUME NEW request \in requests, AnswerOfOwner(request) PROVE DexInv' /\ ClosesRight
    <2>1. request[2] \in VaultIds /\ request[1] \in StarkKeys
      BY RequestsAssumption DEF DexInv, DexTypes
    <2>2. PICK token \in TokenIds :
            execute_modification(request[2], request[1], token, 0, TRUE)
      BY <1>4 DEF AnswerOfOwner
    <2>3. 0 \in 0 .. BALANCE_BOUND - 1
      BY DexAssumption
    <2>4. DexInv' /\ vault_dict'[request[2]] = get_vault_state(request[1], token, 0)
      BY <2>1, <2>2, <2>3, ModificationKeeps
    <2>5. vault_dict'[request[2]].stark_key # request[1]
      BY <2>1, <2>4, DexAssumption DEF get_vault_state, EmptyVault
    <2>6. requests \ requests' \subseteq {<<request[1], request[2]>>}
      BY <2>2 DEF execute_modification, CanModify, VaultsModified, Output, Modification
    <2>7. ClosesRight
      BY <2>5, <2>6
    <2> QED
      BY <2>4, <2>7
  <1>5. ASSUME NEW request \in FullWithdrawalRequests, RequestFullWithdrawal(request)
        PROVE  DexInv' /\ ClosesRight
    BY <1>5, RequestKeeps DEF RequestFullWithdrawal
  <1>6. ASSUME NEW request \in requests, execute_false_full_withdrawal(request)
        PROVE  DexInv' /\ ClosesRight
    <2>1. DexInv' /\ vault_dict' = vault_dict
      BY <1>6, FalseWithdrawalKeeps
    <2>2. request[1] # vault_dict[request[2]].stark_key
      BY <1>6 DEF execute_false_full_withdrawal, CanAnswerFalse, VaultsShown, RequesterIsNotOwner
    <2>3. requests \ requests' \subseteq {<<request[1], request[2]>>}
      BY <1>6 DEF execute_false_full_withdrawal, CanAnswerFalse, VaultsShown, Output, Modification
    <2> QED
      BY <2>1, <2>2, <2>3
  <1>7. ASSUME NEW h \in Holders, execute_offchain_minting(h[3], h[2], h[1])
        PROVE  DexInv' /\ ClosesRight
    <2>1. h[1] \in VaultIds /\ h[2] \in StarkKeys /\ h[3] \in TokenIds
      BY RequestsAssumption
    <2>2. requests' = requests
      BY <1>7 DEF execute_offchain_minting, contract
    <2> QED
      BY <1>7, <2>1, <2>2, MintKeeps
  <1>8. ASSUME EndBatch PROVE DexInv' /\ ClosesRight
    <2>1. requests' = requests
      BY <1>8 DEF EndBatch
    <2> QED
      BY <1>8, <2>1, EndBatchKeeps
  <1>9. ASSUME UNCHANGED vars PROVE DexInv' /\ ClosesRight
    <2>1. DexTypes' /\ Agree(l1_vault_dict, l1_vaults_balances)'
      BY <1>9 DEF DexInv, DexTypes, vars, batch, contract
    <2>2. OrderTermsHoldOverFills' /\ L1VaultsNamedByOrders' /\ TokensConserved'
      BY <1>9 DEF DexInv, vars, batch, contract, OrderTermsHoldOverFills, L1VaultsNamedByOrders,
                  TokensConserved, HeldOnL2, HeldOnL1, Minted
    <2> QED
      BY <1>9, <2>1, <2>2 DEF DexInv, vars, contract
  <1> QED
    BY <1>1, <1>2, <1>3, <1>4, <1>5, <1>6, <1>7, <1>8, <1>9 DEF Next

\* Every reachable state has its types, the hint beside the program, and the three
\* properties that need one another's step to be kept.
THEOREM DexInvariant == Spec => []DexInv
PROOF
  <1>1. Init => DexInv
    BY InitEstablishes
  <1>2. DexInv /\ [Next]_vars => DexInv'
    BY StepKeeps
  <1> QED
    BY <1>1, <1>2, PTL DEF Spec

\* execute_settlement.cairo, execute_transfer.cairo, l1_vault_update.cairo: whatever
\* is settled, transferred, deposited, withdrawn and minted over any number of batches,
\* of every token both layers and the outside hold what there was, and what was minted.
THEOREM NoTokenMadeOrLost == Spec => []TokensConserved
PROOF
  <1>1. DexInv => TokensConserved
    BY DEF DexInv
  <1> QED
    BY <1>1, DexInvariant, PTL

\* execute_limit_order.cairo:231, 253-256, fee.cairo:25: over any number of fills an
\* order sells no more than it offers, gets its price, and pays no more fee than its
\* limit allows for what it bought.
THEOREM TermsHoldOverFills == Spec => []OrderTermsHoldOverFills
PROOF
  <1>1. DexInv => OrderTermsHoldOverFills
    BY DEF DexInv
  <1> QED
    BY <1>1, DexInvariant, PTL

\* main_hint_functions.py:98-99: the initial balance that the hint computes of an L1
\* vault, order by order, is the least that the program, change by change, needs.
THEOREM HintsAreLeast == Spec => []L1InitialBalanceIsLeast
PROOF
  <1>1. DexInv => L1InitialBalanceIsLeast
    <2> SUFFICES ASSUME DexInv, NEW key \in DOMAIN l1_vault_dict
                 PROVE  l1_vault_dict[key].lowest - l1_vaults_balances[key].min_balance = 0
      BY DEF L1InitialBalanceIsLeast, DexInv, Agree
    <2>1. l1_vault_dict[key].lowest \in Int
      <3>1. l1_vault_dict[key] \in L1Moves
        BY PartialType DEF DexInv, DexTypes
      <3> QED
        BY <3>1 DEF L1Moves
    <2> QED
      BY <2>1 DEF DexInv, Agree
  <1> QED
    BY <1>1, DexInvariant, PTL

\* execute_limit_order.cairo:109-110: no batch touches an L1 vault that no message of
\* its output names.
THEOREM VaultsAreNamed == Spec => []L1VaultsNamedByOrders
PROOF
  <1>1. DexInv => L1VaultsNamedByOrders
    BY DEF DexInv
  <1> QED
    BY <1>1, DexInvariant, PTL

\* execute_false_full_withdrawal.cairo:7-10: a full withdrawal request is closed only
\* when its key has nothing left in the vault.
THEOREM RequestsAreClosedRight == Spec => RequestsClosedRight
PROOF
  <1>1. DexInv /\ [Next]_vars =>
          [\A r \in requests \ requests' : vault_dict'[r[2]].stark_key # r[1]]_vars
    BY StepKeeps
  <1> QED
    BY <1>1, DexInvariant, PTL DEF Spec, RequestsClosedRight

\* execute_modification.cairo, execute_false_full_withdrawal.cairo: whoever asks for
\* whatever vault, whenever: either the vault has the key and can be emptied, or the
\* program accepts what it shows of the vault.
THEOREM RequestsAreAnswerable == Spec => []RequestsCanBeClosed
PROOF
  <1>1. ASSUME DexInv, NEW r \in requests
        PROVE  \/ \E token_id \in TokenIds : CanModify(r[2], r[1], token_id, 0, TRUE)
               \/ CanAnswerFalse(r)
    <2> DEFINE v == r[2]
               vault == vault_dict[v]
               Access(new) == l2_vault_update_balances(v, vault.stark_key, vault.token_id,
                                                       vault.balance, new)
    <2>1. r[1] \in StarkKeys /\ v \in VaultIds /\ vault \in Vault /\ vault_dict \in Dicts
      BY <1>1, RequestsAssumption DEF DexInv, DexTypes, Dicts
    <2> HIDE DEF vault
    \* An access that begins with the vault as it is is taken.
    <2>2. ASSUME NEW new \in Int, get_vault_state(vault.stark_key, vault.token_id, new) \in Vault
          PROVE  squash_dict(vault_dict, <<Access(new)>>) # Rejected
      <3> DEFINE a == Access(new)
      <3>1. /\ a \in [key : VaultIds, prev_value : Vault, new_value : Vault]
            /\ a.key = v /\ a.prev_value = vault /\ a.new_value \in Vault
        BY <2>1, <2>2, VaultStateOfFields DEF l2_vault_update_balances
      <3> HIDE DEF a
      <3>2. squash_dict(vault_dict, <<a>>) = SquashStep(vault_dict, a)
        BY <2>1, <3>1, SquashOfOne DEF IsAccess
      <3>3. SquashStep(vault_dict, a) = [vault_dict EXCEPT ![v] = a.new_value]
        BY <2>1, <3>1, RejectedAssumption DEF SquashStep, Dicts, vault
      <3>4. [vault_dict EXCEPT ![v] = a.new_value] \in Dicts
        BY <2>1, <3>1 DEF Dicts
      <3> QED
        BY <3>2, <3>3, <3>4, RejectedAssumption DEF Dicts, a
    <2>3. CASE r[1] = vault.stark_key
      <3>1. vault.token_id \in TokenIds /\ vault.balance \in 0 .. BALANCE_BOUND - 1
            /\ vault.balance \in Nat
        BY <2>1, <2>3, VaultFields, DexAssumption DEF EmptyVault
      <3>2. squash_dict(vault_dict, <<Access(0)>>) # Rejected
        BY <2>2 DEF get_vault_state, Vault
      <3>3. InRange(0) /\ InRange(vault.balance)
        BY <3>1, DexAssumption DEF InRange
      <3>4. 0 - vault.balance <= outside[vault.token_id]
        BY <1>1, <3>1 DEF DexInv, DexTypes
      <3> QED
        BY <2>3, <3>1, <3>2, <3>3, <3>4 DEF CanModify, VaultsModified, vault
    <2>4. CASE r[1] # vault.stark_key
      <3>1. squash_dict(vault_dict, <<Access(vault.balance)>>) # Rejected
        BY <2>1, <2>2, VaultStateOfFields, VaultFields
      <3> QED
        BY <2>4, <3>1 DEF CanAnswerFalse, RequesterIsNotOwner, VaultsShown, vault
    <2> QED
      BY <2>3, <2>4
  <1>2. DexInv => RequestsCanBeClosed
    BY <1>1 DEF RequestsCanBeClosed
  <1> QED
    BY <1>2, DexInvariant, PTL


-----------------------------------------------------------------------------
(* What the batcher executed the program accepts.                          *)

\* What the batcher has: the vaults, and the states before each change.
Runs == [vaults : Dicts, vault_diffs : Seq(Vault)]

\* A change that the batcher executes is recorded, and squash_dict takes the
\* access with the recorded balance.
Witnessed(before, after, c) ==
  /\ IsAppend(after.vault_diffs, before.vault_diffs, before.vaults[c.vault_index])
  /\ SquashStep(before.vaults, l2_vault_update_diff(c, before.vaults[c.vault_index].balance))
       = after.vaults

\* Every change of L2 that the batcher executes is so.
LEMMA ChangeIsWitnessed ==
  ASSUME NEW run \in Runs, run # Rejected, NEW c, IsL2Change(c), ~ c.is_l1,
         BatcherStep(run, c) # Rejected
  PROVE  BatcherStep(run, c) \in Runs /\ Witnessed(run, BatcherStep(run, c), c)
PROOF
  <1> DEFINE v == c.vault_index
             prev == run.vaults[v]
             new == prev.balance + c.diff
             state == get_vault_state(c.stark_key, c.token_id, new)
             after == [vaults |-> [run.vaults EXCEPT ![v] = state],
                       vault_diffs |-> Append(run.vault_diffs, prev)]
             access == l2_vault_update_diff(c, prev.balance)
  <1>1. run.vaults \in Dicts /\ run.vault_diffs \in Seq(Vault) /\ v \in VaultIds
    BY DEF Runs, IsL2Change
  <1>2. prev \in Vault /\ prev.balance \in Int /\ c.diff \in Int /\ new \in Int
    <2>1. prev \in Vault
      BY <1>1 DEF Dicts
    <2> HIDE DEF prev
    <2> QED
      BY <2>1, VaultFields DEF IsL2Change
  <1>3. /\ prev = EmptyVault \/ prev = get_vault_state(c.stark_key, c.token_id, prev.balance)
        /\ InRange(new)
        /\ BatcherStep(run, c) = after
    BY DEF BatcherStep
  <1>4. state \in Vault
    BY <1>2, <1>3, VaultStateType DEF IsL2Change
  <1>5. /\ Append(run.vault_diffs, prev) \in Seq(Vault)
        /\ IsAppend(Append(run.vault_diffs, prev), run.vault_diffs, prev)
    BY <1>1, <1>2, AppendIs
  <1>6. get_vault_state(c.stark_key, c.token_id, prev.balance) = prev
    BY <1>3 DEF get_vault_state, EmptyVault
  <1>7. access = [key |-> v, prev_value |-> prev, new_value |-> state]
    BY <1>3, <1>6 DEF l2_vault_update_diff, l2_vault_update_balances
  <1>8. access # Rejected /\ run.vaults # Rejected
    BY <1>1, <1>2, <1>4, <1>7, RejectedAssumption DEF Dicts
  <1>9. SquashStep(run.vaults, access) = [run.vaults EXCEPT ![v] = state]
    BY <1>7, <1>8 DEF SquashStep
  <1> HIDE DEF v, prev, new, state, access
  <1>10. [run.vaults EXCEPT ![v] = state] \in Dicts
    BY <1>1, <1>4 DEF Dicts
  <1>11. after \in Runs
    BY <1>5, <1>10 DEF Runs
  <1>12. after.vaults = [run.vaults EXCEPT ![v] = state]
         /\ after.vault_diffs = Append(run.vault_diffs, prev)
    OBVIOUS
  <1> HIDE DEF after
  <1>13. Witnessed(run, after, c)
    BY <1>5, <1>9, <1>12, Zenon DEF Witnessed, v, prev, access
  <1> QED
    BY <1>3, <1>11, <1>13

\* The runs between the changes.
IsRun(tr, changes, n) ==
  /\ tr \in [0 .. n -> Runs \cup {Rejected}]
  /\ tr[0] = [vaults |-> vault_dict, vault_diffs |-> <<>>]
  /\ \A i \in 1 .. n : tr[i] = BatcherStep(tr[i - 1], changes[i])

\* The batcher, change by change.
LEMMA BatcherHasTrace ==
  ASSUME vault_dict \in Dicts, NEW changes, NEW n \in Nat, DOMAIN changes = 1 .. n,
         \A i \in 1 .. n : ~ changes[i].is_l1 => IsL2Change(changes[i])
  PROVE  \E tr : IsRun(tr, changes, n) /\ tr[n] = Batcher(changes)
PROOF
  <1> DEFINE D == Runs \cup {Rejected}
             base == [vaults |-> vault_dict, vault_diffs |-> <<>>]
             step == [i \in 1 .. n |-> [d \in D |-> BatcherStep(d, changes[i])]]
             IsTable(g) ==
               g = [s \in SUBSET DOMAIN changes |->
                      IF s = {} THEN base
                      ELSE BatcherStep(g[s \ {Max(s)}], changes[Max(s)])]
             h == CHOOSE g : IsTable(g)
  <1>1. Batcher(changes) = h[DOMAIN changes]
    BY DEF Batcher, FoldLeft, MapThenFoldSet
  <1>2. step \in [1 .. n -> [D -> D]]
    <2> SUFFICES ASSUME NEW i \in 1 .. n, NEW d \in D PROVE BatcherStep(d, changes[i]) \in D
      OBVIOUS
    <2>1. CASE d = Rejected \/ changes[i].is_l1
      BY <2>1 DEF BatcherStep
    <2>2. CASE d # Rejected /\ ~ changes[i].is_l1
      BY <2>2, ChangeIsWitnessed
    <2> QED
      BY <2>1, <2>2
  <1>3. base \in D
    <2>1. <<>> \in Seq(Vault)
      OBVIOUS
    <2> QED
      BY <2>1 DEF Runs
  <1> HIDE DEF base, D
  <1>4. PICK g \in [SUBSET (1 .. n) -> D] : IsFold(g, base, step, n)
    <2> HIDE DEF step
    <2> QED
      BY <1>2, <1>3, FoldTableExists
  <1>5. \A s \in SUBSET (1 .. n) : s # {} => Max(s) \in 1 .. n /\ s \ {Max(s)} \in SUBSET (1 .. n)
    BY MaxIsIndex
  <1>6. IsTable(g)
    <2>1. ASSUME NEW s \in SUBSET (1 .. n)
          PROVE  g[s] = IF s = {} THEN base
                        ELSE BatcherStep(g[s \ {Max(s)}], changes[Max(s)])
      BY <1>4, <1>5 DEF IsFold
    <2> QED
      BY <2>1
  <1>7. IsTable(h)
    <2> HIDE DEF IsTable
    <2> QED
      BY <1>6
  <1>8. h[{}] = base
    BY <1>7
  <1>9. ASSUME NEW s \in SUBSET (1 .. n), s # {}, h[s \ {Max(s)}] \in D
        PROVE  h[s] = step[Max(s)][h[s \ {Max(s)}]]
    <2>1. h[s] = BatcherStep(h[s \ {Max(s)}], changes[Max(s)])
      <3> HIDE DEF h, step
      <3> QED
        BY <1>7, <1>9
    <2>2. Max(s) \in 1 .. n
      BY <1>5, <1>9
    <2> HIDE DEF h, IsTable
    <2>3. step[Max(s)][h[s \ {Max(s)}]] = BatcherStep(h[s \ {Max(s)}], changes[Max(s)])
      BY <1>9, <2>2
    <2> HIDE DEF step
    <2> QED
      BY <2>1, <2>3
  <1>10. PICK tr \in [0 .. n -> D] : IsTrace(tr, base, step, n) /\ tr[n] = h[1 .. n]
    <2> HIDE DEF step, h
    <2>1. Follows(h, D, base, step, n)
      BY <1>8, <1>9 DEF Follows
    <2>2. CanStep(h, D, base, step, n)
      BY <1>2, <1>3, <2>1 DEF CanStep
    <2>3. HasTrace(h, D, base, step, n)
      BY <2>2, FoldIsTraced, Zenon
    <2> QED
      BY <2>3 DEF HasTrace
  <1>11. \A i \in 1 .. n : tr[i] = BatcherStep(tr[i - 1], changes[i])
    <2> SUFFICES ASSUME NEW i \in 1 .. n PROVE tr[i] = BatcherStep(tr[i - 1], changes[i])
      OBVIOUS
    <2>1. i - 1 \in 0 .. n
      OBVIOUS
    <2> QED
      BY <1>10, <2>1 DEF IsTrace
  <1> QED
    BY <1>1, <1>10, <1>11 DEF IsRun, IsTrace, D, base

\* A run that comes to its end was never rejected.
LEMMA RunsGoOn ==
  ASSUME NEW changes, NEW n \in Nat, NEW tr, IsRun(tr, changes, n), tr[n] # Rejected
  PROVE  \A i \in 0 .. n : tr[i] \in Runs /\ tr[i] # Rejected
PROOF
  <1> DEFINE Good == {m \in Nat : m <= n => tr[n - m] # Rejected}
  <1>1. 0 \in Good
    OBVIOUS
  <1>2. ASSUME NEW m \in Nat, m \in Good PROVE m + 1 \in Good
    <2> SUFFICES ASSUME m + 1 <= n PROVE tr[n - (m + 1)] # Rejected
      OBVIOUS
    <2>1. n - m \in 1 .. n /\ (n - m) - 1 = n - (m + 1) /\ tr[n - m] # Rejected
      BY <1>2
    <2>2. tr[n - m] = BatcherStep(tr[(n - m) - 1], changes[n - m])
      BY <2>1 DEF IsRun
    <2> QED
      BY <2>1, <2>2 DEF BatcherStep
  <1> HIDE DEF Good
  <1>3. \A m \in Nat : m \in Good
    BY <1>1, <1>2, NaturalInduction
  <1>4. ASSUME NEW i \in 0 .. n PROVE tr[i] \in Runs /\ tr[i] # Rejected
    <2>1. n - i \in Nat /\ n - i <= n /\ n - (n - i) = i
      OBVIOUS
    <2>2. tr[i] # Rejected
      BY <1>3, <2>1, Zenon DEF Good
    <2> QED
      BY <2>2 DEF IsRun
  <1> QED
    BY <1>4

\* What a run has recorded is the beginning of W.
Begins(W, recorded) == \A i \in 1 .. Len(recorded) : W[i] = recorded[i]

\* What a later run has recorded tells what was recorded of a change.
LEMMA WitnessFound ==
  ASSUME NEW before \in Runs, NEW after \in Runs, NEW c, Witnessed(before, after, c),
         NEW W, Begins(W, after.vault_diffs)
  PROVE  /\ Begins(W, before.vault_diffs)
         /\ Len(before.vault_diffs) \in Nat
         /\ Len(after.vault_diffs) = Len(before.vault_diffs) + 1
         /\ W[Len(before.vault_diffs) + 1] = before.vaults[c.vault_index]
         /\ SquashStep(before.vaults,
                       l2_vault_update_diff(c, W[Len(before.vault_diffs) + 1].balance))
              = after.vaults
PROOF
  <1>1. PICK s, q : s = before.vault_diffs /\ q = after.vault_diffs
    OBVIOUS
  <1>2. s \in Seq(Vault)
    BY <1>1 DEF Runs
  <1>3. Len(s) \in Nat
    BY <1>2, LenProperties
  <1>4. IsAppend(q, s, before.vaults[c.vault_index])
    BY <1>1 DEF Witnessed
  <1>5. Begins(W, s) /\ W[Len(s) + 1] = before.vaults[c.vault_index] /\ Len(q) = Len(s) + 1
    <2>1. \A i \in 1 .. Len(s) : i \in 1 .. Len(q) /\ q[i] = s[i]
      BY <1>3, <1>4 DEF IsAppend
    <2>2. Len(s) + 1 \in 1 .. Len(q) /\ q[Len(s) + 1] = before.vaults[c.vault_index]
      BY <1>3, <1>4 DEF IsAppend
    <2> QED
      BY <1>1, <1>4, <2>1, <2>2 DEF Begins, IsAppend
  <1>6. SquashStep(before.vaults, l2_vault_update_diff(c, W[Len(s) + 1].balance)) = after.vaults
    BY <1>5, Zenon DEF Witnessed
  <1> QED
    BY <1>1, <1>3, <1>5, <1>6

\* The changes of an order that are made on L2, between two runs.
OrderRuns(before, after, o, sold, bought, fee_info) ==
  IF o.is_l1 THEN Witnessed(before, after, FeeDestinationOf(o, fee_info))
  ELSE \E r1, r2 \in Runs :
         /\ Witnessed(before, r1, SellOf(o, sold))
         /\ Witnessed(r1, r2, BuyOf(o, bought))
         /\ IF fee_info = NoFee THEN r2 = after
            ELSE \E r3 \in Runs : /\ Witnessed(r2, r3, FeeSourceOf(o, fee_info))
                                  /\ Witnessed(r3, after, FeeDestinationOf(o, fee_info))

\* A run that goes on, through the changes of an order from the k-th on.
RunsThrough(tr, k, changes) ==
  \A i \in 1 .. Len(changes) : tr[k + i] = BatcherStep(tr[k + i - 1], changes[i])

\* Such a run takes the order's changes of L2.
LEMMA OrderRunsThrough ==
  ASSUME NEW o, NEW sold, NEW bought, NEW fee_info, IsFill(o, sold, bought, fee_info),
         NEW k \in Nat, NEW tr, RunsThrough(tr, k, OrderChanges(o, sold, bought, fee_info)),
         \A i \in 0 .. Len(OrderChanges(o, sold, bought, fee_info)) :
           tr[k + i] \in Runs /\ tr[k + i] # Rejected
  PROVE  OrderRuns(tr[k], tr[k + Len(OrderChanges(o, sold, bought, fee_info))],
                   o, sold, bought, fee_info)
PROOF
  <1> DEFINE changes == OrderChanges(o, sold, bought, fee_info)
             sell == SellOf(o, sold)
             buy == BuyOf(o, bought)
             source == FeeSourceOf(o, fee_info)
             destination == FeeDestinationOf(o, fee_info)
  <1>1. changes = IF fee_info = NoFee THEN <<sell, buy>> ELSE <<sell, buy, source, destination>>
    BY ChangesOfOrder
  <1>2. /\ sell.is_l1 = o.is_l1 /\ buy.is_l1 = o.is_l1
        /\ source.is_l1 = o.is_l1 /\ destination.is_l1 = FALSE
    BY DEF SellOf, BuyOf, FeeSourceOf, FeeDestinationOf, Change
  <1>3. /\ ~ o.is_l1 => IsL2Change(sell) /\ IsL2Change(buy)
        /\ fee_info # NoFee => IsL2Change(destination) /\ (~ o.is_l1 => IsL2Change(source))
        /\ o.is_l1 => fee_info # NoFee
    BY FillType
  <1>4. RunsThrough(tr, k, changes)
        /\ \A i \in 0 .. Len(changes) : tr[k + i] \in Runs /\ tr[k + i] # Rejected
    OBVIOUS
  <1> HIDE DEF changes, sell, buy, source, destination
  <1>5. k + 0 = k
    OBVIOUS
  <1>6. CASE fee_info = NoFee
    <2>1. changes = <<sell, buy>> /\ Len(changes) = 2 /\ ~ o.is_l1
      BY <1>1, <1>3, <1>6
    <2>2. /\ 1 \in 1 .. 2 /\ 2 \in 1 .. 2 /\ changes[1] = sell /\ changes[2] = buy
          /\ k + 1 - 1 = k /\ k + 2 - 1 = k + 1
      BY <2>1
    <2>3. tr[k + 1] = BatcherStep(tr[k], sell) /\ tr[k + 2] = BatcherStep(tr[k + 1], buy)
      BY <1>4, <2>1, <2>2 DEF RunsThrough
    <2>4. /\ tr[k] \in Runs /\ tr[k] # Rejected /\ tr[k + 1] \in Runs /\ tr[k + 1] # Rejected
          /\ tr[k + 2] \in Runs /\ tr[k + 2] # Rejected
      <3>1. 0 \in 0 .. 2 /\ 1 \in 0 .. 2 /\ 2 \in 0 .. 2
        OBVIOUS
      <3> QED
        BY <1>4, <1>5, <2>1, <3>1
    <2>5. Witnessed(tr[k], tr[k + 1], sell) /\ Witnessed(tr[k + 1], tr[k + 2], buy)
      BY <1>2, <1>3, <2>1, <2>3, <2>4, ChangeIsWitnessed
    <2> QED
      BY <1>6, <2>1, <2>4, <2>5 DEF OrderRuns, changes, sell, buy
  <1>7. CASE fee_info # NoFee
    <2>1. changes = <<sell, buy, source, destination>> /\ Len(changes) = 4
      BY <1>1, <1>7
    <2>2. /\ 1 \in 1 .. 4 /\ 2 \in 1 .. 4 /\ 3 \in 1 .. 4 /\ 4 \in 1 .. 4
          /\ changes[1] = sell /\ changes[2] = buy
          /\ changes[3] = source /\ changes[4] = destination
          /\ k + 1 - 1 = k /\ k + 2 - 1 = k + 1 /\ k + 3 - 1 = k + 2 /\ k + 4 - 1 = k + 3
      BY <2>1
    <2>3. /\ tr[k + 1] = BatcherStep(tr[k], sell) /\ tr[k + 2] = BatcherStep(tr[k + 1], buy)
          /\ tr[k + 3] = BatcherStep(tr[k + 2], source)
          /\ tr[k + 4] = BatcherStep(tr[k + 3], destination)
      BY <1>4, <2>1, <2>2 DEF RunsThrough
    <2>4. /\ tr[k] \in Runs /\ tr[k] # Rejected /\ tr[k + 1] \in Runs /\ tr[k + 1] # Rejected
          /\ tr[k + 2] \in Runs /\ tr[k + 2] # Rejected /\ tr[k + 3] \in Runs
          /\ tr[k + 3] # Rejected /\ tr[k + 4] \in Runs /\ tr[k + 4] # Rejected
      <3>1. 0 \in 0 .. 4 /\ 1 \in 0 .. 4 /\ 2 \in 0 .. 4 /\ 3 \in 0 .. 4 /\ 4 \in 0 .. 4
        OBVIOUS
      <3> QED
        BY <1>4, <1>5, <2>1, <3>1
    <2>5. Witnessed(tr[k + 3], tr[k + 4], destination)
      BY <1>2, <1>3, <1>7, <2>3, <2>4, ChangeIsWitnessed
    <2>6. CASE o.is_l1
      <3>1. tr[k + 1] = tr[k] /\ tr[k + 2] = tr[k + 1] /\ tr[k + 3] = tr[k + 2]
        BY <1>2, <2>3, <2>6 DEF BatcherStep
      <3> QED
        BY <2>1, <2>5, <2>6, <3>1 DEF OrderRuns, changes, destination
    <2>7. CASE ~ o.is_l1
      <3>1. /\ Witnessed(tr[k], tr[k + 1], sell) /\ Witnessed(tr[k + 1], tr[k + 2], buy)
            /\ Witnessed(tr[k + 2], tr[k + 3], source)
        BY <1>2, <1>3, <1>7, <2>3, <2>4, <2>7, ChangeIsWitnessed
      <3> QED
        BY <1>7, <2>1, <2>4, <2>5, <2>7, <3>1 DEF OrderRuns, changes, sell, buy, source, destination
    <2> QED
      BY <2>6, <2>7
  <1> QED
    BY <1>6, <1>7

\* What was recorded before an order is recorded still.
LEMMA OrderKeepsRecord ==
  ASSUME NEW before \in Runs, NEW after \in Runs, NEW o, NEW sold, NEW bought, NEW fee_info,
         OrderRuns(before, after, o, sold, bought, fee_info),
         NEW W, Begins(W, after.vault_diffs)
  PROVE  Begins(W, before.vault_diffs)
BY WitnessFound DEF OrderRuns

\* The balances that the hints pick for an order, and where the next ones are.
WitnessOf(o, W, fee_info, idx) ==
  LET order == get_order_witness(o, W, idx)
      fee == get_fee_witness(o, W, fee_info, order.next)
  IN  [balance |-> Together(fee.balance, order.balance), next |-> fee.next]

\* They are those that the batcher recorded, from the idx-th on, change by change.
Picked(w, o, W, fee_info, idx) ==
  /\ o.is_l1 => w.balance["FEE_DESTINATION"] = W[idx].balance /\ w.next = idx + 1
  /\ ~ o.is_l1 => w.balance["SELL"] = W[idx].balance /\ w.balance["BUY"] = W[idx + 1].balance
  /\ ~ o.is_l1 /\ fee_info = NoFee => w.next = idx + 2
  /\ ~ o.is_l1 /\ fee_info # NoFee =>
       /\ w.balance["FEE_SOURCE"] = W[idx + 2].balance
       /\ w.balance["FEE_DESTINATION"] = W[idx + 3].balance
       /\ w.next = idx + 4

\* The hints pick the balance of every change, where the batcher recorded it.
LEMMA PickedBalances ==
  ASSUME NEW o, NEW W, NEW fee_info, NEW idx \in Nat, o.is_l1 => fee_info # NoFee
  PROVE  Picked(WitnessOf(o, W, fee_info, idx), o, W, fee_info, idx)
PROOF
  <1>1. /\ idx + 1 \in Nat /\ (idx + 2) + 1 = idx + 3 /\ (idx + 3) + 1 = idx + 4
    OBVIOUS
  <1> DEFINE order == get_order_witness(o, W, idx)
             fee == get_fee_witness(o, W, fee_info, order.next)
  <1>2. /\ WitnessOf(o, W, fee_info, idx).balance = Together(fee.balance, order.balance)
        /\ WitnessOf(o, W, fee_info, idx).next = fee.next
    BY DEF WitnessOf
  <1>3. CASE o.is_l1
    <2>1. order.balance = <<>> /\ order.next = idx
      BY <1>3 DEF get_order_witness
    <2> HIDE DEF order
    <2>2. fee_info # NoFee
      BY <1>3
    <2>3. /\ fee.balance = Together([FEE_DESTINATION |-> W[idx].balance], <<>>)
          /\ fee.next = idx + 1
      BY <1>3, <2>1, <2>2 DEF get_fee_witness
    <2> HIDE DEF fee
    <2>4. "FEE_DESTINATION" \in DOMAIN fee.balance /\ fee.balance["FEE_DESTINATION"] = W[idx].balance
      BY <2>3 DEF Together
    <2>5. WitnessOf(o, W, fee_info, idx).balance["FEE_DESTINATION"] = W[idx].balance
      BY <1>2, <2>4 DEF Together
    <2> QED
      BY <1>2, <1>3, <2>3, <2>5 DEF Picked
  <1>4. CASE ~ o.is_l1
    <2>1. /\ order.balance = [SELL |-> W[idx].balance, BUY |-> W[idx + 1].balance]
          /\ order.next = idx + 2
      BY <1>4 DEF get_order_witness
    <2> HIDE DEF order
    <2>2. /\ DOMAIN order.balance = {"SELL", "BUY"}
          /\ order.balance["SELL"] = W[idx].balance /\ order.balance["BUY"] = W[idx + 1].balance
      BY <2>1
    <2>3. CASE fee_info = NoFee
      <3>1. fee.balance = <<>> /\ fee.next = idx + 2
        BY <2>1, <2>3 DEF get_fee_witness
      <3> HIDE DEF fee
      <3>2. DOMAIN fee.balance = {}
        BY <3>1
      <3>3. /\ WitnessOf(o, W, fee_info, idx).balance["SELL"] = W[idx].balance
            /\ WitnessOf(o, W, fee_info, idx).balance["BUY"] = W[idx + 1].balance
        BY <1>2, <2>2, <3>2 DEF Together
      <3> QED
        BY <1>2, <1>4, <2>3, <3>1, <3>3 DEF Picked
    <2>4. CASE fee_info # NoFee
      <3>1. /\ fee.balance = Together([FEE_DESTINATION |-> W[(idx + 2) + 1].balance],
                                      [FEE_SOURCE |-> W[idx + 2].balance])
            /\ fee.next = ((idx + 2) + 1) + 1
        BY <1>4, <2>1, <2>4 DEF get_fee_witness
      <3> HIDE DEF fee
      <3>2. /\ DOMAIN fee.balance = {"FEE_SOURCE", "FEE_DESTINATION"}
            /\ fee.balance["FEE_SOURCE"] = W[idx + 2].balance
            /\ fee.balance["FEE_DESTINATION"] = W[idx + 3].balance
        BY <1>1, <3>1 DEF Together
      <3>3. /\ WitnessOf(o, W, fee_info, idx).balance["SELL"] = W[idx].balance
            /\ WitnessOf(o, W, fee_info, idx).balance["BUY"] = W[idx + 1].balance
            /\ WitnessOf(o, W, fee_info, idx).balance["FEE_SOURCE"] = W[idx + 2].balance
            /\ WitnessOf(o, W, fee_info, idx).balance["FEE_DESTINATION"] = W[idx + 3].balance
        BY <1>2, <2>2, <3>2 DEF Together
      <3> QED
        BY <1>1, <1>2, <1>4, <2>4, <3>1, <3>3 DEF Picked
    <2> QED
      BY <2>3, <2>4
  <1> QED
    BY <1>3, <1>4

\* The dictionaries follow accesses, from the j-th on.
SquashesThrough(q, j, accesses) ==
  \A i \in 1 .. Len(accesses) : q[j + i] = SquashStep(q[j + i - 1], accesses[i])

\* The program comes to an order that the batcher executed: its dictionary, after j
\* accesses, is that of the batcher, and the hints give it the order's accesses.
ProgramAt(before, after, o, sold, bought, fee_info, W, idx, accesses, j, q) ==
  /\ before \in Runs /\ after \in Runs /\ IsFill(o, sold, bought, fee_info)
  /\ OrderRuns(before, after, o, sold, bought, fee_info)
  /\ Begins(W, after.vault_diffs) /\ idx = Len(before.vault_diffs) + 1
  /\ accesses = Accesses(OrderChanges(o, sold, bought, fee_info),
                         WitnessOf(o, W, fee_info, idx).balance)
  /\ j \in Nat /\ q[j] = before.vaults /\ SquashesThrough(q, j, accesses)

\* An order that the batcher executed: squash_dict takes the accesses that the hints
\* give the program, and leaves the batcher's vaults.
LEMMA OrderIsWitnessed ==
  ASSUME NEW before, NEW after, NEW o, NEW sold, NEW bought, NEW fee_info,
         NEW W, NEW idx, NEW accesses, NEW j, NEW q,
         ProgramAt(before, after, o, sold, bought, fee_info, W, idx, accesses, j, q)
  PROVE  /\ q[j + Len(accesses)] = after.vaults
         /\ WitnessOf(o, W, fee_info, idx).next = Len(after.vault_diffs) + 1
PROOF
  <1> SUFFICES ASSUME before \in Runs, after \in Runs, IsFill(o, sold, bought, fee_info),
                      OrderRuns(before, after, o, sold, bought, fee_info),
                      Begins(W, after.vault_diffs), idx = Len(before.vault_diffs) + 1,
                      accesses = Accesses(OrderChanges(o, sold, bought, fee_info),
                                          WitnessOf(o, W, fee_info, idx).balance),
                      j \in Nat, q[j] = before.vaults, SquashesThrough(q, j, accesses)
               PROVE  /\ q[j + Len(accesses)] = after.vaults
                      /\ WitnessOf(o, W, fee_info, idx).next = Len(after.vault_diffs) + 1
    BY DEF ProgramAt
  <1> DEFINE sell == SellOf(o, sold)
             buy == BuyOf(o, bought)
             source == FeeSourceOf(o, fee_info)
             destination == FeeDestinationOf(o, fee_info)
             w == WitnessOf(o, W, fee_info, idx)
             balance == w.balance
             n == Len(before.vault_diffs)
             step(d, c, i) == SquashStep(d, l2_vault_update_diff(c, W[i].balance))
  <1>1. o.is_l1 => fee_info # NoFee
    BY FillType
  <1>2. n \in Nat /\ idx = n + 1 /\ idx \in Nat
    <2>1. before.vault_diffs \in Seq(Vault)
      BY DEF Runs
    <2> QED
      BY <2>1, LenProperties
  <1>3. /\ idx + 1 = (n + 1) + 1 /\ idx + 2 = ((n + 1) + 1) + 1
        /\ idx + 3 = (((n + 1) + 1) + 1) + 1 /\ idx + 4 = ((((n + 1) + 1) + 1) + 1) + 1
    BY <1>2
  <1>4. /\ o.is_l1 => balance["FEE_DESTINATION"] = W[idx].balance /\ w.next = idx + 1
        /\ ~ o.is_l1 =>
             balance["SELL"] = W[idx].balance /\ balance["BUY"] = W[idx + 1].balance
        /\ ~ o.is_l1 /\ fee_info = NoFee => w.next = idx + 2
        /\ ~ o.is_l1 /\ fee_info # NoFee =>
             /\ balance["FEE_SOURCE"] = W[idx + 2].balance
             /\ balance["FEE_DESTINATION"] = W[idx + 3].balance
             /\ w.next = idx + 4
    <2>1. Picked(w, o, W, fee_info, idx)
      <3>1. idx \in Nat
        BY <1>2
      <3> QED
        BY <1>1, <3>1, PickedBalances
    <2> HIDE DEF w
    <2> QED
      BY <2>1 DEF Picked
  <1>5. /\ sell.role = "SELL" /\ buy.role = "BUY"
        /\ source.role = "FEE_SOURCE" /\ destination.role = "FEE_DESTINATION"
    BY DEF SellOf, BuyOf, FeeSourceOf, FeeDestinationOf, Change
  <1>6. accesses = IF o.is_l1 THEN <<AccessOf(destination, balance)>>
                   ELSE IF fee_info = NoFee
                   THEN <<AccessOf(sell, balance), AccessOf(buy, balance)>>
                   ELSE <<AccessOf(sell, balance), AccessOf(buy, balance),
                          AccessOf(source, balance), AccessOf(destination, balance)>>
    BY AccessesOfOrder
  <1> HIDE DEF w, balance
  <1>7. \A c, i : balance[c.role] = W[i].balance =>
                    AccessOf(c, balance) = l2_vault_update_diff(c, W[i].balance)
    BY DEF AccessOf
  <1>8. CASE o.is_l1
    <2>1. Witnessed(before, after, destination)
      BY <1>8 DEF OrderRuns
    <2>2. step(before.vaults, destination, n + 1) = after.vaults /\ Len(after.vault_diffs) = n + 1
      BY <2>1, WitnessFound
    <2>3. accesses = <<AccessOf(destination, balance)>>
      BY <1>6, <1>8
    <2> HIDE DEF destination
    <2>4. Len(accesses) = 1 /\ 1 \in 1 .. 1 /\ accesses[1] = AccessOf(destination, balance)
          /\ j + 1 - 1 = j
      BY <2>3
    <2>5. q[j + 1] = SquashStep(q[j], AccessOf(destination, balance))
      BY <2>4 DEF SquashesThrough
    <2>6. AccessOf(destination, balance) = l2_vault_update_diff(destination, W[idx].balance)
      BY <1>4, <1>5, <1>7, <1>8, Zenon
    <2>7. q[j + 1] = after.vaults
      BY <1>2, <2>2, <2>5, <2>6
    <2> HIDE DEF n, step
    <2> QED
      BY <1>2, <1>4, <1>8, <2>2, <2>4, <2>7 DEF w
  <1>9. CASE ~ o.is_l1
    <2>1. PICK r1 \in Runs, r2 \in Runs :
            /\ Witnessed(before, r1, sell)
            /\ Witnessed(r1, r2, buy)
            /\ IF fee_info = NoFee THEN r2 = after
               ELSE \E r3 \in Runs : Witnessed(r2, r3, source) /\ Witnessed(r3, after, destination)
      BY <1>9 DEF OrderRuns
    <2>2. Begins(W, r2.vault_diffs)
      <3>1. CASE fee_info = NoFee
        BY <2>1, <3>1
      <3>2. CASE fee_info # NoFee
        <4>1. PICK r3 \in Runs : Witnessed(r2, r3, source) /\ Witnessed(r3, after, destination)
          BY <2>1, <3>2
        <4>2. Begins(W, r3.vault_diffs)
          BY <4>1, WitnessFound
        <4> QED
          BY <4>1, <4>2, WitnessFound
      <3> QED
        BY <3>1, <3>2
    <2>3. /\ Begins(W, r1.vault_diffs) /\ step(r1.vaults, buy, Len(r1.vault_diffs) + 1) = r2.vaults
          /\ Len(r2.vault_diffs) = Len(r1.vault_diffs) + 1
      <3>1. Witnessed(r1, r2, buy)
        BY <2>1
      <3> HIDE DEF sell, buy, source, destination
      <3>2. /\ Begins(W, r1.vault_diffs)
            /\ Len(r2.vault_diffs) = Len(r1.vault_diffs) + 1
            /\ SquashStep(r1.vaults, l2_vault_update_diff(buy, W[Len(r1.vault_diffs) + 1].balance))
                 = r2.vaults
        BY <2>2, <3>1, WitnessFound
      <3> QED
        BY <3>2
    <2>4. /\ step(before.vaults, sell, n + 1) = r1.vaults
          /\ Len(r1.vault_diffs) = n + 1
      BY <2>1, <2>3, WitnessFound
    <2>5. /\ AccessOf(sell, balance) = l2_vault_update_diff(sell, W[idx].balance)
          /\ AccessOf(buy, balance) = l2_vault_update_diff(buy, W[idx + 1].balance)
      BY <1>4, <1>5, <1>7, <1>9, Zenon
    <2>6. CASE fee_info = NoFee
      <3>1. accesses = <<AccessOf(sell, balance), AccessOf(buy, balance)>>
        BY <1>6, <1>9, <2>6
      <3> HIDE DEF sell, buy
      <3>2. /\ Len(accesses) = 2 /\ 1 \in 1 .. 2 /\ 2 \in 1 .. 2
            /\ accesses[1] = AccessOf(sell, balance) /\ accesses[2] = AccessOf(buy, balance)
            /\ j + 1 - 1 = j /\ j + 2 - 1 = j + 1
        BY <3>1
      <3>3. /\ q[j + 1] = SquashStep(q[j], AccessOf(sell, balance))
            /\ q[j + 2] = SquashStep(q[j + 1], AccessOf(buy, balance))
        BY <3>2 DEF SquashesThrough
      <3>4. q[j + 1] = r1.vaults
        BY <1>2, <2>4, <2>5, <3>3
      <3>5. q[j + 2] = r2.vaults
        BY <1>3, <2>3, <2>4, <2>5, <3>3, <3>4
      <3>6. r2 = after
        BY <2>1, <2>6
      <3>7. Len(after.vault_diffs) + 1 = idx + 2
        BY <1>3, <2>3, <2>4, <3>6
      <3> HIDE DEF n, step
      <3> QED
        BY <1>4, <1>9, <2>6, <3>2, <3>5, <3>6, <3>7 DEF w
    <2>7. CASE fee_info # NoFee
      <3>1. accesses = <<AccessOf(sell, balance), AccessOf(buy, balance),
                         AccessOf(source, balance), AccessOf(destination, balance)>>
        BY <1>6, <1>9, <2>7
      <3>2. PICK r3 \in Runs : Witnessed(r2, r3, source) /\ Witnessed(r3, after, destination)
        BY <2>1, <2>7
      <3>3. /\ Begins(W, r3.vault_diffs)
            /\ step(r3.vaults, destination, Len(r3.vault_diffs) + 1) = after.vaults
            /\ Len(after.vault_diffs) = Len(r3.vault_diffs) + 1
        BY <3>2, WitnessFound
      <3>4. /\ step(r2.vaults, source, Len(r2.vault_diffs) + 1) = r3.vaults
            /\ Len(r3.vault_diffs) = Len(r2.vault_diffs) + 1
        BY <3>2, <3>3, WitnessFound
      <3>5. /\ AccessOf(source, balance) = l2_vault_update_diff(source, W[idx + 2].balance)
            /\ AccessOf(destination, balance) = l2_vault_update_diff(destination, W[idx + 3].balance)
        BY <1>4, <1>5, <1>7, <1>9, <2>7, Zenon
      <3> HIDE DEF sell, buy, source, destination
      <3>6. /\ Len(accesses) = 4 /\ 1 \in 1 .. 4 /\ 2 \in 1 .. 4 /\ 3 \in 1 .. 4 /\ 4 \in 1 .. 4
            /\ accesses[1] = AccessOf(sell, balance) /\ accesses[2] = AccessOf(buy, balance)
            /\ accesses[3] = AccessOf(source, balance) /\ accesses[4] = AccessOf(destination, balance)
            /\ j + 1 - 1 = j /\ j + 2 - 1 = j + 1 /\ j + 3 - 1 = j + 2 /\ j + 4 - 1 = j + 3
        BY <3>1
      <3>7. /\ q[j + 1] = SquashStep(q[j], AccessOf(sell, balance))
            /\ q[j + 2] = SquashStep(q[j + 1], AccessOf(buy, balance))
            /\ q[j + 3] = SquashStep(q[j + 2], AccessOf(source, balance))
            /\ q[j + 4] = SquashStep(q[j + 3], AccessOf(destination, balance))
        BY <3>6 DEF SquashesThrough
      <3>8. q[j + 1] = r1.vaults
        BY <1>2, <2>4, <2>5, <3>7
      <3>9. q[j + 2] = r2.vaults
        BY <1>3, <2>3, <2>4, <2>5, <3>7, <3>8
      <3>10. q[j + 3] = r3.vaults
        BY <1>3, <2>3, <2>4, <3>4, <3>5, <3>7, <3>9
      <3>11. q[j + 4] = after.vaults
        BY <1>3, <2>3, <2>4, <3>3, <3>4, <3>5, <3>7, <3>10
      <3>12. Len(after.vault_diffs) + 1 = idx + 4
        BY <1>3, <2>3, <2>4, <3>3, <3>4
      <3> HIDE DEF n, step
      <3> QED
        BY <1>4, <1>9, <2>7, <3>6, <3>11, <3>12 DEF w
    <2> QED
      BY <2>6, <2>7
  <1> QED
    BY <1>8, <1>9

\* One sequence and then another, of whatever elements.
LEMMA ConcatOfTwo ==
  ASSUME NEW a, NEW b, \E S : a \in Seq(S), \E S : b \in Seq(S)
  PROVE  IsConcat(a \o b, a, b) /\ DOMAIN (a \o b) = 1 .. Len(a \o b)
PROOF
  <1>1. PICK S : a \in Seq(S)
    OBVIOUS
  <1>2. PICK T : b \in Seq(T)
    OBVIOUS
  <1>3. PICK q : q = a \o b
    OBVIOUS
  <1>4. a \in Seq(S \cup T) /\ b \in Seq(S \cup T)
    BY <1>1, <1>2
  <1>5. q \in Seq(S \cup T) /\ IsConcat(q, a, b)
    BY <1>3, <1>4, ConcatIs, Zenon
  <1>6. DOMAIN q = 1 .. Len(q)
    BY <1>5, LenProperties
  <1> QED
    BY <1>3, <1>5, <1>6, Zenon

\* Every settlement the batcher executed is one that the program accepts on L2.
LEMMA SettlementIsWitnessed ==
  ASSUME vault_dict \in Dicts, NEW s \in Settlements, Settles(s)
  PROVE  L2DictAfter(s) # Rejected
PROOF
  <1>0. PICK W : W = Batcher(SettlementChanges(s)).vault_diffs
    OBVIOUS
  <1> DEFINE oa == s.order["A"]
             ob == s.order["B"]
             sa == s.sold["A"]
             sb == s.sold["B"]
             fa == s.fee_info["A"]
             fb == s.fee_info["B"]
             wa == WitnessOf(oa, W, fa, 1)
             wb == WitnessOf(ob, W, fb, wa.next)
  <1>1. /\ IsFill(oa, sa, sb, fa) /\ IsFill(ob, sb, sa, fb)
        /\ other_party("A") = "B" /\ other_party("B") = "A"
    BY SettlementParties
  <1>2. PICK a, b : a = OrderChanges(oa, sa, sb, fa) /\ b = OrderChanges(ob, sb, sa, fb)
    OBVIOUS
  <1>3. PartyChanges(s, "A") = a /\ PartyChanges(s, "B") = b /\ SettlementChanges(s) = a \o b
    BY <1>1, <1>2, Zenon DEF SettlementChanges, PartyChanges
  <1>4. PICK x, y : x = Accesses(a, wa.balance) /\ y = Accesses(b, wb.balance)
    OBVIOUS
  <1>5. SettlementAccesses(s, W) = x \o y
    <2>1. SettlementAccesses(s, W) = Accesses(PartyChanges(s, "A"), wa.balance)
                                       \o Accesses(PartyChanges(s, "B"), wb.balance)
      BY DEF SettlementAccesses, WitnessOf
    <2> QED
      BY <1>3, <1>4, <2>1, Zenon
  <1>6. PICK changes, q : changes = a \o b /\ q = x \o y
    OBVIOUS
  <1>7. L2DictAfter(s) = squash_dict(vault_dict, q)
    BY <1>0, <1>5, <1>6, Zenon DEF L2DictAfter
  <1>8. Batcher(changes) # Rejected /\ W = Batcher(changes).vault_diffs
    BY <1>0, <1>3, <1>6 DEF Settles
  <1> HIDE DEF oa, ob, sa, sb, fa, fb, wa, wb
  <1>9. /\ Len(a) \in Nat /\ DOMAIN a = 1 .. Len(a) /\ \E S : a \in Seq(S)
        /\ \A i \in 1 .. Len(a) : ~ a[i].is_l1 => IsL2Change(a[i])
    BY <1>1, <1>2, OrderChangesType
  <1>10. /\ Len(b) \in Nat /\ DOMAIN b = 1 .. Len(b) /\ \E S : b \in Seq(S)
         /\ \A i \in 1 .. Len(b) : ~ b[i].is_l1 => IsL2Change(b[i])
    BY <1>1, <1>2, OrderChangesType
  <1>11. /\ Len(x) \in Nat /\ DOMAIN x = 1 .. Len(x) /\ \E S : x \in Seq(S)
         /\ \A i \in 1 .. Len(x) : IsAccess(x[i]) \/ x[i] = Rejected
    BY <1>1, <1>2, <1>4, OrderAccessesType
  <1>12. /\ Len(y) \in Nat /\ DOMAIN y = 1 .. Len(y) /\ \E S : y \in Seq(S)
         /\ \A i \in 1 .. Len(y) : IsAccess(y[i]) \/ y[i] = Rejected
    BY <1>1, <1>2, <1>4, OrderAccessesType
  <1>13. IsConcat(changes, a, b) /\ DOMAIN changes = 1 .. Len(changes)
    BY <1>6, <1>9, <1>10, ConcatOfTwo, Zenon
  <1>14. IsConcat(q, x, y) /\ DOMAIN q = 1 .. Len(q)
    BY <1>6, <1>11, <1>12, ConcatOfTwo, Zenon
  <1> DEFINE k == Len(a)
             m == Len(b)
             n == Len(changes)
             kx == Len(x)
             my == Len(y)
             nq == Len(q)
  <1>15. /\ k \in Nat /\ m \in Nat /\ n = k + m /\ n \in Nat
         /\ kx \in Nat /\ my \in Nat /\ nq = kx + my /\ nq \in Nat
    BY <1>9, <1>10, <1>11, <1>12, <1>13, <1>14 DEF IsConcat
  <1>16. /\ (\A i \in 1 .. k : changes[i] = a[i]) /\ \A i \in 1 .. m : changes[k + i] = b[i]
         /\ (\A i \in 1 .. kx : q[i] = x[i]) /\ \A i \in 1 .. my : q[kx + i] = y[i]
    BY <1>13, <1>14 DEF IsConcat
  <1> HIDE DEF k, m, n, kx, my, nq
  <1>17. \A i \in 1 .. n : ~ changes[i].is_l1 => IsL2Change(changes[i])
    <2> SUFFICES ASSUME NEW i \in 1 .. n PROVE ~ changes[i].is_l1 => IsL2Change(changes[i])
      OBVIOUS
    <2>1. i \in 1 .. k \/ (i - k \in 1 .. m /\ k + (i - k) = i)
      BY <1>15
    <2> QED
      BY <1>9, <1>10, <1>16, <2>1 DEF k, m
  <1>18. \A i \in 1 .. nq : IsAccess(q[i]) \/ q[i] = Rejected
    <2> SUFFICES ASSUME NEW i \in 1 .. nq PROVE IsAccess(q[i]) \/ q[i] = Rejected
      OBVIOUS
    <2>1. i \in 1 .. kx \/ (i - kx \in 1 .. my /\ kx + (i - kx) = i)
      BY <1>15
    <2> QED
      BY <1>11, <1>12, <1>16, <2>1 DEF kx, my
  <1>19. PICK run : IsRun(run, changes, n) /\ run[n] = Batcher(changes)
    BY <1>13, <1>15, <1>17, BatcherHasTrace DEF n
  <1>20. \A i \in 0 .. n : run[i] \in Runs /\ run[i] # Rejected
    BY <1>8, <1>15, <1>19, RunsGoOn
  <1>21. PICK tr : IsSquash(tr, vault_dict, q, nq) /\ tr[nq] = squash_dict(vault_dict, q)
    BY <1>14, <1>15, <1>18, SquashHasTrace DEF nq
  <1>22. /\ run[0] = [vaults |-> vault_dict, vault_diffs |-> <<>>]
         /\ \A i \in 1 .. n : run[i] = BatcherStep(run[i - 1], changes[i])
         /\ tr[0] = vault_dict
         /\ \A i \in 1 .. nq : tr[i] = SquashStep(tr[i - 1], q[i])
    BY <1>19, <1>21 DEF IsRun, IsSquash
  <1>23. run[0] \in Runs /\ run[k] \in Runs /\ run[n] \in Runs
    <2>1. 0 \in 0 .. n /\ k \in 0 .. n /\ n \in 0 .. n
      BY <1>15
    <2> QED
      BY <1>20, <2>1
  <1>24. OrderRuns(run[0], run[k], oa, sa, sb, fa)
    <2>1. RunsThrough(run, 0, a)
      <3> SUFFICES ASSUME NEW i \in 1 .. k PROVE run[0 + i] = BatcherStep(run[0 + i - 1], a[i])
        BY DEF RunsThrough, k
      <3>1. i \in 1 .. n /\ 0 + i = i /\ 0 + i - 1 = i - 1
        BY <1>15
      <3> QED
        BY <1>16, <1>22, <3>1
    <2>2. \A i \in 0 .. k : run[0 + i] \in Runs /\ run[0 + i] # Rejected
      <3> SUFFICES ASSUME NEW i \in 0 .. k PROVE run[0 + i] \in Runs /\ run[0 + i] # Rejected
        OBVIOUS
      <3>1. 0 + i \in 0 .. n
        BY <1>15
      <3> QED
        BY <1>20, <3>1
    <2>3. 0 + k = k /\ 0 \in Nat
      BY <1>15
    <2>4. OrderRuns(run[0], run[0 + Len(a)], oa, sa, sb, fa)
      BY <1>1, <1>2, <2>1, <2>2, <2>3, OrderRunsThrough DEF k
    <2> QED
      BY <2>3, <2>4 DEF k
  <1>25. OrderRuns(run[k], run[n], ob, sb, sa, fb)
    <2>1. RunsThrough(run, k, b)
      <3> SUFFICES ASSUME NEW i \in 1 .. m PROVE run[k + i] = BatcherStep(run[k + i - 1], b[i])
        BY DEF RunsThrough, m
      <3>1. k + i \in 1 .. n /\ (k + i) - 1 = k + i - 1
        BY <1>15
      <3>2. run[k + i] = BatcherStep(run[(k + i) - 1], changes[k + i])
        BY <1>22, <3>1
      <3>3. changes[k + i] = b[i]
        BY <1>16
      <3> QED
        BY <3>1, <3>2, <3>3
    <2>2. \A i \in 0 .. m : run[k + i] \in Runs /\ run[k + i] # Rejected
      <3> SUFFICES ASSUME NEW i \in 0 .. m PROVE run[k + i] \in Runs /\ run[k + i] # Rejected
        OBVIOUS
      <3>1. k + i \in 0 .. n
        BY <1>15
      <3> QED
        BY <1>20, <3>1
    <2>3. OrderRuns(run[k], run[k + Len(b)], ob, sb, sa, fb)
      BY <1>1, <1>2, <1>15, <2>1, <2>2, OrderRunsThrough DEF m
    <2> QED
      BY <1>15, <2>3 DEF m
  <1>26. Begins(W, run[n].vault_diffs) /\ Begins(W, run[k].vault_diffs)
    <2>1. Begins(W, run[n].vault_diffs)
      BY <1>8, <1>19 DEF Begins
    <2> QED
      BY <1>23, <1>25, <2>1, OrderKeepsRecord
  <1>27. tr[kx] = run[k].vaults /\ wa.next = Len(run[k].vault_diffs) + 1
    <2>1. 1 = Len(run[0].vault_diffs) + 1 /\ tr[0] = run[0].vaults
      BY <1>22
    <2>2. SquashesThrough(tr, 0, x)
      <3> SUFFICES ASSUME NEW i \in 1 .. kx PROVE tr[0 + i] = SquashStep(tr[0 + i - 1], x[i])
        BY DEF SquashesThrough, kx
      <3>1. i \in 1 .. nq /\ 0 + i = i /\ 0 + i - 1 = i - 1
        BY <1>15
      <3> QED
        BY <1>16, <1>22, <3>1
    <2>3. x = Accesses(OrderChanges(oa, sa, sb, fa), WitnessOf(oa, W, fa, 1).balance)
      BY <1>2, <1>4 DEF wa
    <2>4. tr[0 + Len(x)] = run[k].vaults
          /\ WitnessOf(oa, W, fa, 1).next = Len(run[k].vault_diffs) + 1
      <3>1. 0 \in Nat
        OBVIOUS
      <3>2. ProgramAt(run[0], run[k], oa, sa, sb, fa, W, 1, x, 0, tr)
        BY <1>1, <1>23, <1>24, <1>26, <2>1, <2>2, <2>3, <3>1 DEF ProgramAt
      <3> QED
        BY <3>2, OrderIsWitnessed
    <2>5. 0 + Len(x) = kx
      BY <1>11 DEF kx
    <2> QED
      BY <2>4, <2>5 DEF wa
  <1>28. tr[nq] = run[n].vaults
    <2>1. SquashesThrough(tr, kx, y)
      <3> SUFFICES ASSUME NEW i \in 1 .. my PROVE tr[kx + i] = SquashStep(tr[kx + i - 1], y[i])
        BY DEF SquashesThrough, my
      <3>1. kx + i \in 1 .. nq /\ (kx + i) - 1 = kx + i - 1
        BY <1>15
      <3>2. tr[kx + i] = SquashStep(tr[(kx + i) - 1], q[kx + i])
        BY <1>22, <3>1
      <3>3. q[kx + i] = y[i]
        BY <1>16
      <3> QED
        BY <3>1, <3>2, <3>3
    <2>2. y = Accesses(OrderChanges(ob, sb, sa, fb), WitnessOf(ob, W, fb, wa.next).balance)
      BY <1>2, <1>4 DEF wb
    <2>3. tr[kx + Len(y)] = run[n].vaults
      <3>1. ProgramAt(run[k], run[n], ob, sb, sa, fb, W, wa.next, y, kx, tr)
        BY <1>1, <1>15, <1>23, <1>25, <1>26, <1>27, <2>1, <2>2 DEF ProgramAt
      <3> QED
        BY <3>1, OrderIsWitnessed
    <2> QED
      BY <1>15, <2>3 DEF my
  <1>29. run[n].vaults \in Dicts
    BY <1>23 DEF Runs
  <1>30. Rejected \notin Dicts
    BY RejectedAssumption DEF Dicts
  <1> QED
    BY <1>7, <1>21, <1>28, <1>29, <1>30

\* settlement_hint_functions.py:18-29: in no reachable state is there a settlement that
\* the batcher can execute and the program can not, for what the hints picked.
THEOREM SettlementsAreProvable == Spec => []EverySettlementIsProvable
PROOF
  <1>1. DexInv => EverySettlementIsProvable
    <2> SUFFICES ASSUME DexInv, NEW s \in Settlements, Settles(s),
                        \A key \in DOMAIN L1DictAfter(s) :
                          InRange(L1DictAfter(s)[key].highest - L1DictAfter(s)[key].lowest)
                 PROVE  /\ L2DictAfter(s) # Rejected
                        /\ L1BalancesInRange(L1DictAfter(s), L1HintAfter(s))
      BY DEF EverySettlementIsProvable
    <2>1. DexTypes /\ Agree(l1_vault_dict, l1_vaults_balances)
      BY DEF DexInv
    <2>2. L2DictAfter(s) # Rejected
      BY <2>1, SettlementIsWitnessed DEF DexTypes
    <2>3. /\ L1DictAfter(s) \in PartialOn(L1Vaults, L1Moves)
          /\ Agree(L1DictAfter(s), L1HintAfter(s))
      BY <2>1, SettlementOnL1 DEF DexTypes
    <2>4. ASSUME NEW key \in DOMAIN L1DictAfter(s)
          PROVE  /\ InRange(-L1HintAfter(s)[key].min_balance)
                 /\ InRange(-L1HintAfter(s)[key].min_balance + L1DictAfter(s)[key].lowest)
                 /\ InRange(-L1HintAfter(s)[key].min_balance + L1DictAfter(s)[key].highest)
      <3>1. L1DictAfter(s)[key] \in L1Moves
        BY <2>3, PartialType
      <3>2. PICK lowest \in Int, highest \in Int :
              lowest = L1DictAfter(s)[key].lowest /\ highest = L1DictAfter(s)[key].highest
        BY <3>1 DEF L1Moves
      <3>3. L1HintAfter(s)[key].min_balance = lowest /\ lowest <= 0 /\ highest >= 0
        BY <2>3, <3>2 DEF Agree
      <3>4. InRange(highest - lowest)
        BY <3>2
      <3>5. InRange(-lowest) /\ InRange(-lowest + lowest) /\ InRange(-lowest + highest)
        BY <3>3, <3>4, DexAssumption DEF InRange
      <3> QED
        BY <3>2, <3>3, <3>5
    <2>5. L1BalancesInRange(L1DictAfter(s), L1HintAfter(s))
      BY <2>4 DEF L1BalancesInRange
    <2> QED
      BY <2>2, <2>5
  <1> QED
    BY <1>1, DexInvariant, PTL

-----------------------------------------------------------------------------
(* What a batch publishes.                                                 *)

\* A sequence of a set, each of whose elements it has.
Lists(seq, S, n) ==
  /\ seq \in [1 .. n -> S] /\ Len(seq) = n /\ n \in Nat
  /\ \A x \in S : \E i \in 1 .. n : seq[i] = x

\* Sorted(S) is one.
LEMMA SortedLists ==
  ASSUME NEW S \in SUBSET Nat, IsFiniteSet(S)
  PROVE  Lists(Sorted(S), S, Cardinality(S))
PROOF
  <1> DEFINE n == Cardinality(S)
             seq == Sorted(S)
  <1>1. n \in Nat
    BY FS_CardinalityType
  <1>2. PICK q : Ascends(q, S, n)
    BY SetsCanBeSorted
  <1>3. /\ q \in [1 .. n -> S]
        /\ \A i, j \in DOMAIN q : i < j => q[i] < q[j]
    BY <1>2 DEF Ascends
  <1> HIDE DEF n
  <1>4. /\ seq \in [1 .. n -> S]
        /\ \A i, j \in DOMAIN seq : i < j => seq[i] < seq[j]
    <2>1. seq = CHOOSE r \in [1 .. n -> S] : \A i, j \in DOMAIN r : i < j => r[i] < r[j]
      BY DEF n, Sorted
    <2> HIDE DEF seq
    <2> QED
      BY <1>3, <2>1
  <1> HIDE DEF seq
  <1>5. ASSUME NEW i \in 1 .. n, NEW j \in 1 .. n, seq[i] = seq[j] PROVE i = j
    <2>1. seq[i] \in Nat /\ seq[j] \in Nat /\ DOMAIN seq = 1 .. n
      BY <1>4
    <2>2. ~ (i < j) /\ ~ (j < i)
      BY <1>4, <1>5, <2>1
    <2> QED
      BY <1>1, <2>2
  <1>6. seq \in Injection(1 .. n, S)
    BY <1>4, <1>5 DEF Injection, IsInjective
  <1>7. Cardinality(1 .. n) = n
    <2>1. 1 \in Int /\ n \in Int
      BY <1>1
    <2>2. Cardinality(1 .. n) = IF 1 > n THEN 0 ELSE n - 1 + 1
      BY <2>1, FS_Interval
    <2> QED
      BY <1>1, <2>2
  <1>8. seq \in Surjection(1 .. n, S)
    BY <1>6, <1>7, FS_Injection DEF n
  <1>9. \A x \in S : \E i \in 1 .. n : seq[i] = x
    BY <1>8 DEF Surjection
  <1>10. Len(seq) = n
    BY <1>1, <1>4
  <1> QED
    BY <1>1, <1>4, <1>9, <1>10 DEF Lists, n, seq

\* The index of a value in its table, and what is there.
LEMMA IndexFound ==
  ASSUME NEW table, NEW S, NEW n, Lists(table, S, n), NEW x \in S
  PROVE  IndexIn(table, x) \in 0 .. n - 1 /\ table[IndexIn(table, x) + 1] = x
PROOF
  <1>1. PICK i \in 1 .. n : table[i] = x
    BY DEF Lists
  <1>2. n \in Nat /\ Len(table) = n
    BY DEF Lists
  <1>3. i - 1 \in 0 .. Len(table) - 1 /\ table[(i - 1) + 1] = x
    BY <1>1, <1>2
  <1>4. /\ IndexIn(table, x) \in 0 .. Len(table) - 1
        /\ table[IndexIn(table, x) + 1] = x
    BY <1>3 DEF IndexIn
  <1> QED
    BY <1>2, <1>4

-----------------------------------------------------------------------------
(* Publishing and reading.                                                 *)

Rollup == [RollupVaults -> Vault]

\* The state at the end of a batch, whose tables are not too long.
CanPublish ==
  /\ vault_dict \in Dicts
  /\ Len(key_table) < ONCHAIN_DATA_KEY_INDEX_BOUND
  /\ Len(token_table) < ONCHAIN_DATA_TOKEN_INDEX_BOUND

Keys == {vault_dict[v].stark_key : v \in FullUpdates}
Tokens == {vault_dict[v].token_id : v \in FullUpdates}

\* The vaults that changed, and their keys and tokens, are listed.
LEMMA TablesList ==
  ASSUME vault_dict \in Dicts
  PROVE  /\ Lists(Sorted(FullUpdates), FullUpdates, Cardinality(FullUpdates))
         /\ Lists(key_table, Keys, Cardinality(Keys))
         /\ Lists(token_table, Tokens, Cardinality(Tokens))
PROOF
  <1>1. /\ FullUpdates \in SUBSET Nat /\ FullUpdates \subseteq VaultIds
        /\ IsFiniteSet(FullUpdates)
    <2>1. FullUpdates \subseteq VaultIds /\ VaultIds \subseteq Nat
      BY DexAssumption DEF FullUpdates
    <2> QED
      BY <2>1, RequestsAssumption, FS_Subset
  <1>2. \A v \in FullUpdates : vault_dict[v].stark_key \in Nat /\ vault_dict[v].token_id \in Nat
    BY <1>1, VaultFields DEF Dicts
  <1>3. Keys \in SUBSET Nat /\ Tokens \in SUBSET Nat
    BY <1>2 DEF Keys, Tokens
  <1>4. IsFiniteSet(Keys)
    <2> DEFINE f == [v \in FullUpdates |-> vault_dict[v].stark_key]
    <2>1. f \in Surjection(FullUpdates, Keys)
      BY DEF Surjection, Keys
    <2> HIDE DEF f
    <2> QED
      BY <1>1, <2>1, FS_Surjection
  <1>5. IsFiniteSet(Tokens)
    <2> DEFINE f == [v \in FullUpdates |-> vault_dict[v].token_id]
    <2>1. f \in Surjection(FullUpdates, Tokens)
      BY DEF Surjection, Tokens
    <2> HIDE DEF f
    <2> QED
      BY <1>1, <2>1, FS_Surjection
  <1>6. key_table = Sorted(Keys) /\ token_table = Sorted(Tokens)
    BY DEF key_table, token_table, Keys, Tokens
  <1> QED
    BY <1>1, <1>3, <1>4, <1>5, <1>6, SortedLists

\* A reader finds in a published change the vault as it is.
LEMMA ChangeIsRead ==
  ASSUME CanPublish, NEW v \in FullUpdates
  PROVE  /\ get_vault_change_encoding(v) \in 0 .. VAULT_CHANGE_SHIFT - 1
         /\ VAULT_CHANGE_SHIFT \in Nat \ {0}
         /\ \A d \in Rollup :
              ReadChange(d, get_vault_change_encoding(v), key_table, token_table)
                = [d EXCEPT ![v] = vault_dict[v]]
PROOF
  <1> DEFINE V == ONCHAIN_DATA_VAULT_ID_BOUND
             B == BALANCE_BOUND
             K == ONCHAIN_DATA_KEY_INDEX_BOUND
             T == ONCHAIN_DATA_TOKEN_INDEX_BOUND
             vault == vault_dict[v]
             k == IndexIn(key_table, vault.stark_key)
             t == IndexIn(token_table, vault.token_id)
             above == v * B + vault.balance
             rest == above * K + k
             change == rest * T + t
  <1>1. /\ vault \in Vault /\ v \in RollupVaults /\ v \in 0 .. V - 1
        /\ vault.balance \in 0 .. B - 1
        /\ vault.stark_key \in Keys /\ vault.token_id \in Tokens
    <2>1. v \in RollupVaults /\ v \in VaultIds
      BY DexAssumption DEF FullUpdates
    <2>2. vault \in Vault
      BY <2>1 DEF CanPublish, Dicts
    <2> QED
      BY <2>1, <2>2, VaultFields, VolitionAssumption DEF Keys, Tokens
  <1>2. /\ V \in Nat \ {0} /\ B \in Nat \ {0} /\ K \in Nat \ {0} /\ T \in Nat \ {0}
    BY DexAssumption, VolitionAssumption
  <1>3. k \in 0 .. K - 1 /\ key_table[k + 1] = vault.stark_key
    <2> DEFINE n == Cardinality(Keys)
    <2>1. Lists(key_table, Keys, n)
      BY TablesList DEF CanPublish
    <2> HIDE DEF n, vault
    <2>2. k \in 0 .. n - 1 /\ key_table[k + 1] = vault.stark_key
      BY <1>1, <2>1, IndexFound
    <2>3. n \in Nat /\ n < K
      BY <2>1 DEF Lists, CanPublish
    <2> HIDE DEF k, K
    <2> QED
      BY <1>2, <2>2, <2>3
  <1>4. t \in 0 .. T - 1 /\ token_table[t + 1] = vault.token_id
    <2> DEFINE n == Cardinality(Tokens)
    <2>1. Lists(token_table, Tokens, n)
      BY TablesList DEF CanPublish
    <2> HIDE DEF n, vault
    <2>2. t \in 0 .. n - 1 /\ token_table[t + 1] = vault.token_id
      BY <1>1, <2>1, IndexFound
    <2>3. n \in Nat /\ n < T
      BY <2>1 DEF Lists, CanPublish
    <2> HIDE DEF t, T
    <2> QED
      BY <1>2, <2>2, <2>3
  <1>5. get_vault_change_encoding(v) = change
    BY DEF get_vault_change_encoding
  <1>6. VAULT_CHANGE_SHIFT = ((V * B) * K) * T
    BY DEF VAULT_CHANGE_SHIFT
  <1> HIDE DEF V, B, K, T, k, t
  <1>7. above \in 0 .. V * B - 1 /\ V * B \in Nat \ {0}
    <2>1. vault.balance \in 0 .. B - 1
      BY <1>1
    <2> HIDE DEF vault
    <2> QED
      BY <1>1, <1>2, <2>1, RoomOfTwo
  <1>8. above \div B = v /\ above % B = vault.balance
    <2>1. vault.balance \in 0 .. B - 1 /\ v \in Int
      BY <1>1
    <2> HIDE DEF vault
    <2> QED
      BY <1>2, <2>1, LowPart, HighPart
  <1> HIDE DEF above
  <1>9. rest \in 0 .. (V * B) * K - 1 /\ (V * B) * K \in Nat \ {0}
    BY <1>2, <1>3, <1>7, RoomOfTwo
  <1>10. rest \div K = above /\ rest % K = k
    <2>1. above \in Int
      BY <1>7
    <2> QED
      BY <1>2, <1>3, <2>1, LowPart, HighPart
  <1> HIDE DEF rest
  <1>11. change \in 0 .. ((V * B) * K) * T - 1 /\ ((V * B) * K) * T \in Nat \ {0}
    BY <1>2, <1>4, <1>9, RoomOfTwo
  <1>12. change \div T = rest /\ change % T = t
    <2>1. rest \in Int
      BY <1>9
    <2> QED
      BY <1>2, <1>4, <2>1, LowPart, HighPart
  <1> HIDE DEF change
  <1>13. vault = [stark_key |-> key_table[k + 1], token_id |-> token_table[t + 1],
                  balance |-> vault.balance]
    <2> HIDE DEF vault
    <2> QED
      BY <1>1, <1>3, <1>4, VaultFields
  <1>14. ASSUME NEW d \in Rollup
         PROVE  ReadChange(d, change, key_table, token_table) = [d EXCEPT ![v] = vault]
    <2> HIDE DEF vault
    <2> QED
      BY <1>8, <1>10, <1>12, <1>13 DEF ReadChange, B, K, T
  <1> QED
    BY <1>5, <1>6, <1>11, <1>14

\* And in a word the two vaults of its changes.
LEMMA WordIsRead ==
  ASSUME CanPublish, NEW u \in FullUpdates, NEW v \in FullUpdates, NEW d \in Rollup
  PROVE  ReadWord(d, get_vault_change_encoding(u) * VAULT_CHANGE_SHIFT
                       + get_vault_change_encoding(v))
           = [[d EXCEPT ![u] = vault_dict[u]] EXCEPT ![v] = vault_dict[v]]
PROOF
  <1> DEFINE S == VAULT_CHANGE_SHIFT
             x == get_vault_change_encoding(u)
             y == get_vault_change_encoding(v)
             word == x * S + y
             between == [d EXCEPT ![u] = vault_dict[u]]
  <1>1. x \in Int /\ y \in 0 .. S - 1 /\ S \in Nat \ {0}
    BY ChangeIsRead
  <1>2. word \div S = x /\ word % S = y
    <2> HIDE DEF x, y, S
    <2> QED
      BY <1>1, LowPart, HighPart
  <1>3. u \in VaultIds /\ vault_dict[u] \in Vault
    BY DexAssumption DEF FullUpdates, CanPublish, Dicts
  <1>4. between \in Rollup
    BY <1>3 DEF Rollup
  <1>5. ReadChange(d, x, key_table, token_table) = between
    BY ChangeIsRead
  <1>6. ReadChange(between, y, key_table, token_table) = [between EXCEPT ![v] = vault_dict[v]]
    <2> HIDE DEF between
    <2> QED
      BY <1>4, ChangeIsRead
  <1> HIDE DEF x, y, word, between
  <1>7. ReadWord(d, word) = [between EXCEPT ![v] = vault_dict[v]]
    BY <1>2, <1>5, <1>6 DEF ReadWord, S
  <1> QED
    BY <1>7 DEF x, y, word, between, S

\* The words of n changes.
WordCount(n) == (n + 1) \div 2
SecondOf(w, n) == IF 2 * w <= n THEN 2 * w ELSE n

\* Every change is in a word.
LEMMA WordsOfChanges ==
  ASSUME NEW n \in Nat
  PROVE  /\ WordCount(n) \in Nat
         /\ n <= 2 * WordCount(n)
         /\ \A w \in 1 .. WordCount(n) :
              2 * w - 1 \in 1 .. n /\ SecondOf(w, n) \in 1 .. n /\ 2 * w \in Int
BY DEF WordCount, SecondOf

\* The words as they are published.
LEMMA PublishedWords ==
  ASSUME CanPublish, NEW changes, NEW n, changes = Sorted(FullUpdates), Lists(changes, FullUpdates, n)
  PROVE  /\ DOMAIN VolitionWords = 1 .. WordCount(n)
         /\ \A w \in 1 .. WordCount(n) :
              VolitionWords[w] = get_vault_change_encoding(changes[2 * w - 1]) * VAULT_CHANGE_SHIFT
                                   + get_vault_change_encoding(changes[SecondOf(w, n)])
PROOF
  <1> DEFINE Encoding(i) == get_vault_change_encoding(changes[Min({i, n})])
  <1>1. n \in Nat /\ Len(changes) = n
    BY DEF Lists
  <1>2. VolitionWords = [w \in 1 .. WordCount(n) |->
                           Encoding(2 * w - 1) * VAULT_CHANGE_SHIFT + Encoding(2 * w)]
    BY <1>1 DEF VolitionWords, WordCount
  <1>3. ASSUME NEW w \in 1 .. WordCount(n)
        PROVE  Min({2 * w - 1, n}) = 2 * w - 1 /\ Min({2 * w, n}) = SecondOf(w, n)
    <2>1. 2 * w - 1 \in 1 .. n /\ 2 * w \in Int /\ n \in Int
      BY <1>1, WordsOfChanges
    <2>2. /\ Min({2 * w - 1, n}) = IF 2 * w - 1 <= n THEN 2 * w - 1 ELSE n
          /\ Min({2 * w, n}) = IF 2 * w <= n THEN 2 * w ELSE n
      BY <2>1, MinOfTwo
    <2> QED
      BY <2>1, <2>2 DEF SecondOf
  <1> QED
    BY <1>2, <1>3

\* A reader of all words finds every vault that changed.
LEMMA WordsAreRead ==
  ASSUME CanPublish, onchain_vaults \in Rollup
  PROVE  \E last \in Rollup :
           /\ FoldLeft(ReadWord, onchain_vaults, VolitionWords) = last
           /\ \A v \in RollupVaults :
                last[v] = IF v \in FullUpdates THEN vault_dict[v] ELSE onchain_vaults[v]
PROOF
  <1> DEFINE changes == Sorted(FullUpdates)
             n == Cardinality(FullUpdates)
             m == WordCount(n)
             words == VolitionWords
             first(w) == changes[2 * w - 1]
             second(w) == changes[SecondOf(w, n)]
             step == [w \in 1 .. m |-> [d \in Rollup |-> ReadWord(d, words[w])]]
  <1>1. Lists(changes, FullUpdates, n)
    BY TablesList DEF CanPublish
  <1>2. n \in Nat
    BY <1>1 DEF Lists
  <1>3. /\ DOMAIN words = 1 .. m
        /\ \A w \in 1 .. m :
             words[w] = get_vault_change_encoding(first(w)) * VAULT_CHANGE_SHIFT
                          + get_vault_change_encoding(second(w))
    BY <1>1, PublishedWords
  <1>4. /\ m \in Nat /\ n <= 2 * m
        /\ \A w \in 1 .. m : 2 * w - 1 \in 1 .. n /\ SecondOf(w, n) \in 1 .. n
    BY <1>2, WordsOfChanges
  <1> HIDE DEF changes, n, m, words
  <1>5. \A w \in 1 .. m : first(w) \in FullUpdates /\ second(w) \in FullUpdates
    BY <1>1, <1>4 DEF Lists
  <1>6. ASSUME NEW w \in 1 .. m, NEW d \in Rollup
        PROVE  /\ ReadWord(d, words[w]) = [[d EXCEPT ![first(w)] = vault_dict[first(w)]]
                                             EXCEPT ![second(w)] = vault_dict[second(w)]]
               /\ ReadWord(d, words[w]) \in Rollup
    <2>1. first(w) \in FullUpdates /\ second(w) \in FullUpdates
      BY <1>5
    <2>2. ReadWord(d, words[w]) = [[d EXCEPT ![first(w)] = vault_dict[first(w)]]
                                     EXCEPT ![second(w)] = vault_dict[second(w)]]
      <3>1. words[w] = get_vault_change_encoding(first(w)) * VAULT_CHANGE_SHIFT
                         + get_vault_change_encoding(second(w))
        BY <1>3
      <3>2. PICK u : u = first(w)
        OBVIOUS
      <3>3. PICK v : v = second(w)
        OBVIOUS
      <3>4. /\ u \in FullUpdates /\ v \in FullUpdates
            /\ words[w] = get_vault_change_encoding(u) * VAULT_CHANGE_SHIFT
                           + get_vault_change_encoding(v)
        BY <2>1, <3>1, <3>2, <3>3, Zenon
      <3> HIDE <3>2, <3>3
      <3>5. ReadWord(d, words[w]) = [[d EXCEPT ![u] = vault_dict[u]] EXCEPT ![v] = vault_dict[v]]
        <4>1. ReadWord(d, get_vault_change_encoding(u) * VAULT_CHANGE_SHIFT
                            + get_vault_change_encoding(v))
                = [[d EXCEPT ![u] = vault_dict[u]] EXCEPT ![v] = vault_dict[v]]
          BY <3>4, WordIsRead
        <4> QED
          BY <3>4, <4>1, Zenon
      <3> QED
        BY <3>2, <3>3, <3>5, Zenon
    <2>3. vault_dict[first(w)] \in Vault /\ vault_dict[second(w)] \in Vault
      BY <2>1, DexAssumption DEF CanPublish, Dicts, FullUpdates
    <2> HIDE DEF first, second
    <2> QED
      BY <2>2, <2>3 DEF Rollup
  <1>7. step \in [1 .. m -> [Rollup -> Rollup]]
    <2> HIDE DEF Rollup
    <2> QED
      BY <1>6
  <1> DEFINE IsTable(g) ==
               g = [T \in SUBSET DOMAIN words |->
                      IF T = {} THEN onchain_vaults
                      ELSE ReadWord(g[T \ {Max(T)}], words[Max(T)])]
             h == CHOOSE g : IsTable(g)
  <1>8. FoldLeft(ReadWord, onchain_vaults, VolitionWords) = h[DOMAIN words]
    BY DEF FoldLeft, MapThenFoldSet, words
  <1>9. PICK g \in [SUBSET (1 .. m) -> Rollup] : IsFold(g, onchain_vaults, step, m)
    <2> HIDE DEF Rollup, step
    <2> QED
      BY <1>4, <1>7, FoldTableExists
  <1>10. \A T \in SUBSET (1 .. m) : T # {} => Max(T) \in 1 .. m /\ T \ {Max(T)} \in SUBSET (1 .. m)
    BY <1>4, MaxIsIndex
  <1>11. IsTable(g)
    <2>1. ASSUME NEW T \in SUBSET (1 .. m)
          PROVE  g[T] = IF T = {} THEN onchain_vaults
                        ELSE ReadWord(g[T \ {Max(T)}], words[Max(T)])
      <3> HIDE DEF Rollup
      <3> QED
        BY <1>9, <1>10 DEF IsFold
    <2> QED
      BY <1>3, <2>1
  <1>12. IsTable(h)
    <2> HIDE DEF IsTable
    <2> QED
      BY <1>11
  <1>13. h[{}] = onchain_vaults
    BY <1>12
  <1>14. ASSUME NEW T \in SUBSET (1 .. m), T # {}, h[T \ {Max(T)}] \in Rollup
         PROVE  h[T] = step[Max(T)][h[T \ {Max(T)}]]
    <2>1. h[T] = ReadWord(h[T \ {Max(T)}], words[Max(T)])
      <3> HIDE DEF Rollup, h, step
      <3> QED
        BY <1>3, <1>12, <1>14
    <2>2. Max(T) \in 1 .. m
      BY <1>10, <1>14
    <2> HIDE DEF Rollup, h, IsTable
    <2>3. step[Max(T)][h[T \ {Max(T)}]] = ReadWord(h[T \ {Max(T)}], words[Max(T)])
      BY <1>14, <2>2
    <2> HIDE DEF step
    <2> QED
      BY <2>1, <2>3
  <1>15. PICK tr \in [0 .. m -> Rollup] : IsTrace(tr, onchain_vaults, step, m) /\ tr[m] = h[1 .. m]
    <2> HIDE DEF Rollup, step, h
    <2>1. Follows(h, Rollup, onchain_vaults, step, m)
      BY <1>13, <1>14 DEF Follows
    <2>2. CanStep(h, Rollup, onchain_vaults, step, m)
      BY <1>4, <1>7, <2>1 DEF CanStep
    <2>3. HasTrace(h, Rollup, onchain_vaults, step, m)
      BY <2>2, FoldIsTraced, Zenon
    <2> QED
      BY <2>3 DEF HasTrace
  <1> HIDE DEF h, IsTable
  <1>16. ASSUME NEW w \in 1 .. m
         PROVE  /\ tr[w - 1] \in Rollup
                /\ tr[w] = [[tr[w - 1] EXCEPT ![first(w)] = vault_dict[first(w)]]
                              EXCEPT ![second(w)] = vault_dict[second(w)]]
    <2>1. w - 1 \in 0 .. m /\ tr[w - 1] \in Rollup
      BY <1>4, <1>15
    <2>2. tr[w] = ReadWord(tr[w - 1], words[w])
      <3> HIDE DEF Rollup
      <3> QED
        BY <1>15, <2>1 DEF IsTrace
    <2> HIDE DEF first, second
    <2> QED
      BY <1>6, <2>1, <2>2
  <1> DEFINE Good == {w \in Nat : w <= m =>
                        /\ \A j \in 1 .. n : j <= 2 * w => tr[w][changes[j]] = vault_dict[changes[j]]
                        /\ \A v \in RollupVaults \ FullUpdates : tr[w][v] = onchain_vaults[v]}
  <1>17. 0 \in Good
    BY <1>15 DEF IsTrace
  <1>18. ASSUME NEW w \in Nat, w \in Good PROVE w + 1 \in Good
    <2> SUFFICES ASSUME w + 1 <= m
                 PROVE  /\ \A j \in 1 .. n : j <= 2 * (w + 1) =>
                              tr[w + 1][changes[j]] = vault_dict[changes[j]]
                        /\ \A v \in RollupVaults \ FullUpdates : tr[w + 1][v] = onchain_vaults[v]
      OBVIOUS
    <2> DEFINE a == first(w + 1)
               b == second(w + 1)
               old == tr[w]
               new == tr[w + 1]
    <2>1. w + 1 \in 1 .. m /\ (w + 1) - 1 = w
      BY <1>4
    <2>2. old \in Rollup /\ new = [[old EXCEPT ![a] = vault_dict[a]] EXCEPT ![b] = vault_dict[b]]
      <3>1. /\ tr[(w + 1) - 1] \in Rollup
            /\ tr[w + 1] = [[tr[(w + 1) - 1] EXCEPT ![a] = vault_dict[a]]
                              EXCEPT ![b] = vault_dict[b]]
        BY <1>16, <2>1, Zenon
      <3> QED
        BY <2>1, <3>1
    <2>3. a \in FullUpdates /\ b \in FullUpdates
      BY <1>5, <2>1
    <2>4. /\ \A j \in 1 .. n : j <= 2 * w => old[changes[j]] = vault_dict[changes[j]]
          /\ \A v \in RollupVaults \ FullUpdates : old[v] = onchain_vaults[v]
      <3>1. w <= m
        BY <1>4
      <3> QED
        BY <1>18, <3>1
    <2>5. \A j \in 1 .. n : changes[j] \in RollupVaults
      BY <1>1 DEF Lists, FullUpdates
    <2>6. a = changes[2 * w + 1] /\ b = changes[SecondOf(w + 1, n)]
      BY <2>1
    <2>7. \A j \in 1 .. n : j <= 2 * (w + 1) => \/ j <= 2 * w
                                                 \/ j = 2 * w + 1
                                                 \/ j = SecondOf(w + 1, n)
      BY <1>2 DEF SecondOf
    <2> HIDE DEF a, b, old, new
    <2>8. \A v \in RollupVaults : new[v] = IF v \in {a, b} THEN vault_dict[v] ELSE old[v]
      BY <2>2 DEF Rollup
    <2>9. ASSUME NEW j \in 1 .. n, j <= 2 * (w + 1) PROVE new[changes[j]] = vault_dict[changes[j]]
      <3>1. CASE j <= 2 * w
        BY <2>4, <2>5, <2>8, <3>1
      <3>2. CASE j = 2 * w + 1
        BY <2>5, <2>6, <2>8, <3>2
      <3>3. CASE j = SecondOf(w + 1, n)
        BY <2>5, <2>6, <2>8, <3>3
      <3> QED
        BY <2>7, <2>9, <3>1, <3>2, <3>3
    <2>10. \A v \in RollupVaults \ FullUpdates : new[v] = onchain_vaults[v]
      BY <2>3, <2>4, <2>8
    <2> QED
      BY <2>9, <2>10 DEF new
  <1> HIDE DEF Good
  <1>19. m \in Good
    BY <1>4, <1>17, <1>18, NaturalInduction
  <1> DEFINE last == tr[m]
  <1>20. /\ \A j \in 1 .. n : last[changes[j]] = vault_dict[changes[j]]
         /\ \A v \in RollupVaults \ FullUpdates : last[v] = onchain_vaults[v]
    <2>1. \A j \in 1 .. n : j <= 2 * m
      BY <1>2, <1>4
    <2> QED
      BY <1>4, <1>19, <2>1 DEF Good
  <1>21. last \in Rollup
    <2>1. m \in 0 .. m
      BY <1>4
    <2> QED
      BY <1>15, <2>1
  <1>22. FoldLeft(ReadWord, onchain_vaults, VolitionWords) = last
    BY <1>3, <1>8, <1>15
  <1> HIDE DEF last
  <1>23. ASSUME NEW v \in RollupVaults
         PROVE  last[v] = IF v \in FullUpdates THEN vault_dict[v] ELSE onchain_vaults[v]
    <2>1. CASE v \in FullUpdates
      <3>1. PICK j \in 1 .. n : changes[j] = v
        BY <1>1, <2>1 DEF Lists
      <3> QED
        BY <1>20, <2>1, <3>1
    <2>2. CASE v \notin FullUpdates
      BY <1>20, <2>2
    <2> QED
      BY <2>1, <2>2
  <1> QED
    BY <1>21, <1>22, <1>23

-----------------------------------------------------------------------------
(* What the reader of all batches has.                                     *)

\* The invariant of the published data.
Published ==
  /\ PublishedDataRestoresRollup
  /\ initial_vault_dict \in Dicts

\* The end of a batch publishes what changed in it.
LEMMA EndBatchPublishes ==
  ASSUME Published, vault_dict \in Dicts, EndBatch
  PROVE  Published'
PROOF
  <1>1. CanPublish
    BY DEF CanPublish, EndBatch
  <1>2. RollupVaults \subseteq VaultIds
    BY DexAssumption
  <1>3. onchain_vaults = [v \in RollupVaults |-> initial_vault_dict[v]]
    BY DEF Published, PublishedDataRestoresRollup
  <1>4. onchain_vaults \in Rollup
    BY <1>2, <1>3 DEF Published, Dicts, Rollup
  <1>5. PICK last \in Rollup :
          /\ FoldLeft(ReadWord, onchain_vaults, VolitionWords) = last
          /\ \A v \in RollupVaults :
               last[v] = IF v \in FullUpdates THEN vault_dict[v] ELSE onchain_vaults[v]
    BY <1>1, <1>4, WordsAreRead
  <1>6. onchain_vaults' = last /\ initial_vault_dict' = vault_dict
    BY <1>5 DEF EndBatch
  <1>7. ASSUME NEW v \in RollupVaults, v \notin FullUpdates
        PROVE  onchain_vaults[v] = vault_dict[v]
    <2>1. initial_vault_dict[v] \in Vault /\ vault_dict[v] \in Vault
      BY <1>2 DEF Published, Dicts
    <2>2. /\ vault_dict[v].balance = initial_vault_dict[v].balance
          /\ vault_dict[v].stark_key = initial_vault_dict[v].stark_key
          /\ vault_dict[v].token_id = initial_vault_dict[v].token_id
      BY <1>7 DEF FullUpdates
    <2>3. initial_vault_dict[v] = vault_dict[v]
      BY <2>1, <2>2, VaultFields
    <2> QED
      BY <1>3, <2>3
  <1>8. \A v \in RollupVaults : last[v] = vault_dict[v]
    BY <1>5, <1>7
  <1>9. last = [v \in RollupVaults |-> vault_dict[v]]
    BY <1>8 DEF Rollup
  <1> QED
    BY <1>6, <1>9 DEF Published, PublishedDataRestoresRollup

\* No other step publishes, or changes what the batch started from.
LEMMA OthersPublishNothing ==
  ASSUME [Next]_vars, ~ EndBatch
  PROVE  onchain_vaults' = onchain_vaults /\ initial_vault_dict' = initial_vault_dict
PROOF
  <1> DEFINE Same == onchain_vaults' = onchain_vaults /\ initial_vault_dict' = initial_vault_dict
  <1>1. ASSUME NEW s \in Settlements, execute_settlement(s) PROVE Same
    BY <1>1 DEF execute_settlement, contract
  <1>2. ASSUME NEW x \in Transfers, NEW fee_info \in FeeInfos \cup {NoFee},
               execute_transfer(x, fee_info)
        PROVE  Same
    BY <1>2 DEF execute_transfer, contract
  <1>3. \A v, k, t, b, is_full : execute_modification(v, k, t, b, is_full) => Same
    BY DEF execute_modification, CanModify, VaultsModified, Output, Modification
  <1>4. ASSUME NEW request \in requests, AnswerOfOwner(request) PROVE Same
    BY <1>3, <1>4 DEF AnswerOfOwner
  <1>5. ASSUME NEW request \in FullWithdrawalRequests, RequestFullWithdrawal(request) PROVE Same
    BY <1>5 DEF RequestFullWithdrawal, batch
  <1>6. ASSUME NEW request \in requests, execute_false_full_withdrawal(request) PROVE Same
    BY <1>6 DEF execute_false_full_withdrawal, CanAnswerFalse, VaultsShown, Output, Modification
  <1>7. ASSUME NEW h \in Holders, execute_offchain_minting(h[3], h[2], h[1]) PROVE Same
    BY <1>7 DEF execute_offchain_minting, contract
  <1>8. ASSUME UNCHANGED vars PROVE Same
    BY <1>8 DEF vars, contract
  <1> QED
    BY <1>1, <1>2, <1>3, <1>4, <1>5, <1>6, <1>7, <1>8 DEF Next

\* volition.cairo:178-190: after any number of batches, who read only the words that they
\* published has every vault of the rollup tree as the last batch left it.
THEOREM PublishedDataIsEnough == Spec => []PublishedDataRestoresRollup
PROOF
  <1>1. Init => Published
    <2> SUFFICES ASSUME Init PROVE Published
      OBVIOUS
    <2>1. EmptyVault \in Vault
      BY DexAssumption DEF EmptyVault, Vault
    <2> QED
      BY <2>1, DexAssumption DEF Init, Published, PublishedDataRestoresRollup, Dicts
  <1>2. Published /\ DexInv /\ [Next]_vars => Published'
    <2> SUFFICES ASSUME Published, DexInv, [Next]_vars PROVE Published'
      OBVIOUS
    <2>1. CASE EndBatch
      <3>1. vault_dict \in Dicts
        BY DEF DexInv, DexTypes
      <3> QED
        BY <2>1, <3>1, EndBatchPublishes
    <2>2. CASE ~ EndBatch
      <3>1. onchain_vaults' = onchain_vaults /\ initial_vault_dict' = initial_vault_dict
        BY <2>2, OthersPublishNothing
      <3> QED
        BY <3>1 DEF Published, PublishedDataRestoresRollup
    <2> QED
      BY <2>1, <2>2
  <1>3. Published => PublishedDataRestoresRollup
    BY DEF Published
  <1> QED
    BY <1>1, <1>2, <1>3, DexInvariant, PTL DEF Spec

=============================================================================
