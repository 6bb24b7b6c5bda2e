--------------------------- MODULE MessagesProofs ---------------------------
(***************************************************************************)
(* Proofs about the signed messages, for every width of the packed fields  *)
(* that the padding fits and for every set of values within the bounds.    *)
(***************************************************************************)
EXTENDS PerpetualMessages, TLAPS

-----------------------------------------------------------------------------
(* Lemmas about packing.                                                   *)

\* A factor keeps the order.
LEMMA ProductOrder ==
  ASSUME NEW a \in Int, NEW c \in Int, NEW B \in Positive, a <= c
  PROVE  a * B <= c * B
PROOF
  BY SMT DEF Positive

\* A packed field and what is above it can be told from the packed message.
LEMMA AppendInjective ==
  ASSUME NEW B \in Positive, NEW a \in Nat, NEW c \in Nat,
         NEW b \in 0 .. B - 1, NEW d \in 0 .. B - 1,
         Append(a, B, b) = Append(c, B, d)
  PROVE  a = c /\ b = d
PROOF
  <1>1. a * B + b = c * B + d
    BY DEF Append
  <1>2. /\ a * B \in Int /\ c * B \in Int
        /\ (a + 1) * B = a * B + B /\ (c + 1) * B = c * B + B
    BY DEF Positive
  <1>3. ~ a < c
    <2>1. SUFFICES ASSUME a < c PROVE FALSE
      OBVIOUS
    <2>2. (a + 1) * B <= c * B
      BY <2>1, ProductOrder
    <2> QED
      BY <1>1, <1>2, <2>2 DEF Positive
  <1>4. ~ c < a
    <2>1. SUFFICES ASSUME c < a PROVE FALSE
      OBVIOUS
    <2>2. (c + 1) * B <= a * B
      BY <2>1, ProductOrder
    <2> QED
      BY <1>1, <1>2, <2>2 DEF Positive
  <1> QED
    BY <1>1, <1>2, <1>3, <1>4 DEF Positive

\* Packing stays within the naturals.
LEMMA AppendNat ==
  ASSUME NEW B \in Positive, NEW a \in Nat, NEW b \in 0 .. B - 1
  PROVE  Append(a, B, b) \in Nat
PROOF
  BY DEF Append, Positive

\* A field appended to a message of some type, of which M are possible, leaves
\* the message in the range of its type, of which M * B are.
LEMMA AppendRange ==
  ASSUME NEW T \in Nat, NEW M \in Positive, NEW B \in Positive, NEW x \in Nat,
         NEW b \in 0 .. B - 1, T * M <= x, x < (T + 1) * M
  PROVE  /\ M * B \in Positive
         /\ T * (M * B) <= Append(x, B, b)
         /\ Append(x, B, b) < (T + 1) * (M * B)
PROOF
  <1>1. M * B \in Positive
    BY DEF Positive
  <1>2. (T * M) * B <= x * B
    BY ProductOrder DEF Positive
  <1>3. (x + 1) * B <= ((T + 1) * M) * B
    BY ProductOrder DEF Positive
  <1>4. /\ T * (M * B) = (T * M) * B
        /\ (T + 1) * (M * B) = ((T + 1) * M) * B
        /\ (x + 1) * B = x * B + B
    BY DEF Positive
  <1>5. /\ (T * M) * B \in Int /\ ((T + 1) * M) * B \in Int /\ x * B \in Int
    BY DEF Positive
  <1> QED
    BY <1>1, <1>2, <1>3, <1>4, <1>5 DEF Append, Positive

\* The range of the messages of one type.
OfType(w, T) == w \in Nat /\ T * BODY <= w /\ w < (T + 1) * BODY

\* The values of the fields below a type are at least one.
LEMMA BodyPositive == BODY \in Positive
PROOF
  BY BoundsAssumption, SMT DEF BODY, Positive

\* signature_message_hashes.cairo: the types of two equal messages are equal.
LEMMA TypesApart ==
  ASSUME NEW w, NEW S \in Nat, NEW T \in Nat, OfType(w, S), OfType(w, T)
  PROVE  S = T
PROOF
  <1>1. BODY \in Positive
    BY BodyPositive
  <1>2. ~ S < T
    <2>1. SUFFICES ASSUME S < T PROVE FALSE
      OBVIOUS
    <2>2. (S + 1) * BODY <= T * BODY
      BY <1>1, <2>1, ProductOrder
    <2>3. (S + 1) * BODY \in Int /\ T * BODY \in Int
      BY <1>1 DEF Positive
    <2> QED
      BY <2>2, <2>3 DEF OfType
  <1>3. ~ T < S
    <2>1. SUFFICES ASSUME T < S PROVE FALSE
      OBVIOUS
    <2>2. (T + 1) * BODY <= S * BODY
      BY <1>1, <2>1, ProductOrder
    <2>3. (T + 1) * BODY \in Int /\ S * BODY \in Int
      BY <1>1 DEF Positive
    <2> QED
      BY <2>2, <2>3 DEF OfType
  <1> QED
    BY <1>2, <1>3

\* Four fields and the padding, below a type.
LEMMA FourFields ==
  ASSUME NEW T \in Nat, NEW B1 \in Positive, NEW B2 \in Positive, NEW B3 \in Positive,
         NEW B4 \in Positive, NEW P \in Positive,
         NEW b1 \in 0 .. B1 - 1, NEW b2 \in 0 .. B2 - 1, NEW b3 \in 0 .. B3 - 1,
         NEW b4 \in 0 .. B4 - 1, B1 * B2 * B3 * B4 * P = BODY
  PROVE  OfType(Append(Append(Append(Append(T, B1, b1), B2, b2), B3, b3), B4, b4) * P, T)
PROOF
  <1> DEFINE x1 == Append(T, B1, b1)
             x2 == Append(x1, B2, b2)
             x3 == Append(x2, B3, b3)
             x4 == Append(x3, B4, b4)
             x5 == Append(x4, P, 0)
  <1>1. x1 \in Nat /\ 1 * B1 \in Positive /\ T * (1 * B1) <= x1 /\ x1 < (T + 1) * (1 * B1)
    <2>1. T * 1 <= T /\ T < (T + 1) * 1 /\ 1 \in Positive
      BY DEF Positive
    <2> QED
      BY <2>1, AppendRange, AppendNat
  <1>2. /\ x2 \in Nat /\ 1 * B1 * B2 \in Positive
        /\ T * (1 * B1 * B2) <= x2 /\ x2 < (T + 1) * (1 * B1 * B2)
    <2> HIDE DEF x1
    <2> QED
      BY <1>1, AppendRange, AppendNat
  <1>3. /\ x3 \in Nat /\ 1 * B1 * B2 * B3 \in Positive
        /\ T * (1 * B1 * B2 * B3) <= x3 /\ x3 < (T + 1) * (1 * B1 * B2 * B3)
    <2> HIDE DEF x2
    <2> QED
      BY <1>2, AppendRange, AppendNat
  <1>4. /\ x4 \in Nat /\ 1 * B1 * B2 * B3 * B4 \in Positive
        /\ T * (1 * B1 * B2 * B3 * B4) <= x4 /\ x4 < (T + 1) * (1 * B1 * B2 * B3 * B4)
    <2> HIDE DEF x3
    <2> QED
      BY <1>3, AppendRange, AppendNat
  <1>5. /\ x5 \in Nat /\ 1 * B1 * B2 * B3 * B4 * P \in Positive
        /\ T * (1 * B1 * B2 * B3 * B4 * P) <= x5 /\ x5 < (T + 1) * (1 * B1 * B2 * B3 * B4 * P)
    <2> HIDE DEF x4
    <2>1. 0 \in 0 .. P - 1
      BY DEF Positive
    <2> QED
      BY <1>4, <2>1, AppendRange, AppendNat
  <1>6. 1 * B1 = B1
    BY DEF Positive
  <1>7. x5 = x4 * P
    <2> HIDE DEF x4
    <2> QED
      BY <1>4 DEF Append, Positive
  <1> HIDE DEF x4, x5
  <1>8. OfType(x5, T)
    BY <1>5, <1>6 DEF OfType
  <1> QED
    BY <1>7, <1>8 DEF x1, x2, x3, x4

\* Packed transfers have one field less.
LEMMA TransferType ==
  ASSUME NEW T \in Nat, NEW a \in Amounts, NEW f \in Amounts \union {0}, NEW e \in Expirations
  PROVE  OfType(pack_transfer(T, a, f, e), T)
PROOF
  <1>1. 1 \in Positive /\ 0 \in 0 .. 1 - 1
    BY DEF Positive
  <1>2. /\ a \in 0 .. AMOUNT_UPPER_BOUND - 1 /\ f \in 0 .. AMOUNT_UPPER_BOUND - 1
        /\ e \in 0 .. EXPIRATION_TIMESTAMP_UPPER_BOUND - 1
    BY BoundsAssumption, ValuesAssumption DEF Positive
  <1>3. 1 * AMOUNT_UPPER_BOUND * AMOUNT_UPPER_BOUND * EXPIRATION_TIMESTAMP_UPPER_BOUND
          * TRANSFER_PADDING = BODY
    BY BoundsAssumption DEF BODY, Positive
  <1>4. Append(T, 1, 0) = T
    BY DEF Append
  <1> QED
    BY <1>1, <1>2, <1>3, <1>4, FourFields, BoundsAssumption DEF pack_transfer

\* The type of a withdrawal can be read from its packed message.
LEMMA WithdrawalType ==
  ASSUME NEW T \in Nat, NEW p \in Positions, NEW n \in Nonces, NEW a \in Amounts,
         NEW e \in Expirations
  PROVE  OfType(pack_withdrawal(T, p, n, a, e), T)
PROOF
  BY FourFields, BoundsAssumption, ValuesAssumption, PaddingAssumption DEF pack_withdrawal

\* And that of a limit order.
LEMMA LimitOrderType ==
  ASSUME NEW p \in Positions, NEW e \in Expirations
  PROVE  OfType(pack_limit_order(p, p, p, e), LIMIT_ORDER_WITH_FEES)
PROOF
  <1>1. LIMIT_ORDER_WITH_FEES \in Nat
    BY DEF LIMIT_ORDER_WITH_FEES
  <1> QED
    BY <1>1, FourFields, BoundsAssumption, ValuesAssumption, PaddingAssumption
    DEF pack_limit_order

\* A price has no type, and is below the messages of every type, also at the time
\* that only the program lets pass.
LEMMA PriceType ==
  ASSUME NEW p \in Prices, NEW t \in PriceTimes \union {TIMESTAMP_BOUND}
  PROVE  OfType(Append(p, TIMESTAMP_BOUND, t), 0)
PROOF
  <1>1. /\ p \in 0 .. EXTERNAL_PRICE_UPPER_BOUND - 1 /\ t \in 0 .. TIMESTAMP_BOUND
        /\ EXTERNAL_PRICE_UPPER_BOUND \in Positive /\ TIMESTAMP_BOUND \in Positive
    BY BoundsAssumption, ValuesAssumption DEF Positive
  <1>2. Append(p, TIMESTAMP_BOUND, t) \in Nat
    BY <1>1 DEF Append, Positive
  <1>3. (p + 1) * TIMESTAMP_BOUND <= EXTERNAL_PRICE_UPPER_BOUND * TIMESTAMP_BOUND
    BY <1>1, ProductOrder DEF Positive
  <1>4. (p + 1) * TIMESTAMP_BOUND = p * TIMESTAMP_BOUND + TIMESTAMP_BOUND
    BY <1>1 DEF Positive
  <1>5. EXTERNAL_PRICE_UPPER_BOUND * TIMESTAMP_BOUND < BODY
    BY PaddingAssumption
  <1>6. /\ p * TIMESTAMP_BOUND \in Int /\ EXTERNAL_PRICE_UPPER_BOUND * TIMESTAMP_BOUND \in Int
        /\ BODY \in Int
    BY <1>1, BodyPositive DEF Positive
  <1>7. Append(p, TIMESTAMP_BOUND, t) < BODY
    BY <1>1, <1>3, <1>4, <1>5, <1>6 DEF Append, Positive
  <1>8. 0 * BODY = 0 /\ (0 + 1) * BODY = BODY
    BY <1>6
  <1> QED
    BY <1>2, <1>6, <1>7, <1>8 DEF OfType

\* The packed fields, from the lowest to the type.
LEMMA PositionsInjective ==
  ASSUME NEW s1 \in Positions, NEW r1 \in Positions, NEW f1 \in Positions, NEW n1 \in Nonces,
         NEW s2 \in Positions, NEW r2 \in Positions, NEW f2 \in Positions, NEW n2 \in Nonces,
         pack_positions(s1, r1, f1, n1) = pack_positions(s2, r2, f2, n2)
  PROVE  s1 = s2 /\ r1 = r2 /\ f1 = f2 /\ n1 = n2
PROOF
  <1> DEFINE P == POSITION_ID_UPPER_BOUND
  <1>1. /\ {s1, r1, f1, s2, r2, f2} \subseteq 0 .. P - 1
        /\ {n1, n2} \subseteq 0 .. NONCE_UPPER_BOUND - 1
        /\ P \in Positive /\ NONCE_UPPER_BOUND \in Positive
    BY BoundsAssumption, ValuesAssumption
  <1>2. s1 \in Nat /\ s2 \in Nat
    BY <1>1 DEF Positive
  <1>3. Append(s1, P, r1) \in Nat /\ Append(s2, P, r2) \in Nat
    BY <1>1, <1>2, AppendNat
  <1>4. Append(Append(s1, P, r1), P, f1) \in Nat /\ Append(Append(s2, P, r2), P, f2) \in Nat
    BY <1>1, <1>3, AppendNat
  <1>5. /\ Append(Append(s1, P, r1), P, f1) = Append(Append(s2, P, r2), P, f2)
        /\ n1 = n2
    BY <1>1, <1>4, AppendInjective DEF pack_positions
  <1>6. Append(s1, P, r1) = Append(s2, P, r2) /\ f1 = f2
    BY <1>1, <1>3, <1>5, AppendInjective
  <1> QED
    BY <1>1, <1>2, <1>5, <1>6, AppendInjective

SameAmounts(s1, b1, f1, n1, s2, b2, f2, n2) ==
  /\ {s1, b1, f1, s2, b2, f2} \subseteq Amounts /\ {n1, n2} \subseteq Nonces
  /\ pack_amounts(s1, b1, f1, n1) = pack_amounts(s2, b2, f2, n2)

\* The two amounts, the bound of the fee and the nonce of an order, from their packing.
LEMMA AmountsInjective ==
  ASSUME NEW s1, NEW b1, NEW f1, NEW n1, NEW s2, NEW b2, NEW f2, NEW n2,
         SameAmounts(s1, b1, f1, n1, s2, b2, f2, n2)
  PROVE  s1 = s2 /\ b1 = b2 /\ f1 = f2 /\ n1 = n2
PROOF
  <1> DEFINE A == AMOUNT_UPPER_BOUND
  <1>1. /\ {s1, b1, f1, s2, b2, f2} \subseteq 0 .. A - 1
        /\ {n1, n2} \subseteq 0 .. NONCE_UPPER_BOUND - 1
        /\ A \in Positive /\ NONCE_UPPER_BOUND \in Positive
    BY BoundsAssumption, ValuesAssumption DEF SameAmounts
  <1>2. s1 \in Nat /\ s2 \in Nat
    BY <1>1 DEF Positive
  <1>3. Append(s1, A, b1) \in Nat /\ Append(s2, A, b2) \in Nat
    BY <1>1, <1>2, AppendNat
  <1>4. Append(Append(s1, A, b1), A, f1) \in Nat /\ Append(Append(s2, A, b2), A, f2) \in Nat
    BY <1>1, <1>3, AppendNat
  <1>5. /\ Append(Append(s1, A, b1), A, f1) = Append(Append(s2, A, b2), A, f2)
        /\ n1 = n2
    BY <1>1, <1>4, AppendInjective DEF SameAmounts, pack_amounts
  <1>6. Append(s1, A, b1) = Append(s2, A, b2) /\ f1 = f2
    BY <1>1, <1>3, <1>5, AppendInjective
  <1> QED
    BY <1>1, <1>2, <1>5, <1>6, AppendInjective

\* Two messages of four fields below the same type, and the padding, are equal.
SamePacked(T, B1, b1, c1, B2, b2, c2, B3, b3, c3, B4, b4, c4, P) ==
  /\ T \in Nat /\ {B1, B2, B3, B4, P} \subseteq Positive
  /\ {b1, c1} \subseteq 0 .. B1 - 1 /\ {b2, c2} \subseteq 0 .. B2 - 1
  /\ {b3, c3} \subseteq 0 .. B3 - 1 /\ {b4, c4} \subseteq 0 .. B4 - 1
  /\ Append(Append(Append(Append(T, B1, b1), B2, b2), B3, b3), B4, b4) * P
       = Append(Append(Append(Append(T, B1, c1), B2, c2), B3, c3), B4, c4) * P

\* The fields below the type of a transfer, a withdrawal or an order, from theirs.
LEMMA PackedInjective ==
  ASSUME NEW T, NEW B1, NEW B2, NEW B3, NEW B4, NEW P, NEW b1, NEW b2, NEW b3, NEW b4,
         NEW c1, NEW c2, NEW c3, NEW c4,
         SamePacked(T, B1, b1, c1, B2, b2, c2, B3, b3, c3, B4, b4, c4, P)
  PROVE  b1 = c1 /\ b2 = c2 /\ b3 = c3 /\ b4 = c4
PROOF
  <1> DEFINE x1 == Append(T, B1, b1)  y1 == Append(T, B1, c1)
             x2 == Append(x1, B2, b2)  y2 == Append(y1, B2, c2)
             x3 == Append(x2, B3, b3)  y3 == Append(y2, B3, c3)
             x4 == Append(x3, B4, b4)  y4 == Append(y3, B4, c4)
  <1>0. /\ T \in Nat /\ {B1, B2, B3, B4, P} \subseteq Positive
        /\ {b1, c1} \subseteq 0 .. B1 - 1 /\ {b2, c2} \subseteq 0 .. B2 - 1
        /\ {b3, c3} \subseteq 0 .. B3 - 1 /\ {b4, c4} \subseteq 0 .. B4 - 1
    BY DEF SamePacked
  <1>1. x1 \in Nat /\ y1 \in Nat
    BY <1>0, AppendNat
  <1>2. x2 \in Nat /\ y2 \in Nat
    BY <1>0, <1>1, AppendNat
  <1>3. x3 \in Nat /\ y3 \in Nat
    BY <1>0, <1>2, AppendNat
  <1>4. x4 \in Nat /\ y4 \in Nat
    BY <1>0, <1>3, AppendNat
  <1>5. x4 = y4
    <2>1. x4 * P = y4 * P
      BY DEF SamePacked
    <2> HIDE DEF x4, y4
    <2>2. 0 \in 0 .. P - 1
      BY <1>0 DEF Positive
    <2>3. Append(x4, P, 0) = Append(y4, P, 0)
      BY <2>1 DEF Append
    <2> QED
      BY <1>0, <1>4, <2>2, <2>3, AppendInjective
  <1>6. x3 = y3 /\ b4 = c4
    <2> HIDE DEF x3, y3
    <2> QED
      BY <1>0, <1>3, <1>5, AppendInjective DEF x4, y4
  <1>7. x2 = y2 /\ b3 = c3
    <2> HIDE DEF x2, y2
    <2> QED
      BY <1>0, <1>2, <1>6, AppendInjective DEF x3, y3
  <1>8. x1 = y1 /\ b2 = c2
    <2> HIDE DEF x1, y1
    <2> QED
      BY <1>0, <1>1, <1>7, AppendInjective DEF x2, y2
  <1>9. b1 = c1
    BY <1>0, <1>8, AppendInjective
  <1> QED
    BY <1>6, <1>7, <1>8, <1>9

\* What the message of a transfer packs beside its type.
LEMMA TransferInjective ==
  ASSUME NEW T \in Nat, NEW r, NEW q,
         {r.amount, q.amount} \subseteq Amounts,
         {r.max_amount_fee, q.max_amount_fee} \subseteq Amounts \union {0},
         {r.expiration_timestamp, q.expiration_timestamp} \subseteq Expirations,
         pack_transfer(T, r.amount, r.max_amount_fee, r.expiration_timestamp)
           = pack_transfer(T, q.amount, q.max_amount_fee, q.expiration_timestamp)
  PROVE  /\ r.amount = q.amount /\ r.max_amount_fee = q.max_amount_fee
         /\ r.expiration_timestamp = q.expiration_timestamp
PROOF
  <1>1. 1 \in Positive /\ 0 \in 0 .. 1 - 1
    BY DEF Positive
  <1>0. 0 \in 0 .. AMOUNT_UPPER_BOUND - 1
    BY BoundsAssumption DEF Positive
  <1>2. /\ {r.amount, q.amount} \subseteq 0 .. AMOUNT_UPPER_BOUND - 1
        /\ {r.max_amount_fee, q.max_amount_fee} \subseteq 0 .. AMOUNT_UPPER_BOUND - 1
        /\ {r.expiration_timestamp, q.expiration_timestamp}
             \subseteq 0 .. EXPIRATION_TIMESTAMP_UPPER_BOUND - 1
    BY <1>0, ValuesAssumption
  <1>3. Append(T, 1, 0) = T
    BY DEF Append
  <1>4. SamePacked(T, 1, 0, 0, AMOUNT_UPPER_BOUND, r.amount, q.amount,
                   AMOUNT_UPPER_BOUND, r.max_amount_fee, q.max_amount_fee,
                   EXPIRATION_TIMESTAMP_UPPER_BOUND, r.expiration_timestamp,
                   q.expiration_timestamp, TRANSFER_PADDING)
    BY <1>1, <1>2, <1>3, BoundsAssumption DEF pack_transfer, SamePacked
  <1> QED
    BY <1>4, PackedInjective

\* What the message of a withdrawal packs.
LEMMA WithdrawalInjective ==
  ASSUME NEW T \in Nat, NEW r, NEW q,
         {r.position_id, q.position_id} \subseteq Positions,
         {r.nonce, q.nonce} \subseteq Nonces, {r.amount, q.amount} \subseteq Amounts,
         {r.expiration_timestamp, q.expiration_timestamp} \subseteq Expirations,
         pack_withdrawal(T, r.position_id, r.nonce, r.amount, r.expiration_timestamp)
           = pack_withdrawal(T, q.position_id, q.nonce, q.amount, q.expiration_timestamp)
  PROVE  /\ r.position_id = q.position_id /\ r.nonce = q.nonce /\ r.amount = q.amount
         /\ r.expiration_timestamp = q.expiration_timestamp
PROOF
  <1>1. /\ {r.position_id, q.position_id} \subseteq 0 .. POSITION_ID_UPPER_BOUND - 1
        /\ {r.nonce, q.nonce} \subseteq 0 .. NONCE_UPPER_BOUND - 1
        /\ {r.amount, q.amount} \subseteq 0 .. AMOUNT_UPPER_BOUND - 1
        /\ {r.expiration_timestamp, q.expiration_timestamp}
             \subseteq 0 .. EXPIRATION_TIMESTAMP_UPPER_BOUND - 1
    BY ValuesAssumption
  <1>2. SamePacked(T, POSITION_ID_UPPER_BOUND, r.position_id, q.position_id,
                   NONCE_UPPER_BOUND, r.nonce, q.nonce, AMOUNT_UPPER_BOUND, r.amount, q.amount,
                   EXPIRATION_TIMESTAMP_UPPER_BOUND, r.expiration_timestamp,
                   q.expiration_timestamp, WITHDRAWAL_PADDING)
    BY <1>1, BoundsAssumption DEF pack_withdrawal, SamePacked
  <1> QED
    BY <1>2, PackedInjective

\* What the message of an order packs.
LEMMA LimitOrderInjective ==
  ASSUME NEW p1 \in Positions, NEW e1 \in Expirations, NEW p2 \in Positions,
         NEW e2 \in Expirations,
         pack_limit_order(p1, p1, p1, e1) = pack_limit_order(p2, p2, p2, e2)
  PROVE  p1 = p2 /\ e1 = e2
PROOF
  <1>1. LIMIT_ORDER_WITH_FEES \in Nat
    BY DEF LIMIT_ORDER_WITH_FEES
  <1>2. /\ p1 \in 0 .. POSITION_ID_UPPER_BOUND - 1 /\ p2 \in 0 .. POSITION_ID_UPPER_BOUND - 1
        /\ e1 \in 0 .. EXPIRATION_TIMESTAMP_UPPER_BOUND - 1
        /\ e2 \in 0 .. EXPIRATION_TIMESTAMP_UPPER_BOUND - 1
    BY ValuesAssumption
  <1>3. SamePacked(LIMIT_ORDER_WITH_FEES, POSITION_ID_UPPER_BOUND, p1, p2,
                   POSITION_ID_UPPER_BOUND, p1, p2, POSITION_ID_UPPER_BOUND, p1, p2,
                   EXPIRATION_TIMESTAMP_UPPER_BOUND, e1, e2, LIMIT_ORDER_PADDING)
    BY <1>1, <1>2, BoundsAssumption DEF pack_limit_order, SamePacked
  <1> QED
    BY <1>3, PackedInjective

-----------------------------------------------------------------------------
(* Lemmas about messages.                                                  *)

\* The type that the message of a request, or of a transaction, begins with.
RequestType(r) ==
  CASE r.kind = "limit_order" -> LIMIT_ORDER_WITH_FEES
    [] r.kind = "transfer" -> TRANSFER
    [] r.kind = "conditional_transfer" -> CONDITIONAL_TRANSFER
    [] r.kind = "withdrawal_to_address" -> WITHDRAWAL_TO_ADDRESS
    [] r.kind = "price" -> 0

TransactionType(tx) ==
  CASE tx.kind = "limit_order" -> LIMIT_ORDER_WITH_FEES
    [] tx.kind = "transfer" -> IF tx.condition = 0 THEN TRANSFER ELSE CONDITIONAL_TRANSFER
    [] tx.kind = "withdrawal" ->
         IF tx.owner_key = signer_key THEN WITHDRAWAL ELSE WITHDRAWAL_TO_ADDRESS
    [] tx.kind = "price" -> 0

\* The types of messages are numbers.
LEMMA TypesAreNat ==
  {LIMIT_ORDER_WITH_FEES, TRANSFER, CONDITIONAL_TRANSFER, WITHDRAWAL, WITHDRAWAL_TO_ADDRESS}
    \subseteq Nat
PROOF
  BY DEF LIMIT_ORDER_WITH_FEES, TRANSFER, CONDITIONAL_TRANSFER, WITHDRAWAL, WITHDRAWAL_TO_ADDRESS

\* Equal hashes have equal arguments: the hash is the pair of them.
LEMMA HashInjective ==
  ASSUME NEW a, NEW b, NEW c, NEW d, hash_function(a, b) = hash_function(c, d)
  PROVE  a = c /\ b = d
PROOF
  BY DEF hash_function

\* A field element in a hash stands for one number.
LEMMA FeltInjective ==
  ASSUME NEW m, NEW n, felt(m) = felt(n)
  PROVE  m = n
PROOF
  BY DEF felt

\* Every message ends in a body of its type.
EndsInType(m, T) == \E h, w : m = hash_function(h, felt(w)) /\ OfType(w, T)

\* The last packed field of a signed request, and the type it is of.
LEMMA RequestBody ==
  ASSUME NEW r \in Requests
  PROVE  EndsInType(message(r), RequestType(r))
PROOF
  <1>1. CASE r \in LimitOrders
    <2>1. r.kind = "limit_order" /\ r.position_id \in Positions
          /\ r.expiration_timestamp \in Expirations
      BY <1>1 DEF LimitOrders
    <2>2. OfType(pack_limit_order(r.position_id, r.position_id, r.position_id,
                                  r.expiration_timestamp), LIMIT_ORDER_WITH_FEES)
      BY <2>1, LimitOrderType
    <2> QED
      BY <2>1, <2>2 DEF EndsInType, RequestType, message, get_limit_order_msg_without_bounds,
                        limit_order_msg
  <1>2. CASE r \in Transfers
    <2>1. /\ r.kind = "transfer" /\ r.amount \in Amounts /\ r.max_amount_fee \in Amounts
          /\ r.expiration_timestamp \in Expirations
      BY <1>2 DEF Transfers
    <2>2. OfType(pack_transfer(TRANSFER, r.amount, r.max_amount_fee, r.expiration_timestamp),
                 TRANSFER)
      BY <2>1, TransferType, TypesAreNat
    <2> QED
      BY <2>1, <2>2 DEF EndsInType, RequestType, message, get_transfer_msg_without_bounds
  <1>3. CASE r \in ConditionalTransfers
    <2>1. /\ r.kind = "conditional_transfer" /\ r.amount \in Amounts
          /\ r.max_amount_fee \in Amounts /\ r.expiration_timestamp \in Expirations
      BY <1>3 DEF ConditionalTransfers
    <2>2. OfType(pack_transfer(CONDITIONAL_TRANSFER, r.amount, r.max_amount_fee,
                               r.expiration_timestamp), CONDITIONAL_TRANSFER)
      BY <2>1, TransferType, TypesAreNat
    <2> QED
      BY <2>1, <2>2
      DEF EndsInType, RequestType, message, get_conditional_transfer_msg_without_bounds
  <1>4. CASE r \in Withdrawals
    <2>1. /\ r.kind = "withdrawal_to_address" /\ r.position_id \in Positions
          /\ r.nonce \in Nonces /\ r.amount \in Amounts
          /\ r.expiration_timestamp \in Expirations
      BY <1>4 DEF Withdrawals
    <2>2. OfType(pack_withdrawal(WITHDRAWAL_TO_ADDRESS, r.position_id, r.nonce, r.amount,
                                 r.expiration_timestamp), WITHDRAWAL_TO_ADDRESS)
      BY <2>1, WithdrawalType, TypesAreNat
    <2> QED
      BY <2>1, <2>2
      DEF EndsInType, RequestType, message, get_withdrawal_to_address_msg_without_bounds
  <1>5. CASE r \in SignedPrices
    <2>1. r.kind = "price" /\ r.price \in Prices /\ r.timestamp \in PriceTimes
      BY <1>5 DEF SignedPrices
    <2>2. OfType(Append(r.price, TIMESTAMP_BOUND, r.timestamp), 0)
      BY <2>1, PriceType
    <2> QED
      BY <2>1, <2>2 DEF EndsInType, RequestType, message, get_price_msg
  <1> QED
    BY <1>1, <1>2, <1>3, <1>4, <1>5 DEF Requests

\* A packed asset id can be taken apart again.
LEMMA SignedAssetIs ==
  ASSUME NEW tx \in PriceTxs
  PROVE  /\ SignedAsset(tx.signed_asset_id)[1] \in SyntheticIds
         /\ SignedAsset(tx.signed_asset_id)[2] \in OracleNames
         /\ tx.signed_asset_id = SignedAsset(tx.signed_asset_id)[1] * ORACLE_UPPER_BOUND
                                   + SignedAsset(tx.signed_asset_id)[2]
PROOF
  <1>1. PICK a \in SyntheticIds, o \in OracleNames :
          tx.signed_asset_id = a * ORACLE_UPPER_BOUND + o
    BY DEF PriceTxs
  <1>2. <<a, o>> \in SyntheticIds \X OracleNames /\ IsSignedAsset(<<a, o>>, tx.signed_asset_id)
    BY <1>1 DEF IsSignedAsset
  <1>3. /\ SignedAsset(tx.signed_asset_id) \in SyntheticIds \X OracleNames
        /\ IsSignedAsset(SignedAsset(tx.signed_asset_id), tx.signed_asset_id)
    BY <1>2, Zenon DEF SignedAsset
  <1> QED
    BY <1>3 DEF IsSignedAsset

\* A request for a price, with numbers that its message has room for.
IsPrice(q) ==
  /\ q = [kind |-> "price", oracle_name |-> q.oracle_name, asset_pair |-> q.asset_pair,
          timestamp |-> q.timestamp, price |-> q.price]
  /\ q.asset_pair \in Nat /\ q.oracle_name \in 0 .. ORACLE_UPPER_BOUND - 1
  /\ q.price \in Nat /\ q.timestamp \in 0 .. TIMESTAMP_BOUND - 1

\* The price that is signed for a transaction: its own, or after the last time the
\* next one at time 0.  Its fields pack to what the program computes.
LEMMA PriceRequest ==
  ASSUME NEW tx \in PriceTxs
  PROVE  /\ IsPrice(SignedFor(tx))
         /\ price_hash(tx) = get_price_msg(SignedFor(tx))
PROOF
  <1> DEFINE a == SignedAsset(tx.signed_asset_id)[1]
             o == SignedAsset(tx.signed_asset_id)[2]
             price == IF tx.timestamp = TIMESTAMP_BOUND THEN tx.external_price + 1
                      ELSE tx.external_price
             time == IF tx.timestamp = TIMESTAMP_BOUND THEN 0 ELSE tx.timestamp
             q == [kind |-> "price", oracle_name |-> o, asset_pair |-> a,
                   timestamp |-> time, price |-> price]
  <1>1. tx.kind = "price"
    BY DEF PriceTxs
  <1>2. SignedFor(tx) = q
    BY <1>1 DEF SignedFor, IsPastTheLastTime, RequestOf
  <1>3. /\ a \in Nat /\ o \in 0 .. ORACLE_UPPER_BOUND - 1
        /\ tx.signed_asset_id = a * ORACLE_UPPER_BOUND + o
    BY SignedAssetIs, ValuesAssumption
  <1>4. TIMESTAMP_BOUND \in Nat \ {0}
    BY BoundsAssumption DEF Positive
  <1>5. /\ tx.external_price \in Nat /\ tx.timestamp \in 0 .. TIMESTAMP_BOUND
    <2>1. /\ tx.external_price \in Prices
          /\ tx.timestamp \in PriceTimes \/ tx.timestamp = TIMESTAMP_BOUND
      BY DEF PriceTxs
    <2>2. Prices \subseteq Nat /\ PriceTimes \subseteq 0 .. TIMESTAMP_BOUND
      BY <1>4, ValuesAssumption
    <2>3. tx.external_price \in Nat
      BY <2>1, <2>2
    <2>4. tx.timestamp \in 0 .. TIMESTAMP_BOUND
      <3>1. TIMESTAMP_BOUND \in 0 .. TIMESTAMP_BOUND
        BY <1>4
      <3> QED
        BY <2>1, <2>2, <3>1
    <2> QED
      BY <2>3, <2>4
  <1>6. /\ price \in Nat /\ time \in 0 .. TIMESTAMP_BOUND - 1
        /\ tx.external_price * TIMESTAMP_BOUND + tx.timestamp = price * TIMESTAMP_BOUND + time
    <2>1. (tx.external_price + 1) * TIMESTAMP_BOUND
            = tx.external_price * TIMESTAMP_BOUND + TIMESTAMP_BOUND
      BY <1>4, <1>5
    <2>2. CASE tx.timestamp = TIMESTAMP_BOUND
      BY <1>4, <1>5, <2>1, <2>2
    <2>3. CASE tx.timestamp # TIMESTAMP_BOUND
      BY <1>4, <1>5, <2>3
    <2> QED
      BY <2>2, <2>3
  <1> HIDE DEF a, o, price, time
  <1>7. IsPrice(q)
    BY <1>3, <1>6 DEF IsPrice
  <1>8. price_hash(tx) = get_price_msg(q)
    BY <1>3, <1>6 DEF price_hash, get_price_msg, Append
  <1> QED
    BY <1>2, <1>7, <1>8

\* The program packs the fields as the clients do.
LEMMA ProgramPacks ==
  /\ \A tx \in LimitOrderTxs :
       limit_order_hash(tx) = get_limit_order_msg_without_bounds(RequestOf(tx))
  /\ \A tx \in TransferTxs : tx.condition = 0 =>
       transfer_hash(tx) = get_transfer_msg_without_bounds(RequestOf(tx))
  /\ \A tx \in TransferTxs : tx.condition # 0 =>
       transfer_hash(tx) = get_conditional_transfer_msg_without_bounds(RequestOf(tx))
  /\ \A tx \in WithdrawalTxs : tx.owner_key # signer_key =>
       withdrawal_hash(tx) = get_withdrawal_to_address_msg_without_bounds(RequestOf(tx))
  /\ \A tx \in PriceTxs : price_hash(tx) = get_price_msg(SignedFor(tx))
PROOF
  <1>1. ASSUME NEW tx \in LimitOrderTxs
        PROVE  limit_order_hash(tx) = get_limit_order_msg_without_bounds(RequestOf(tx))
    <2>1. tx.kind = "limit_order" /\ tx.is_buying_synthetic \in BOOLEAN
      BY DEF LimitOrderTxs
    <2>2. CASE tx.is_buying_synthetic
      BY <2>1, <2>2 DEF limit_order_hash, exchange_limit_order_hash, RequestOf,
         get_limit_order_msg_without_bounds, limit_order_msg, pack_amounts, pack_limit_order,
         Append
    <2>3. CASE ~ tx.is_buying_synthetic
      BY <2>1, <2>3 DEF limit_order_hash, exchange_limit_order_hash, RequestOf,
         get_limit_order_msg_without_bounds, limit_order_msg, pack_amounts, pack_limit_order,
         Append
    <2> QED
      BY <2>1, <2>2, <2>3
  <1>2. ASSUME NEW tx \in TransferTxs, tx.condition = 0
        PROVE  transfer_hash(tx) = get_transfer_msg_without_bounds(RequestOf(tx))
    <2>1. tx.kind = "transfer"
      BY DEF TransferTxs
    <2> QED
      BY <1>2, <2>1 DEF transfer_hash, RequestOf, get_transfer_msg_without_bounds,
         pack_positions, pack_transfer, Append
  <1>3. ASSUME NEW tx \in TransferTxs, tx.condition # 0
        PROVE  transfer_hash(tx) = get_conditional_transfer_msg_without_bounds(RequestOf(tx))
    <2>1. tx.kind = "transfer"
      BY DEF TransferTxs
    <2> QED
      BY <1>3, <2>1 DEF transfer_hash, RequestOf, get_conditional_transfer_msg_without_bounds,
         pack_positions, pack_transfer, Append
  <1>4. ASSUME NEW tx \in WithdrawalTxs, tx.owner_key # signer_key
        PROVE  withdrawal_hash(tx) = get_withdrawal_to_address_msg_without_bounds(RequestOf(tx))
    <2>1. tx.kind = "withdrawal"
      BY DEF WithdrawalTxs
    <2> QED
      BY <1>4, <2>1 DEF withdrawal_hash, RequestOf, get_withdrawal_to_address_msg_without_bounds,
         pack_withdrawal, Append
  <1>5. ASSUME NEW tx \in PriceTxs
        PROVE  price_hash(tx) = get_price_msg(SignedFor(tx))
    BY PriceRequest
  <1> QED
    BY <1>1, <1>2, <1>3, <1>4, <1>5

\* The same of the message that the program computes.
LEMMA TransactionBody ==
  ASSUME NEW tx \in Transactions
  PROVE  EndsInType(message_hash(tx), TransactionType(tx))
PROOF
  <1>1. CASE tx \in LimitOrderTxs
    <2>1. tx.kind = "limit_order" /\ tx.position_id \in Positions
          /\ tx.expiration_timestamp \in Expirations
      BY <1>1 DEF LimitOrderTxs
    <2>2. OfType(pack_limit_order(tx.position_id, tx.position_id, tx.position_id,
                                  tx.expiration_timestamp), LIMIT_ORDER_WITH_FEES)
      BY <2>1, LimitOrderType
    <2>3. message_hash(tx) = get_limit_order_msg_without_bounds(RequestOf(tx))
      BY <1>1, <2>1, ProgramPacks DEF message_hash
    <2>4. /\ RequestOf(tx).position_id = tx.position_id
          /\ RequestOf(tx).expiration_timestamp = tx.expiration_timestamp
      BY <2>1 DEF RequestOf
    <2> QED
      BY <2>1, <2>2, <2>3, <2>4 DEF EndsInType, TransactionType,
         get_limit_order_msg_without_bounds, limit_order_msg
  <1>2. CASE tx \in TransferTxs
    <2>1. /\ tx.kind = "transfer" /\ tx.amount \in Amounts
          /\ tx.expiration_timestamp \in Expirations
      BY <1>2 DEF TransferTxs
    <2>2. \A T \in Nat : OfType(pack_transfer(T, tx.amount, 0, tx.expiration_timestamp), T)
      BY <2>1, TransferType
    <2>3. message_hash(tx) = transfer_hash(tx)
      BY <2>1 DEF message_hash
    <2> QED
      BY <2>1, <2>2, <2>3, TypesAreNat
      DEF EndsInType, TransactionType, transfer_hash, pack_transfer, Append
  <1>3. CASE tx \in WithdrawalTxs
    <2>1. /\ tx.kind = "withdrawal" /\ tx.position_id \in Positions
          /\ tx.nonce \in Nonces /\ tx.amount \in Amounts
          /\ tx.expiration_timestamp \in Expirations
      BY <1>3 DEF WithdrawalTxs
    <2>2. \A T \in Nat :
            OfType(pack_withdrawal(T, tx.position_id, tx.nonce, tx.amount,
                                   tx.expiration_timestamp), T)
      BY <2>1, WithdrawalType
    <2>3. message_hash(tx) = withdrawal_hash(tx)
      BY <2>1 DEF message_hash
    <2> QED
      BY <2>1, <2>2, <2>3, TypesAreNat
      DEF EndsInType, TransactionType, withdrawal_hash, pack_withdrawal, Append
  <1>4. CASE tx \in PriceTxs
    <2>1. /\ tx.kind = "price" /\ tx.external_price \in Prices
          /\ tx.timestamp \in PriceTimes \union {TIMESTAMP_BOUND}
      BY <1>4 DEF PriceTxs
    <2>2. OfType(Append(tx.external_price, TIMESTAMP_BOUND, tx.timestamp), 0)
      BY <2>1, PriceType
    <2> QED
      BY <2>1, <2>2 DEF EndsInType, TransactionType, message_hash, price_hash, Append
  <1> QED
    BY <1>1, <1>2, <1>3, <1>4 DEF Transactions

\* signature_message_hashes.cairo: no transaction has the message of a request
\* of another type.
LEMMA SameMessageSameType ==
  ASSUME NEW r \in Requests, NEW tx \in Transactions, message(r) = message_hash(tx)
  PROVE  RequestType(r) = TransactionType(tx)
PROOF
  <1>1. PICK h1, w1 : message(r) = hash_function(h1, felt(w1)) /\ OfType(w1, RequestType(r))
    BY RequestBody DEF EndsInType
  <1>2. PICK h2, w2 : /\ message_hash(tx) = hash_function(h2, felt(w2))
                      /\ OfType(w2, TransactionType(tx))
    BY TransactionBody DEF EndsInType
  <1>3. w1 = w2
    BY <1>1, <1>2, HashInjective, FeltInjective
  <1>4. RequestType(r) \in Nat
    BY TypesAreNat DEF RequestType, Requests, LimitOrders, Transfers, ConditionalTransfers,
       Withdrawals, SignedPrices
  <1>5. TransactionType(tx) \in Nat
    BY TypesAreNat DEF TransactionType, Transactions, LimitOrderTxs, TransferTxs,
       WithdrawalTxs, PriceTxs
  <1> QED
    BY <1>1, <1>2, <1>3, <1>4, <1>5, TypesApart

\* Each type is that of one kind of request and of one form of transaction.
LEMMA SameTypeSameKind ==
  ASSUME NEW r \in Requests, NEW tx \in Transactions, RequestType(r) = TransactionType(tx)
  PROVE  \/ r \in LimitOrders /\ tx \in LimitOrderTxs
         \/ r \in Transfers /\ tx \in TransferTxs /\ tx.condition = 0
         \/ r \in ConditionalTransfers /\ tx \in TransferTxs /\ tx.condition # 0
         \/ r \in Withdrawals /\ tx \in WithdrawalTxs /\ tx.owner_key # signer_key
         \/ r \in SignedPrices /\ tx \in PriceTxs
PROOF
  <1> USE DEF RequestType, TransactionType, LIMIT_ORDER_WITH_FEES, TRANSFER,
              CONDITIONAL_TRANSFER, WITHDRAWAL, WITHDRAWAL_TO_ADDRESS
  <1>1. /\ r \in LimitOrders => RequestType(r) = 3
        /\ r \in Transfers => RequestType(r) = 4
        /\ r \in ConditionalTransfers => RequestType(r) = 5
        /\ r \in Withdrawals => RequestType(r) = 7
        /\ r \in SignedPrices => RequestType(r) = 0
    BY DEF LimitOrders, Transfers, ConditionalTransfers, Withdrawals, SignedPrices
  <1>2. /\ tx \in LimitOrderTxs => TransactionType(tx) = 3
        /\ tx \in TransferTxs => TransactionType(tx) = IF tx.condition = 0 THEN 4 ELSE 5
        /\ tx \in WithdrawalTxs => TransactionType(tx) = IF tx.owner_key = signer_key THEN 6 ELSE 7
        /\ tx \in PriceTxs => TransactionType(tx) = 0
    BY DEF LimitOrderTxs, TransferTxs, WithdrawalTxs, PriceTxs
  <1> HIDE DEF RequestType, TransactionType
  <1> QED
    BY <1>1, <1>2 DEF Requests, Transactions

-----------------------------------------------------------------------------
(* A transaction of the same message is the one that was asked for.        *)

\* Orders of one message sell and buy the same, on the same terms.
LEMMA SameOrderTerms ==
  ASSUME NEW r \in LimitOrders, NEW tx \in LimitOrderTxs, message(r) = message_hash(tx)
  PROVE  SameTerms(r, RequestOf(tx))
PROOF
  <1> DEFINE q == RequestOf(tx)
  <1>1. q \in LimitOrders
    BY ValuesAssumption DEF RequestOf, LimitOrders, LimitOrderTxs
  <1>2. r.kind = "limit_order" /\ q.kind = "limit_order" /\ tx.kind = "limit_order"
    BY <1>1 DEF LimitOrders, LimitOrderTxs
  <1>3. get_limit_order_msg_without_bounds(r) = get_limit_order_msg_without_bounds(q)
    BY <1>2, ProgramPacks DEF message, message_hash
  <1> HIDE DEF q
  <1> DEFINE sold(o) == IF o.is_buying_synthetic THEN o.amount_collateral ELSE o.amount_synthetic
             bought(o) == IF o.is_buying_synthetic THEN o.amount_synthetic ELSE o.amount_collateral
             from(o) == IF o.is_buying_synthetic THEN o.asset_id_collateral ELSE o.asset_id_synthetic
             to(o) == IF o.is_buying_synthetic THEN o.asset_id_synthetic ELSE o.asset_id_collateral
  <1>4. \A o \in LimitOrders :
          get_limit_order_msg_without_bounds(o)
            = limit_order_msg(from(o), to(o), o.asset_id_fee,
                pack_amounts(sold(o), bought(o), o.max_amount_fee, o.nonce),
                pack_limit_order(o.position_id, o.position_id, o.position_id,
                                 o.expiration_timestamp))
    BY DEF get_limit_order_msg_without_bounds
  <1>5. /\ from(r) = from(q) /\ to(r) = to(q) /\ r.asset_id_fee = q.asset_id_fee
        /\ pack_amounts(sold(r), bought(r), r.max_amount_fee, r.nonce)
             = pack_amounts(sold(q), bought(q), q.max_amount_fee, q.nonce)
        /\ pack_limit_order(r.position_id, r.position_id, r.position_id, r.expiration_timestamp)
             = pack_limit_order(q.position_id, q.position_id, q.position_id,
                                q.expiration_timestamp)
    <2> HIDE DEF from, to, sold, bought
    <2> QED
      BY <1>1, <1>3, <1>4 DEF limit_order_msg, hash_function, felt
  <1>6. /\ sold(r) \in Amounts /\ bought(r) \in Amounts /\ r.max_amount_fee \in Amounts
        /\ sold(q) \in Amounts /\ bought(q) \in Amounts /\ q.max_amount_fee \in Amounts
        /\ r.nonce \in Nonces /\ r.position_id \in Positions
        /\ q.nonce \in Nonces /\ q.position_id \in Positions
        /\ r.expiration_timestamp \in Expirations /\ q.expiration_timestamp \in Expirations
    BY <1>1 DEF LimitOrders
  <1>7. /\ sold(r) = sold(q) /\ bought(r) = bought(q)
        /\ r.max_amount_fee = q.max_amount_fee /\ r.nonce = q.nonce
    <2>1. SameAmounts(sold(r), bought(r), r.max_amount_fee, r.nonce,
                      sold(q), bought(q), q.max_amount_fee, q.nonce)
      BY <1>5, <1>6 DEF SameAmounts
    <2> HIDE DEF sold, bought
    <2> QED
      BY <2>1, AmountsInjective
  <1>8. r.position_id = q.position_id /\ r.expiration_timestamp = q.expiration_timestamp
    BY <1>5, <1>6, LimitOrderInjective
  <1>9. OrderTerms(r) = OrderTerms(q)
    <2> DEFINE terms(o) ==
          [sold |-> <<from(o), sold(o)>>, bought |-> <<to(o), bought(o)>>,
           fee |-> <<o.asset_id_fee, o.max_amount_fee>>,
           when |-> <<o.nonce, o.position_id, o.expiration_timestamp>>]
    <2>1. OrderTerms(r) = terms(r)
      BY DEF OrderTerms, LimitOrders
    <2>2. OrderTerms(q) = terms(q)
      BY <1>1 DEF OrderTerms, LimitOrders
    <2>3. terms(r) = terms(q)
      <3> HIDE DEF from, to, sold, bought
      <3> QED
        BY <1>5, <1>7, <1>8
    <2> QED
      BY <2>1, <2>2, <2>3
  <1> QED
    BY <1>2, <1>9 DEF SameTerms, q

\* Transfers of one message are the same transfer.
LEMMA SameTransfer ==
  ASSUME NEW r \in Transfers, NEW tx \in TransferTxs, tx.condition = 0,
         message(r) = message_hash(tx)
  PROVE  r = RequestOf(tx)
PROOF
  <1> DEFINE q == RequestOf(tx)
  <1>1. r.kind = "transfer" /\ tx.kind = "transfer"
    BY DEF Transfers, TransferTxs
  <1>2. q = [kind |-> "transfer", asset_id |-> collateral_id, asset_id_fee |-> 0,
             receiver_public_key |-> tx.receiver_public_key,
             sender_position_id |-> tx.sender_position_id,
             receiver_position_id |-> tx.receiver_position_id,
             src_fee_position_id |-> tx.sender_position_id, nonce |-> tx.nonce,
             amount |-> tx.amount, max_amount_fee |-> 0,
             expiration_timestamp |-> tx.expiration_timestamp]
    BY <1>1 DEF RequestOf
  <1>3. get_transfer_msg_without_bounds(r) = get_transfer_msg_without_bounds(q)
    BY <1>1, ProgramPacks DEF message, message_hash
  <1> HIDE DEF q
  <1>4. /\ r.asset_id = q.asset_id /\ r.asset_id_fee = q.asset_id_fee
        /\ r.receiver_public_key = q.receiver_public_key
        /\ pack_positions(r.sender_position_id, r.receiver_position_id, r.src_fee_position_id,
                          r.nonce)
             = pack_positions(q.sender_position_id, q.receiver_position_id,
                              q.src_fee_position_id, q.nonce)
        /\ pack_transfer(TRANSFER, r.amount, r.max_amount_fee, r.expiration_timestamp)
             = pack_transfer(TRANSFER, q.amount, q.max_amount_fee, q.expiration_timestamp)
    BY <1>3 DEF get_transfer_msg_without_bounds, hash_function, felt
  <1>5. /\ r.sender_position_id = q.sender_position_id
        /\ r.receiver_position_id = q.receiver_position_id
        /\ r.src_fee_position_id = q.src_fee_position_id /\ r.nonce = q.nonce
    BY <1>2, <1>4, PositionsInjective DEF Transfers, TransferTxs
  <1>6. /\ r.amount = q.amount /\ r.max_amount_fee = q.max_amount_fee
        /\ r.expiration_timestamp = q.expiration_timestamp
    <2>1. /\ r.amount \in Amounts /\ r.max_amount_fee \in Amounts
          /\ r.expiration_timestamp \in Expirations
          /\ q.amount \in Amounts /\ q.max_amount_fee \in Amounts \union {0}
          /\ q.expiration_timestamp \in Expirations
      BY <1>2 DEF Transfers, TransferTxs
    <2> QED
      BY <1>4, <2>1, TransferInjective, TypesAreNat
  <1>7. r = [f \in DOMAIN r |-> r[f]] /\ DOMAIN r = DOMAIN q
    BY <1>2 DEF Transfers
  <1>8. r = q
    BY <1>1, <1>2, <1>4, <1>5, <1>6, <1>7
  <1> QED
    BY <1>8 DEF q

\* Conditional transfers of one message are the same, the condition included.
LEMMA SameConditionalTransfer ==
  ASSUME NEW r \in ConditionalTransfers, NEW tx \in TransferTxs, tx.condition # 0,
         message(r) = message_hash(tx)
  PROVE  r = RequestOf(tx)
PROOF
  <1> DEFINE q == RequestOf(tx)
  <1>1. r.kind = "conditional_transfer" /\ tx.kind = "transfer"
    BY DEF ConditionalTransfers, TransferTxs
  <1>2. q = [kind |-> "conditional_transfer", asset_id |-> collateral_id, asset_id_fee |-> 0,
             receiver_public_key |-> tx.receiver_public_key, condition |-> tx.condition,
             sender_position_id |-> tx.sender_position_id,
             receiver_position_id |-> tx.receiver_position_id,
             src_fee_position_id |-> tx.sender_position_id, nonce |-> tx.nonce,
             amount |-> tx.amount, max_amount_fee |-> 0,
             expiration_timestamp |-> tx.expiration_timestamp]
    BY <1>1 DEF RequestOf
  <1>3. get_conditional_transfer_msg_without_bounds(r)
          = get_conditional_transfer_msg_without_bounds(q)
    BY <1>1, ProgramPacks DEF message, message_hash
  <1> HIDE DEF q
  <1>4. /\ r.asset_id = q.asset_id /\ r.asset_id_fee = q.asset_id_fee
        /\ r.receiver_public_key = q.receiver_public_key /\ r.condition = q.condition
        /\ pack_positions(r.sender_position_id, r.receiver_position_id, r.src_fee_position_id,
                          r.nonce)
             = pack_positions(q.sender_position_id, q.receiver_position_id,
                              q.src_fee_position_id, q.nonce)
        /\ pack_transfer(CONDITIONAL_TRANSFER, r.amount, r.max_amount_fee, r.expiration_timestamp)
             = pack_transfer(CONDITIONAL_TRANSFER, q.amount, q.max_amount_fee,
                             q.expiration_timestamp)
    BY <1>3 DEF get_conditional_transfer_msg_without_bounds, hash_function, felt
  <1>5. /\ r.sender_position_id = q.sender_position_id
        /\ r.receiver_position_id = q.receiver_position_id
        /\ r.src_fee_position_id = q.src_fee_position_id /\ r.nonce = q.nonce
    BY <1>2, <1>4, PositionsInjective, SMTT(30) DEF ConditionalTransfers, TransferTxs
  <1>6. /\ r.amount = q.amount /\ r.max_amount_fee = q.max_amount_fee
        /\ r.expiration_timestamp = q.expiration_timestamp
    <2>1. /\ r.amount \in Amounts /\ r.max_amount_fee \in Amounts
          /\ r.expiration_timestamp \in Expirations
          /\ q.amount \in Amounts /\ q.max_amount_fee \in Amounts \union {0}
          /\ q.expiration_timestamp \in Expirations
      BY <1>2 DEF ConditionalTransfers, TransferTxs
    <2> QED
      BY <1>4, <2>1, TransferInjective, TypesAreNat
  <1>7. r = [f \in DOMAIN r |-> r[f]] /\ DOMAIN r = DOMAIN q
    BY <1>2 DEF ConditionalTransfers
  <1>8. r = q
    BY <1>1, <1>2, <1>4, <1>5, <1>6, <1>7
  <1> QED
    BY <1>8 DEF q

\* Withdrawals of one message are the same withdrawal.
LEMMA SameWithdrawal ==
  ASSUME NEW r \in Withdrawals, NEW tx \in WithdrawalTxs, tx.owner_key # signer_key,
         message(r) = message_hash(tx)
  PROVE  r = RequestOf(tx)
PROOF
  <1> DEFINE q == RequestOf(tx)
  <1>1. r.kind = "withdrawal_to_address" /\ tx.kind = "withdrawal"
    BY DEF Withdrawals, WithdrawalTxs
  <1>2. q = [kind |-> "withdrawal_to_address", asset_id_collateral |-> collateral_id,
             position_id |-> tx.position_id, eth_address |-> tx.owner_key, nonce |-> tx.nonce,
             expiration_timestamp |-> tx.expiration_timestamp, amount |-> tx.amount]
    BY <1>1 DEF RequestOf
  <1>3. get_withdrawal_to_address_msg_without_bounds(r)
          = get_withdrawal_to_address_msg_without_bounds(q)
    BY <1>1, ProgramPacks DEF message, message_hash
  <1> HIDE DEF q
  <1>4. /\ r.asset_id_collateral = q.asset_id_collateral /\ r.eth_address = q.eth_address
        /\ pack_withdrawal(WITHDRAWAL_TO_ADDRESS, r.position_id, r.nonce, r.amount,
                           r.expiration_timestamp)
             = pack_withdrawal(WITHDRAWAL_TO_ADDRESS, q.position_id, q.nonce, q.amount,
                               q.expiration_timestamp)
    BY <1>3 DEF get_withdrawal_to_address_msg_without_bounds, hash_function, felt
  <1>5. /\ r.position_id = q.position_id /\ r.nonce = q.nonce /\ r.amount = q.amount
        /\ r.expiration_timestamp = q.expiration_timestamp
    <2>1. /\ r.position_id \in Positions /\ r.nonce \in Nonces /\ r.amount \in Amounts
          /\ r.expiration_timestamp \in Expirations
          /\ q.position_id \in Positions /\ q.nonce \in Nonces /\ q.amount \in Amounts
          /\ q.expiration_timestamp \in Expirations
      BY <1>2 DEF Withdrawals, WithdrawalTxs
    <2> QED
      BY <1>4, <2>1, WithdrawalInjective, TypesAreNat
  <1>6. r = [f \in DOMAIN r |-> r[f]] /\ DOMAIN r = DOMAIN q
    BY <1>2 DEF Withdrawals
  <1>7. r = q
    BY <1>1, <1>2, <1>4, <1>5, <1>6
  <1> QED
    BY <1>7 DEF q

\* The same asset, oracle, time and price: each pair is packed with room for its
\* second element.
LEMMA PricesInjective ==
  ASSUME NEW r, NEW q, IsPrice(r), IsPrice(q), get_price_msg(r) = get_price_msg(q)
  PROVE  r = q
PROOF
  <1>1. /\ Append(r.asset_pair, ORACLE_UPPER_BOUND, r.oracle_name)
             = Append(q.asset_pair, ORACLE_UPPER_BOUND, q.oracle_name)
        /\ Append(r.price, TIMESTAMP_BOUND, r.timestamp)
             = Append(q.price, TIMESTAMP_BOUND, q.timestamp)
    BY DEF get_price_msg, hash_function, felt
  <1>2. /\ r.asset_pair \in Nat /\ q.asset_pair \in Nat
        /\ r.oracle_name \in 0 .. ORACLE_UPPER_BOUND - 1
        /\ q.oracle_name \in 0 .. ORACLE_UPPER_BOUND - 1
        /\ r.price \in Nat /\ q.price \in Nat
        /\ r.timestamp \in 0 .. TIMESTAMP_BOUND - 1 /\ q.timestamp \in 0 .. TIMESTAMP_BOUND - 1
    BY DEF IsPrice
  <1>3. r.asset_pair = q.asset_pair /\ r.oracle_name = q.oracle_name
    BY <1>1, <1>2, AppendInjective, BoundsAssumption
  <1>4. r.price = q.price /\ r.timestamp = q.timestamp
    BY <1>1, <1>2, AppendInjective, BoundsAssumption
  <1> DEFINE record(o, a, t, p) == [kind |-> "price", oracle_name |-> o, asset_pair |-> a,
                                    timestamp |-> t, price |-> p]
  <1>5. /\ r = record(r.oracle_name, r.asset_pair, r.timestamp, r.price)
        /\ q = record(q.oracle_name, q.asset_pair, q.timestamp, q.price)
    BY Zenon DEF IsPrice
  <1> HIDE DEF record
  <1> QED
    BY <1>3, <1>4, <1>5

\* Prices that clients sign are within the bounds that are asserted.
LEMMA SignedPriceIs == ASSUME NEW r \in SignedPrices PROVE IsPrice(r)
PROOF
  <1>1. /\ r.asset_pair \in SyntheticIds /\ r.oracle_name \in OracleNames
        /\ r.price \in Prices /\ r.timestamp \in PriceTimes
        /\ r = [kind |-> "price", oracle_name |-> r.oracle_name, asset_pair |-> r.asset_pair,
                timestamp |-> r.timestamp, price |-> r.price]
    BY DEF SignedPrices
  <1>2. Prices \subseteq Nat
    BY ValuesAssumption
  <1> QED
    BY <1>1, <1>2, ValuesAssumption DEF IsPrice

\* Prices of one message are the same price of the same oracle and asset, except
\* after the last time.
LEMMA SamePrice ==
  ASSUME NEW r \in SignedPrices, NEW tx \in PriceTxs, message(r) = message_hash(tx)
  PROVE  r = SignedFor(tx)
PROOF
  <1>1. r.kind = "price" /\ tx.kind = "price"
    BY DEF SignedPrices, PriceTxs
  <1>2. IsPrice(r) /\ IsPrice(SignedFor(tx))
    BY PriceRequest, SignedPriceIs
  <1>3. get_price_msg(r) = get_price_msg(SignedFor(tx))
    BY <1>1, ProgramPacks DEF message, message_hash
  <1> QED
    BY <1>2, <1>3, PricesInjective

\* A request and a transaction of one message have the same terms.
LEMMA SameMessageSameTerms ==
  ASSUME NEW r \in Requests, NEW tx \in Transactions, message(r) = message_hash(tx)
  PROVE  SameTerms(r, SignedFor(tx))
PROOF
  <1>1. r = SignedFor(tx) => SameTerms(r, SignedFor(tx))
    BY DEF SameTerms
  <1>2. tx \notin PriceTxs => SignedFor(tx) = RequestOf(tx)
    BY DEF SignedFor, IsPastTheLastTime, Transactions, LimitOrderTxs, TransferTxs, WithdrawalTxs
  <1>3. /\ tx \in LimitOrderTxs => tx.kind = "limit_order"
        /\ tx \in TransferTxs => tx.kind = "transfer"
        /\ tx \in WithdrawalTxs => tx.kind = "withdrawal"
        /\ tx \in PriceTxs => tx.kind = "price"
    BY DEF LimitOrderTxs, TransferTxs, WithdrawalTxs, PriceTxs
  <1> QED
    BY <1>1, <1>2, <1>3, SameMessageSameType, SameTypeSameKind, SameOrderTerms, SameTransfer,
       SameConditionalTransfer, SameWithdrawal, SamePrice

-----------------------------------------------------------------------------
(* What was executed was asked for.                                        *)

MessagesInv ==
  /\ requested \subseteq Requests
  /\ signed = {message(r) : r \in requested}
  /\ executed \subseteq Transactions
  /\ ExecutedTermsWereRequested

\* Nothing was asked for at first.
LEMMA InitMessagesInv == Init => MessagesInv
PROOF
  BY DEF Init, MessagesInv, ExecutedTermsWereRequested

\* A request adds its own message; a transaction is executed only with one of them.
LEMMA NextMessagesInv == MessagesInv /\ [Next]_vars => MessagesInv'
PROOF
  <1> SUFFICES ASSUME MessagesInv, [Next]_vars PROVE MessagesInv'
    OBVIOUS
  <1>1. ASSUME NEW r \in Requests, Sign(r) PROVE MessagesInv'
    <2>1. requested' = requested \union {r} /\ signed' = signed \union {message(r)}
          /\ executed' = executed
      BY <1>1 DEF Sign
    <2>2. signed' = {message(q) : q \in requested'}
      BY <2>1 DEF MessagesInv
    <2>3. ExecutedTermsWereRequested'
      BY <2>1 DEF MessagesInv, ExecutedTermsWereRequested
    <2> QED
      BY <2>1, <2>2, <2>3 DEF MessagesInv
  <1>2. ASSUME NEW tx \in Transactions, Execute(tx) PROVE MessagesInv'
    <2>1. /\ requested' = requested /\ signed' = signed /\ executed' = executed \union {tx}
          /\ message_hash(tx) \in signed
      BY <1>2 DEF Execute
    <2>2. PICK r \in requested : message(r) = message_hash(tx)
      BY <2>1 DEF MessagesInv
    <2>3. SameTerms(r, SignedFor(tx))
      BY <2>2, SameMessageSameTerms DEF MessagesInv
    <2>4. ExecutedTermsWereRequested'
      BY <2>1, <2>3 DEF MessagesInv, ExecutedTermsWereRequested
    <2> QED
      BY <2>1, <2>4 DEF MessagesInv
  <1>3. ASSUME UNCHANGED vars PROVE MessagesInv'
    BY <1>3 DEF vars, MessagesInv, ExecutedTermsWereRequested
  <1> QED
    BY <1>1, <1>2, <1>3 DEF Next

\* perpetual_messages.py, signature_message_hashes.cairo, oracle_price.cairo: for any
\* widths that the padding fits, a signature lets the program execute the terms that
\* were asked for and no others, but for one price: where its time is
\* TIMESTAMP_BOUND, the next price at time 0 is what was asked for.
THEOREM SignedTermsOnly == Spec => []ExecutedTermsWereRequested
PROOF
  <1>1. MessagesInv => ExecutedTermsWereRequested
    BY DEF MessagesInv
  <1> QED
    BY InitMessagesInv, NextMessagesInv, <1>1, PTL DEF Spec

-----------------------------------------------------------------------------
(* What was asked for can be executed.                                     *)

\* For a request that the program has a transaction for, that transaction.
LEMMA TransactionOfRequest ==
  ASSUME NEW r \in Requests, Executable(r)
  PROVE  \E tx \in Transactions : RequestOf(tx) = r /\ message_hash(tx) = message(r)
PROOF
  <1>1. CASE r \in LimitOrders
    <2> DEFINE tx == [kind |-> "limit_order", asset_id_synthetic |-> r.asset_id_synthetic,
                      is_buying_synthetic |-> r.is_buying_synthetic,
                      amount_synthetic |-> r.amount_synthetic,
                      amount_collateral |-> r.amount_collateral,
                      amount_fee |-> r.max_amount_fee, nonce |-> r.nonce,
                      position_id |-> r.position_id,
                      expiration_timestamp |-> r.expiration_timestamp]
    <2>1. tx \in LimitOrderTxs
      BY <1>1 DEF LimitOrders, LimitOrderTxs
    <2>2. RequestOf(tx) = r
      BY <1>1 DEF RequestOf, LimitOrders, Executable
    <2>3. message_hash(tx) = message(r)
      BY <1>1, <2>1, <2>2, ProgramPacks DEF message, message_hash, LimitOrders
    <2> QED
      BY <2>1, <2>2, <2>3 DEF Transactions
  <1>2. CASE r \in Transfers \union ConditionalTransfers
    <2> DEFINE tx == [kind |-> "transfer", receiver_public_key |-> r.receiver_public_key,
                      condition |-> IF r.kind = "transfer" THEN 0 ELSE r.condition,
                      sender_position_id |-> r.sender_position_id,
                      receiver_position_id |-> r.receiver_position_id, nonce |-> r.nonce,
                      amount |-> r.amount, expiration_timestamp |-> r.expiration_timestamp]
    <2>1. tx \in TransferTxs
      BY <1>2 DEF Transfers, ConditionalTransfers, TransferTxs
    <2>2. CASE r \in Transfers
      <3>1. tx.condition = 0 /\ r.kind = "transfer"
        BY <2>2 DEF Transfers
      <3>2. RequestOf(tx) = r
        BY <2>2, <3>1 DEF RequestOf, Transfers, Executable
      <3>3. message_hash(tx) = message(r)
        BY <2>1, <3>1, <3>2, ProgramPacks DEF message, message_hash
      <3> QED
        BY <2>1, <3>2, <3>3 DEF Transactions
    <2>3. CASE r \in ConditionalTransfers
      <3>1. tx.condition = r.condition /\ r.condition # 0 /\ r.kind = "conditional_transfer"
        BY <2>3 DEF ConditionalTransfers, Executable
      <3>2. RequestOf(tx) = r
        BY <2>3, <3>1 DEF RequestOf, ConditionalTransfers, Executable
      <3>3. message_hash(tx) = message(r)
        BY <2>1, <3>1, <3>2, ProgramPacks DEF message, message_hash
      <3> QED
        BY <2>1, <3>2, <3>3 DEF Transactions
    <2> QED
      BY <1>2, <2>2, <2>3
  <1>3. CASE r \in Withdrawals
    <2> DEFINE tx == [kind |-> "withdrawal", position_id |-> r.position_id,
                      owner_key |-> r.eth_address, nonce |-> r.nonce,
                      expiration_timestamp |-> r.expiration_timestamp, amount |-> r.amount]
    <2>1. tx \in WithdrawalTxs /\ tx.owner_key # signer_key
      BY <1>3 DEF Withdrawals, WithdrawalTxs, Executable
    <2>2. RequestOf(tx) = r
      BY <1>3 DEF RequestOf, Withdrawals, Executable
    <2>3. message_hash(tx) = message(r)
      BY <1>3, <2>1, <2>2, ProgramPacks DEF message, message_hash, Withdrawals
    <2> QED
      BY <2>1, <2>2, <2>3 DEF Transactions
  <1>4. CASE r \in SignedPrices
    <2> DEFINE tx == [kind |-> "price",
                      signed_asset_id |-> r.asset_pair * ORACLE_UPPER_BOUND + r.oracle_name,
                      timestamp |-> r.timestamp, external_price |-> r.price]
    <2>1. tx \in PriceTxs
      BY <1>4 DEF SignedPrices, PriceTxs
    <2>2. message_hash(tx) = message(r)
      BY <1>4 DEF message, message_hash, price_hash, get_price_msg, Append, SignedPrices
    <2>3. r.timestamp # TIMESTAMP_BOUND
      BY <1>4, ValuesAssumption, BoundsAssumption DEF SignedPrices, Positive
    <2>4. SignedFor(tx) = RequestOf(tx)
      BY <2>3 DEF SignedFor, IsPastTheLastTime
    <2>5. RequestOf(tx) = r
      BY <1>4, <2>1, <2>2, <2>4, SamePrice
    <2> QED
      BY <2>1, <2>2, <2>5 DEF Transactions
  <1> QED
    BY <1>1, <1>2, <1>3, <1>4 DEF Requests

\* perpetual_messages.py: whatever the values, clients and the program make the
\* same message of the same request.
THEOREM SignedRequestsExecutable == Spec => []RequestsCanBeExecuted
PROOF
  <1>1. MessagesInv => RequestsCanBeExecuted
    <2> SUFFICES ASSUME MessagesInv, NEW r \in requested, Executable(r)
                 PROVE  \E tx \in Transactions :
                          SameTerms(r, RequestOf(tx)) /\ message_hash(tx) \in signed
      BY DEF RequestsCanBeExecuted
    <2>1. r \in Requests /\ message(r) \in signed
      BY DEF MessagesInv
    <2> QED
      BY <2>1, TransactionOfRequest DEF SameTerms
  <1> QED
    BY InitMessagesInv, NextMessagesInv, <1>1, PTL DEF Spec
=============================================================================
