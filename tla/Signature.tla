----------------------------- MODULE Signature -----------------------------
(***************************************************************************)
(* starkware/crypto/signature: the parameters that                         *)
(* nothing_up_my_sleeve_gen.py makes, and the ECDSA variant and the        *)
(* Pedersen hash of signature.py and fast_pedersen_hash.py under them.     *)
(*                                                                         *)
(* A signer draws a key and signs one message; the signature reaches a     *)
(* verifier as it was made or not, and is checked against a key.  Whoever  *)
(* hashes two elements gets the answers of both implementations.           *)
(***************************************************************************)
EXTENDS Integers, Sequences, FiniteSets, FiniteSetsExt

CONSTANTS
  Curves,          \* [FIELD_PRIME, BETA, EC_ORDER]: valid curves with ALPHA = 1
  PiDigits,        \* the x's read from the digits of pi, one sequence of six per choice
  LOW_PART_BITS,   \* of the bits of a hashed element, those of its low part
  MaxSeed,         \* bound: how often sign draws a nonce anew
  Messages,        \* the hashes a caller asks to sign
  Foreign,         \* the <<r, s>> that may replace a signature on its way
  Elements         \* the values a caller asks to hash

VARIABLES
  params,      \* pedersen_params.json, loaded
  priv_key,    \* the signer's key, 0 before it is drawn
  msg_hash,
  seed,        \* of the next nonce; 0 is None
  signature,   \* <<r, s>>, or None
  genuine,     \* signature is the one that sign returned
  verdict,     \* what verify said, of which key
  hashed       \* the elements hashed, and both hashes

vars == <<params, priv_key, msg_hash, seed, signature, genuine, verdict, hashed>>

Math == INSTANCE FieldMath WITH Primes <- {c.FIELD_PRIME : c \in Curves} \union {c.EC_ORDER : c \in Curves}

None == << >>
AssertionError == Math!AssertionError

ALPHA == 1

----------------------------------------------------------------------------
(* math_utils.py *)

is_quad_residue(n, p) == \E m \in 0 .. p - 1 : (m * m) % p = n % p

sqrt_mod(n, p) == Min({m \in 0 .. p - 1 : (m * m) % p = n % p})

div_mod(n, m, p) == (n * Math!igcdex[p][m % p]) % p

ec_add(point1, point2, p) ==
  IF AssertionError \in {point1, point2} \/ (point1[1] - point2[1]) % p = 0 THEN AssertionError
  ELSE LET m == div_mod(point1[2] - point2[2], point1[1] - point2[1], p)
           x == (m * m - point1[1] - point2[1]) % p
       IN  <<x, (m * (point1[1] - x) - point1[2]) % p>>

ec_neg(point, p) == <<point[1], (-point[2]) % p>>

ec_double(point, alpha, p) ==
  IF point = AssertionError \/ point[2] % p = 0 THEN AssertionError
  ELSE LET m == div_mod(3 * point[1] * point[1] + alpha, 2 * point[2], p)
           x == (m * m - 2 * point[1]) % p
       IN  <<x, (m * (point[1] - x) - point[2]) % p>>

\* mutant: no halving, each addition adds the point once more
MultByAdding(m, point, alpha, p) ==
  LET mult[k \in Nat \ {0}] == IF k = 1 THEN point ELSE ec_add(mult[k - 1], point, p)
  IN  mult[m]

\* Defined for 0 < m.
ec_mult(m, point, alpha, p) ==
  LET mult[k \in Nat \ {0}] ==
        [q \in ((0 .. p - 1) \X (0 .. p - 1)) \cup {AssertionError} |->
           IF k = 1 THEN q
           ELSE IF k % 2 = 0 THEN mult[k \div 2][ec_double(q, alpha, p)]
           ELSE ec_add(mult[k - 1][q], q, p)]
  IN  mult[m][point]

----------------------------------------------------------------------------
(* nothing_up_my_sleeve_gen.py *)

\* The next x at or after the digits that is on the curve, with its least y.
PointOfDigits(digits, c) ==
  LET y_squared(x) == x * x * x + ALPHA * x + c.BETA
      x == digits + Min({i \in 0 .. c.FIELD_PRIME : is_quad_residue(y_squared(digits + i), c.FIELD_PRIME)})
  IN  <<x % c.FIELD_PRIME, sqrt_mod(y_squared(x), c.FIELD_PRIME)>>

Doublings(P, count, p) ==
  LET double[i \in 0 .. count - 1] == IF i = 0 THEN P ELSE ec_double(double[i - 1], ALPHA, p)
  IN  [i \in 1 .. count |-> double[i - 1]]

generate_constant_points(c, pi, high_bits) ==
  LET P(i) == PointOfDigits(pi[i], c)
      Doubled(i) ==
        Doublings(P(i), IF i % 2 = 1 THEN LOW_PART_BITS ELSE high_bits, c.FIELD_PRIME)
  IN  <<P(1), P(2)>> \o Doubled(3) \o Doubled(4) \o Doubled(5) \o Doubled(6)

pedersen_params(c, pi) ==
  [FIELD_PRIME |-> c.FIELD_PRIME, BETA |-> c.BETA, EC_ORDER |-> c.EC_ORDER,
   CONSTANT_POINTS |->
     generate_constant_points(c, pi, Math!bit_length(c.FIELD_PRIME) - LOW_PART_BITS)]

----------------------------------------------------------------------------
(* signature.py *)

FIELD_PRIME == params.FIELD_PRIME
BETA == params.BETA
EC_ORDER == params.EC_ORDER
CONSTANT_POINTS == params.CONSTANT_POINTS
N_ELEMENT_BITS_HASH == Math!bit_length(FIELD_PRIME)
N_ELEMENT_BITS_ECDSA == N_ELEMENT_BITS_HASH - 1
SHIFT_POINT == CONSTANT_POINTS[1]
MINUS_SHIFT_POINT == <<SHIFT_POINT[1], FIELD_PRIME - SHIFT_POINT[2]>>
EC_GEN == CONSTANT_POINTS[2]

get_random_private_key == 1 .. EC_ORDER - 1

is_point_on_curve(point) ==
  (point[2] * point[2]) % FIELD_PRIME
    = (point[1] * point[1] * point[1] + ALPHA * point[1] + BETA) % FIELD_PRIME

y_squared_of(x) == (x * x * x + ALPHA * x + BETA) % FIELD_PRIME

is_valid_stark_key(x) == is_quad_residue(y_squared_of(x), FIELD_PRIME)

get_y_coordinate(x) == sqrt_mod(y_squared_of(x), FIELD_PRIME)

private_key_to_ec_point_on_stark_curve(key) == ec_mult(key, EC_GEN, ALPHA, FIELD_PRIME)

private_to_stark_key(key) == private_key_to_ec_point_on_stark_curve(key)[1]

inv_mod_curve_size(x) == div_mod(1, x, EC_ORDER)

InSignatureRange(x) == 1 <= x /\ x < Math!power2[N_ELEMENT_BITS_ECDSA]

\* The nonces that generate_k may return: its hash is not modelled.
generate_k_rfc6979 == 1 .. EC_ORDER - 1

\* mutant: the signer forgets the shorter range of w
SignatureOfAnyW(m, key, k) ==
  LET r == ec_mult(k, EC_GEN, ALPHA, FIELD_PRIME)[1]
  IN  IF ~ InSignatureRange(r) \/ (m + r * key) % EC_ORDER = 0 THEN None
      ELSE <<r, inv_mod_curve_size(div_mod(k, m + r * key, EC_ORDER))>>

\* One round of the loop of sign: the signature, or None for a bad nonce.
SignatureOf(m, key, k) ==
  LET r == ec_mult(k, EC_GEN, ALPHA, FIELD_PRIME)[1]
      w == div_mod(k, m + r * key, EC_ORDER)
  IN  IF InSignatureRange(r) /\ (m + r * key) % EC_ORDER # 0 /\ InSignatureRange(w)
      THEN <<r, inv_mod_curve_size(w)>>
      ELSE None

\* The loop of mimic_ec_mult_air, and of pedersen_hash_as_point: what is left of m
\* says of each point whether it is added; the sum is compared with it in any case.
AddByBits(m, points, start) ==
  LET round[i \in 0 .. Len(points)] ==
        IF i = 0 THEN [left |-> m, sum |-> start]
        ELSE LET before == round[i - 1]
                 fails == \/ AssertionError \in {before.sum, points[i]}
                          \/ before.sum[1] = points[i][1]
             IN  [left |-> before.left \div 2,
                  sum |-> IF fails THEN AssertionError
                          ELSE IF before.left % 2 = 1 THEN ec_add(before.sum, points[i], FIELD_PRIME)
                          ELSE before.sum]
      last == round[Len(points)]
  IN  IF last.left = 0 THEN last.sum ELSE AssertionError

\* mutant: the point is doubled before it is added
MimicDoublesFirst(m, point, shift_point) ==
  IF point = AssertionError \/ ~ InSignatureRange(m) THEN AssertionError
  ELSE AddByBits(m, Tail(Doublings(point, N_ELEMENT_BITS_ECDSA + 1, FIELD_PRIME)), shift_point)

\* The steps of the AIR: the sum meets the point at every bit, added or not.
mimic_ec_mult_air(m, point, shift_point) ==
  IF point = AssertionError \/ ~ InSignatureRange(m) THEN AssertionError
  ELSE AddByBits(m, Doublings(point, N_ELEMENT_BITS_ECDSA, FIELD_PRIME), shift_point)

VerifyPoint(m, r, w, public_key) ==
  LET zG == mimic_ec_mult_air(m, EC_GEN, MINUS_SHIFT_POINT)
      rQ == mimic_ec_mult_air(r, public_key, SHIFT_POINT)
      wB == mimic_ec_mult_air(w, ec_add(zG, rQ, FIELD_PRIME), SHIFT_POINT)
      sum == ec_add(wB, MINUS_SHIFT_POINT, FIELD_PRIME)
  IN  sum # AssertionError /\ sum[1] = r

\* A key is a point, or an x alone as <<x>>.
VerifyKey(m, r, w, public_key) ==
  IF Len(public_key) = 2 THEN VerifyPoint(m, r, w, public_key)
  ELSE LET x == public_key[1] IN
       /\ is_valid_stark_key(x)
       /\ \/ VerifyPoint(m, r, w, <<x, get_y_coordinate(x)>>)
          \/ VerifyPoint(m, r, w, <<x, (-get_y_coordinate(x)) % FIELD_PRIME>>)

verify(m, r, s, public_key) ==
  LET w == inv_mod_curve_size(s)
  IN  IF \/ ~ InSignatureRange(r) \/ ~ InSignatureRange(w)
         \/ m \notin 0 .. Math!power2[N_ELEMENT_BITS_ECDSA] - 1
         \/ Len(public_key) = 2 /\ ~ is_point_on_curve(public_key)
      THEN "AssertionError"
      ELSE IF VerifyKey(m, r, w, public_key) THEN "accepted" ELSE "rejected"

\* Each element has its own points, one for each of its bits.
pedersen_hash_as_point(elements) ==
  LET PointList(i) == SubSeq(CONSTANT_POINTS, 3 + (i - 1) * N_ELEMENT_BITS_HASH,
                                              2 + i * N_ELEMENT_BITS_HASH)
      point[i \in 0 .. Len(elements)] ==
        IF i = 0 THEN SHIFT_POINT ELSE AddByBits(elements[i], PointList(i), point[i - 1])
  IN  point[Len(elements)]

----------------------------------------------------------------------------
(* fast_pedersen_hash.py *)

Times(m, point) == Math!ec_safe_mult(m, point, ALPHA, FIELD_PRIME)
Plus(point1, point2) == Math!ec_safe_add(point1, point2, ALPHA, FIELD_PRIME)

\* mutant: the split is one bit too low
SplitTooLow(element, p1, p2) ==
  Plus(Times(element % Math!power2[LOW_PART_BITS - 1], p1), Times(element \div Math!power2[LOW_PART_BITS - 1], p2))

process_single_element(element, p1, p2) ==
  Plus(Times(element % Math!power2[LOW_PART_BITS], p1), Times(element \div Math!power2[LOW_PART_BITS], p2))

fast_pedersen_hash_point(x, y) ==
  LET P(i) == CONSTANT_POINTS[3 + i]
  IN  Plus(Plus(SHIFT_POINT, process_single_element(x, P(0), P(LOW_PART_BITS))),
           process_single_element(y, P(N_ELEMENT_BITS_HASH), P(N_ELEMENT_BITS_HASH + LOW_PART_BITS)))

----------------------------------------------------------------------------
(* What the constants are.                                                 *)

IsPrime(q) == q \in Nat /\ q > 1 /\ \A d \in 2 .. q - 1 : q % d # 0

\* nothing_up_my_sleeve_gen.py:30-42 and 58-71: the field and the order are prime, and
\* the order is between the same powers of two as the field.
ASSUME CurvesAssumption == \A c \in Curves :
  /\ IsPrime(c.FIELD_PRIME) /\ IsPrime(c.EC_ORDER) /\ c.BETA \in Nat
  /\ \E b \in 1 .. c.FIELD_PRIME :
       /\ Math!power2[b] < c.EC_ORDER /\ c.EC_ORDER < c.FIELD_PRIME
       /\ c.FIELD_PRIME < Math!power2[b + 1]
  /\ LOW_PART_BITS \in 1 .. Math!bit_length(c.FIELD_PRIME) - 1

\* The points of a curve and the point at infinity, and their addition.
PointsOnCurve(c) ==
  LET Residues == 0 .. c.FIELD_PRIME - 1
  IN  {Math!EC_INFINITY} \union
      {P \in Residues \X Residues :
         (P[2] * P[2]) % c.FIELD_PRIME = (P[1] * P[1] * P[1] + ALPHA * P[1] + c.BETA) % c.FIELD_PRIME}
Add(c, P, Q) == Math!ec_safe_add(P, Q, ALPHA, c.FIELD_PRIME)
Multiple(c, m, P) == Math!ec_safe_mult(m, P, ALPHA, c.FIELD_PRIME)

\* A curve that is not singular is a commutative group, and its order, a prime, is
\* that of each of its points.
ASSUME GroupAssumption == \A c \in Curves :
  /\ Cardinality(PointsOnCurve(c)) = c.EC_ORDER
  /\ \A P, Q \in PointsOnCurve(c) :
       /\ Add(c, P, Q) \in PointsOnCurve(c)
       /\ Add(c, P, Q) = Add(c, Q, P)
       /\ \A R \in PointsOnCurve(c) : Add(c, Add(c, P, Q), R) = Add(c, P, Add(c, Q, R))
  /\ \A P \in PointsOnCurve(c) : Multiple(c, c.EC_ORDER, P) = Math!EC_INFINITY

ASSUME InputsAssumption ==
  /\ PiDigits \subseteq [1 .. 6 -> Nat]
  /\ Messages \subseteq Nat /\ Elements \subseteq Nat /\ Foreign \subseteq Int \X Int

----------------------------------------------------------------------------

Init ==
  /\ params \in {pedersen_params(c, pi) : c \in Curves, pi \in PiDigits}
  /\ priv_key = 0 /\ msg_hash = 0 /\ seed = 0
  /\ signature = None /\ genuine = FALSE /\ verdict = None /\ hashed = None

\* A caller of sign passes its assertion, signature.py:141.
DrawKey(m) ==
  /\ priv_key = 0 /\ hashed = None
  /\ m < Math!power2[N_ELEMENT_BITS_ECDSA]
  /\ priv_key' \in get_random_private_key
  /\ msg_hash' = m
  /\ UNCHANGED <<params, seed, signature, genuine, verdict, hashed>>

sign ==
  /\ priv_key # 0 /\ signature = None
  /\ \E k \in generate_k_rfc6979 :
       LET made == SignatureOf(msg_hash, priv_key, k) IN
       \/ made # None /\ signature' = made /\ genuine' = TRUE /\ UNCHANGED seed
       \/ made = None /\ seed < MaxSeed /\ seed' = seed + 1 /\ UNCHANGED <<signature, genuine>>
  /\ UNCHANGED <<params, priv_key, msg_hash, verdict, hashed>>

\* What reaches the verifier is not what the signer sent.
Replace ==
  /\ genuine /\ verdict = None
  /\ \E pair \in Foreign :
       /\ 1 <= pair[2] /\ pair[2] < EC_ORDER /\ pair # signature
       /\ signature' = pair
  /\ genuine' = FALSE
  /\ UNCHANGED <<params, priv_key, msg_hash, seed, verdict, hashed>>

\* The verifier knows the signer by the point or by its x, or takes another's key.
KeysOfSigner ==
  {private_key_to_ec_point_on_stark_curve(priv_key), <<private_to_stark_key(priv_key)>>}

OtherKeys ==
  {<<0>>, <<FIELD_PRIME - 1>>, <<1, 1>>}
    \union {ec_neg(private_key_to_ec_point_on_stark_curve(priv_key), FIELD_PRIME)}

Verify ==
  /\ signature # None /\ verdict = None
  /\ \E key \in KeysOfSigner \union OtherKeys :
       verdict' = [key |-> key, answer |-> verify(msg_hash, signature[1], signature[2], key)]
  /\ UNCHANGED <<params, priv_key, msg_hash, seed, signature, genuine, hashed>>

pedersen_hash(x, y) ==
  /\ priv_key = 0 /\ hashed = None
  /\ x < FIELD_PRIME /\ y < FIELD_PRIME
  /\ hashed' = [elements |-> <<x, y>>, slow |-> pedersen_hash_as_point(<<x, y>>),
                fast |-> fast_pedersen_hash_point(x, y)]
  /\ UNCHANGED <<params, priv_key, msg_hash, seed, signature, genuine, verdict>>

Next ==
  \/ \E m \in Messages : DrawKey(m)
  \/ sign
  \/ Replace
  \/ Verify
  \/ \E x, y \in Elements : pedersen_hash(x, y)

Spec == Init /\ [][Next]_vars
=============================================================================
