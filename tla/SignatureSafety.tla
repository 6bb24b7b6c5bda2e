-------------------------- MODULE SignatureSafety --------------------------
(***************************************************************************)
(* What the signature library promises, against the arithmetic of the      *)
(* curve as a group: no assertion, no shift point, no order of additions.  *)
(***************************************************************************)
EXTENDS Signature

\* m * point + shift, as the group has it, after the first i bits of m.
PartialSum(m, point, shift, i) == Plus(shift, Times(m % Math!power2[i], point))

\* The computation of the AIR meets two points of one x.
AirMeets(m, point, shift) ==
  \E i \in 0 .. N_ELEMENT_BITS_ECDSA - 1 :
    LET sum == PartialSum(m, point, shift, i) IN
    sum = Math!EC_INFINITY \/ sum[1] = Times(Math!power2[i], point)[1]

SameX(P, Q) == P = Math!EC_INFINITY \/ Q = Math!EC_INFINITY \/ P[1] = Q[1]

VerificationMeets(m, r, w, Q) ==
  LET zG == Plus(Times(m, EC_GEN), MINUS_SHIFT_POINT)
      rQ == Plus(Times(r, Q), SHIFT_POINT)
      B == Plus(zG, rQ)
  IN  \/ AirMeets(m, EC_GEN, MINUS_SHIFT_POINT)
      \/ AirMeets(r, Q, SHIFT_POINT)
      \/ SameX(zG, rQ)
      \/ AirMeets(w, B, SHIFT_POINT)
      \/ SameX(Plus(Times(w, B), SHIFT_POINT), MINUS_SHIFT_POINT)

\* The equation of ECDSA, without its reduction of x modulo the order.
EcdsaHolds(m, r, s, Q) ==
  LET w == inv_mod_curve_size(s)
      R == Plus(Times((w * m) % EC_ORDER, EC_GEN), Times((w * r) % EC_ORDER, Q))
  IN  R # Math!EC_INFINITY /\ R[1] = r

\* The points of a key.
PointsOf(key) == {Q \in Math!random_ec_point(FIELD_PRIME, ALPHA, BETA) :
                    IF Len(key) = 2 THEN Q = key ELSE Q[1] = key[1]}

Meets(Q) == VerificationMeets(msg_hash, signature[1], inv_mod_curve_size(signature[2]), Q)

\* signature.py:138-141, 227: what sign makes of a message it finds signable,
\* verify accepts, under the signer's point and under its x alone, unless the
\* computation of the AIR meets two points of one x.
SignableMessagesVerify ==
  genuine /\ verdict # None /\ verdict.key \in KeysOfSigner
    => \/ verdict.answer = "accepted"
       \/ Meets(Times(priv_key, EC_GEN))

\* The same, of every message but 0.
OwnSignatureAccepted == msg_hash # 0 => SignableMessagesVerify

\* signature.py:244-259: "both mathematically equivalent": whatever signature
\* and key it is given, verify answers as the equation of ECDSA over the points
\* of the key, except where the computation of the AIR fails.
VerifyIsEcdsa ==
  verdict # None =>
    LET Holds(Q) == EcdsaHolds(msg_hash, signature[1], signature[2], Q)
    IN  /\ verdict.answer = "accepted" => \E Q \in PointsOf(verdict.key) : Holds(Q)
        /\ verdict.answer = "rejected" /\ msg_hash # 0 =>
             \A Q \in PointsOf(verdict.key) : Holds(Q) => Meets(Q)

\* signature.py:154 and safe_random_ec_point: the partial addition and doubling
\* that ec_mult is made of do not fail for a multiplier below the order, and
\* every point of the curve but infinity is such a multiple of the generator.
MultiplesOfGeneratorExist ==
  priv_key # 0 =>
    /\ private_key_to_ec_point_on_stark_curve(priv_key) = Times(priv_key, EC_GEN)
    /\ private_key_to_ec_point_on_stark_curve(priv_key)
         \in Math!safe_random_ec_point(FIELD_PRIME, ALPHA, EC_GEN, EC_ORDER)

\* fast_pedersen_hash.py:37-41: for hashable elements, the sum of four
\* multiples is the sum over the bits that pedersen_hash_as_point adds up.
FastHashIsPedersenHash ==
  hashed # None /\ hashed.slow # AssertionError => hashed.fast = hashed.slow
=============================================================================
