---------------------------- MODULE MCSignature ----------------------------
(* Small curves y^2 = x^3 + x + BETA whose order is a prime between the     *)
(* power of two below FIELD_PRIME and FIELD_PRIME, as the real one's is.    *)
EXTENDS SignatureSafety

MCCurves == {[FIELD_PRIME |-> 23, BETA |-> 19, EC_ORDER |-> 19],
             [FIELD_PRIME |-> 29, BETA |-> 17, EC_ORDER |-> 23]}

OneCurve == {[FIELD_PRIME |-> 23, BETA |-> 19, EC_ORDER |-> 19]}

MCPiDigits == {<<3, 14, 15, 9, 26, 53>>, <<58, 97, 93, 23, 84, 62>>}

MCForeign == {<<5, 7>>, <<20, 3>>, <<12, 17>>}
=============================================================================
