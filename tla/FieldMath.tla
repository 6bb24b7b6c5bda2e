----------------------------- MODULE FieldMath -----------------------------
(***************************************************************************)
(* starkware/python/math_utils.py: arithmetic over GF(p) and on the curve  *)
(* y^2 = x^3 + alpha * x + beta.  The operators that are "safe to use      *)
(* always" know the point at infinity; the others are partial, and fail    *)
(* an assertion where they are not defined.                                *)
(***************************************************************************)
EXTENDS Integers, FiniteSetsExt

CONSTANT Primes   \* the moduli in use: field primes and curve orders

EC_INFINITY == <<"EC_INFINITY">>
AssertionError == << >>   \* the outcome of a computation that fails an assertion

\* 2^n
power2[n \in Nat] == IF n = 0 THEN 1 ELSE 2 * power2[n - 1]

bit_length(x) ==
  IF x = 0 THEN 0 ELSE CHOOSE b \in 1 .. x : power2[b - 1] <= x /\ x < power2[b]

\* The Bezout coefficient that igcdex finds, reduced: the inverse mod p.
igcdex == [p \in Primes |->
  [m \in 1 .. p - 1 |-> CHOOSE a \in 1 .. p - 1 : (a * m) % p = 1]]

div_mod(n, m, p) == (n * igcdex[p][m % p]) % p

is_quad_residue(n, p) == \E m \in 0 .. p - 1 : (m * m) % p = n % p

sqrt(n, p) == Min({m \in 0 .. p - 1 : (m * m) % p = n % p})

line_slope(point1, point2, p) == div_mod(point1[2] - point2[2], point1[1] - point2[1], p)

ec_double_slope(point, alpha, p) == div_mod(3 * point[1] * point[1] + alpha, 2 * point[2], p)

\* The third point of the line of slope m through point1 and point2, negated:
\* the two lines that end ec_add and ec_double.
ThirdPoint(m, point1, point2, p) ==
  LET x == (m * m - point1[1] - point2[1]) % p
  IN  <<x, (m * (point1[1] - x) - point1[2]) % p>>

ec_add(point1, point2, p) == ThirdPoint(line_slope(point1, point2, p), point1, point2, p)

ec_double(point, alpha, p) ==
  IF point[2] % p = 0 THEN AssertionError
  ELSE ThirdPoint(ec_double_slope(point, alpha, p), point, point, p)

ec_safe_add(point1, point2, alpha, p) ==
  IF AssertionError \in {point1, point2} THEN AssertionError
  ELSE IF point1 = EC_INFINITY THEN point2
  ELSE IF point2 = EC_INFINITY THEN point1
  ELSE IF point1[1] # point2[1] THEN ec_add(point1, point2, p)
  ELSE IF point1[2] = (p - point2[2]) % p THEN EC_INFINITY
  ELSE ec_double(point1, alpha, p)

\* The pairs of residues, the point at infinity, and no point.
Plane(p) == ((0 .. p - 1) \X (0 .. p - 1)) \cup {EC_INFINITY, AssertionError}

ec_safe_mult(m, point, alpha, p) ==
  LET mult[k \in Nat \ {0}] ==
        [q \in Plane(p) |->
           IF k = 1 THEN q
           ELSE IF k % 2 = 0 THEN mult[k \div 2][ec_safe_add(q, q, alpha, p)]
           ELSE ec_safe_add(mult[k - 1][q], q, alpha, p)]
  IN  IF m = 0 THEN EC_INFINITY ELSE mult[m][point]

y_squared_from_x(x, alpha, beta, p) == (x * x * x + alpha * x + beta) % p

\* The y's that recover_y may return: none where it raises NotOnCurveException.
recover_y(x, alpha, beta, p) ==
  LET y_squared == y_squared_from_x(x, alpha, beta, p)
  IN  IF is_quad_residue(y_squared, p) THEN {sqrt(y_squared, p)} ELSE {}

\* Every point that random_ec_point may draw: an x on the curve and a sign.
random_ec_point(p, alpha, beta) ==
  UNION {{<<x, (y_coef * y) % p>> : y_coef \in {1, -1}, y \in recover_y(x, alpha, beta, p)}
         : x \in 0 .. p - 1}

safe_random_ec_point(p, alpha, generator, curve_order) ==
  {ec_safe_mult(m, generator, alpha, p) : m \in 1 .. curve_order - 1}
=============================================================================
