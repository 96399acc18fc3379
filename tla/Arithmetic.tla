------------------------------ MODULE Arithmetic ------------------------------
(***************************************************************************)
(* Two's complement integers and C's division.  A width is given by its    *)
(* half, 2^(bits - 1): the numbers of that width are -half .. half - 1.    *)
(***************************************************************************)
EXTENDS Integers

Signed(half) == (-half) .. (half - 1)

Wrap(half, n) == ((n + half) % (2 * half)) - half

Abs(n) == IF n < 0 THEN -n ELSE n

(* Truncates towards zero.                                                 *)
Quotient(a, b) ==
  LET q == Abs(a) \div Abs(b) IN IF (a < 0) = (b < 0) THEN q ELSE -q

Operation(op, a, b) ==
  CASE op = "+" -> a + b
    [] op = "-" -> a - b
    [] op = "*" -> a * b
    [] op = "/" -> Quotient(a, b)

=============================================================================
