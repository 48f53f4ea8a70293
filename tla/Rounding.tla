------------------------------- MODULE Rounding -------------------------------
(***************************************************************************)
(* Fixed-point arithmetic as the engines use it: a quantity is a whole     *)
(* number of its last decimal place, and a quotient is rounded back to one *)
(* (Decimal.quantize in calculation/, scenarios/ and exports/).            *)
(***************************************************************************)
EXTENDS Integers

\* The default of quantize: to the nearest, a tie to the even neighbour.
HalfEven(n, d) ==
    LET q == n \div d
        r == n % d
    IN  IF 2 * r > d \/ (2 * r = d /\ q % 2 = 1) THEN q + 1 ELSE q

\* ROUND_HALF_UP of the projection and of the percentages in a report.
HalfUp(n, d) == (2 * n + d) \div (2 * d)

Distance(a, b) == IF a < b THEN b - a ELSE a - b
=============================================================================
