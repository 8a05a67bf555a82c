------------------------------ MODULE RowSums ------------------------------
(***************************************************************************)
(* Arithmetic the ledger's SQL leaves to PostgreSQL: sum() over the rows of *)
(* a table in id order, GREATEST, LEAST, and round() to a fixed scale.      *)
(* Everything is a plain operator or a recursive function, so that the      *)
(* modules that use it can also be proved about.                            *)
(***************************************************************************)
EXTENDS Integers

Greater(a, b) == IF a >= b THEN a ELSE b
Lesser(a, b)  == IF a <= b THEN a ELSE b

(* v[1] + ... + v[n]: sum() over the first n rows of a table. *)
SumTo(v, n) ==
    LET s[k \in 0..n] == IF k = 0 THEN 0 ELSE s[k - 1] + v[k]
    IN  s[n]

(* round(n / d) of the type numeric: to nearest, halves away from zero. *)
RoundDiv(n, d) ==
    IF n >= 0 THEN (2 * n + d) \div (2 * d)
              ELSE -((2 * (-n) + d) \div (2 * d))
=============================================================================
