-------------------------------- MODULE Sums --------------------------------
(***************************************************************************)
(* Sums over an initial segment of the positive integers.                  *)
(*                                                                         *)
(* Ledger entries are numbered 1..n in the order they are posted, so every *)
(* SUM(...) the code asks of the database is a sum over 1..n of a function *)
(* that is 0 where the WHERE clause is false.  The sum is a recursive      *)
(* function, not a RECURSIVE operator and not a fold of the community      *)
(* modules, because SumTheorems proves the facts about it by induction     *)
(* along that segment.                                                     *)
(***************************************************************************)
EXTENDS Integers

\* f[1] + f[2] + ... + f[n]
SumTo(f, n) ==
  LET s[i \in 0..n] == IF i = 0 THEN 0 ELSE s[i - 1] + f[i]
  IN  s[n]

MinOf(a, b) == IF a <= b THEN a ELSE b
MaxOf(a, b) == IF a >= b THEN a ELSE b
Abs(a) == IF a >= 0 THEN a ELSE -a
=============================================================================
