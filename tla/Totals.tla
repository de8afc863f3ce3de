------------------------------- MODULE Totals -------------------------------
(***************************************************************************)
(* The sum f[1] + ... + f[n] of an integer function, as a recursive        *)
(* function over 0..n: the index order makes it provable by induction on n *)
(* (module ArithmeticProofs).                                              *)
(***************************************************************************)
EXTENDS Integers

Total(f, n) ==
  LET upTo[i \in 0..n] == IF i = 0 THEN 0 ELSE upTo[i - 1] + f[i]
  IN  upTo[n]
=============================================================================
