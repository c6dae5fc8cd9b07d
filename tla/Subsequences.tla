---------------------------- MODULE Subsequences ----------------------------
(***************************************************************************)
(* What the promises of the serial link say of a sequence.  Both operators *)
(* are recursive functions: their laws are proved in InductionProofs.      *)
(***************************************************************************)
EXTENDS Integers, Sequences

(* A sequence seen through a function: an element in its domain stands for *)
(* its value, the others are passed over.                                  *)
Longer(v, e, m) == IF e \in DOMAIN m THEN Append(v, m[e]) ELSE v

Images(s, m) ==
  LET F[i \in 0 .. Len(s)] == IF i = 0 THEN << >> ELSE Longer(F[i - 1], s[i], m)
  IN  F[Len(s)]

(* The sum of the weights of its elements.                                 *)
Total(s, w) ==
  LET F[i \in 0 .. Len(s)] == IF i = 0 THEN 0 ELSE F[i - 1] + w[s[i]]
  IN  F[Len(s)]
=============================================================================
