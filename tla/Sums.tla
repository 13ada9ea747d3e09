-------------------------------- MODULE Sums --------------------------------
(***************************************************************************)
(* The product and the sum of a list of numbers: the product over the      *)
(* dimensions of a prompt version and the sums over versions and texts     *)
(* that _compile_batch forms one factor, one term at a time.               *)
(***************************************************************************)
EXTENDS Integers, Sequences

Product(ns) ==
  LET upTo[n \in 0 .. Len(ns)] == IF n = 0 THEN 1 ELSE upTo[n - 1] * ns[n]
  IN  upTo[Len(ns)]

Total(ns) ==
  LET upTo[n \in 0 .. Len(ns)] == IF n = 0 THEN 0 ELSE upTo[n - 1] + ns[n]
  IN  upTo[Len(ns)]
=============================================================================
