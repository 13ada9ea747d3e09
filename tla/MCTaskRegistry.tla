--------------------------- MODULE MCTaskRegistry ---------------------------
(* The root of the runs of TaskRegistry; Runs and Clients are sets of       *)
(* interchangeable model values.                                            *)
EXTENDS TaskRegistry, TLC

Symmetry == Permutations(Runs) \union Permutations(Clients)
=============================================================================
