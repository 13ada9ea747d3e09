------------------------------ MODULE MCBrowser ------------------------------
(* Root of the run `browser`. *)
EXTENDS Browser, MCSavedBatch

BrowserSymmetry == Symmetry \cup Permutations(Runs)
=============================================================================
