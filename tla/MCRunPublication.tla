-------------------------- MODULE MCRunPublication --------------------------
(* Root of the run of RunPublication. *)
EXTENDS RunPublication
=============================================================================
