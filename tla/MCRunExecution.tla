--------------------------- MODULE MCRunExecution ---------------------------
(* Model values and bounds for the runs of RunExecution are in the .cfg    *)
(* files; this module is the root TLC loads.                               *)
EXTENDS RunExecution, TLC
=============================================================================
