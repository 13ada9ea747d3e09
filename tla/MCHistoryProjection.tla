------------------------ MODULE MCHistoryProjection ------------------------
(* Root of the run `history` of HistoryProjection. *)
EXTENDS HistoryProjection, TLC

CONSTANTS w1, w2, r1, r2
=============================================================================
