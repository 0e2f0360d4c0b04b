------------------------------ MODULE MCReview ------------------------------
(* Review for TLC.                                                         *)
EXTENDS Review
=============================================================================
