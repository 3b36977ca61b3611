------------------------------ MODULE MCEncoder ------------------------------
(* One SRT output and one branch of the pipeline; a caller that may go and *)
(* come back any number of times.                                          *)
EXTENDS Encoder
=============================================================================
