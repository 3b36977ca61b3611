------------------------- MODULE MCSourceSupervisor -------------------------
(* Model-checking instance of SourceSupervisor: bounds are in the .cfg     *)
(* files.                                                                  *)
EXTENDS SourceSupervisor
=============================================================================
