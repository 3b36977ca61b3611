------------------------- MODULE MCInstanceManager --------------------------
(* Model-checking instance of InstanceManager: bounds are in the .cfg      *)
(* files.                                                                  *)
EXTENDS InstanceManager
=============================================================================
