--------------------------- MODULE MCOutputRouter ---------------------------
(* Model-checking instance of OutputRouter: bounds are in the .cfg file.   *)
EXTENDS OutputRouter
=============================================================================
