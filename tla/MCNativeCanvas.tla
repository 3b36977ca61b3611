--------------------------- MODULE MCNativeCanvas ---------------------------
(* Model-checking instance of NativeCanvas: bounds are in the .cfg files.  *)
EXTENDS NativeCanvas
=============================================================================
