--------------------------- MODULE MCSourceFrames ---------------------------
(* Instance of SourceFrames for TLC; the constants are in the .cfg.        *)
EXTENDS SourceFrames
=============================================================================
