------------------------- MODULE MCOutputSupervisor -------------------------
(* One or two outputs; see the cfg files for the bounds.                   *)
EXTENDS OutputSupervisor
=============================================================================
