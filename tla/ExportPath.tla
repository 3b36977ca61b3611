----------------------------- MODULE ExportPath -----------------------------
(***************************************************************************)
(* The output router's export thread on both of its paths.  Whether the    *)
(* compositor has a native canvas is settled when it is initialised, before*)
(* the router's threads start, so process_frame takes the same branch for  *)
(* every frame: leases of the mailboxes (OutputRouter) or slots of the     *)
(* destination rings (DestExport).                                         *)
(***************************************************************************)
EXTENDS OutputRouter, DestExport

VARIABLE native \* native_canvas.initialized of the compositor

pathVars == <<native, vars, exportVars>>

PathInit == native \in BOOLEAN /\ Init /\ ExportInit

PathNext ==
    \/ native /\ Next /\ UNCHANGED <<native, exportVars>>
    \/ ~native /\ ExportNext /\ UNCHANGED <<native, vars>>

PathSpec == PathInit /\ [][PathNext]_pathVars
=============================================================================
