---------------------------- MODULE MCExportPath ----------------------------
(* Model-checking instance of ExportPath: bounds are in the .cfg file.      *)
EXTENDS ExportPath
=============================================================================
