---------------------------- MODULE MCWorkspace ----------------------------
(* Workspace with one text to write over an empty or an earlier one.        *)
EXTENDS Workspace
=============================================================================
