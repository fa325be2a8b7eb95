--------------------------- MODULE MCAutoImprove ----------------------------
(* AutoImprove with the values its configuration gives.                     *)
EXTENDS AutoImprove
=============================================================================
