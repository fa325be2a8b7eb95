--------------------------- MODULE MCBuilderPass ---------------------------
(* BuilderPass with the values its configurations share.                    *)
EXTENDS BuilderPass
============================================================================
