----------------------------- MODULE MCToolBatch -----------------------------
(* Model-checking instance of ToolBatch; bounds are in the .cfg files. *)
EXTENDS ToolBatch
=============================================================================
