----------------------------- MODULE MCReactLoop -----------------------------
(* Instances of ReactLoop for TLC. *)
EXTENDS ReactLoop
=============================================================================
