---------------------------- MODULE MCClientInput ----------------------------
(* Instances of ClientInput for TLC. *)
EXTENDS ClientInput
=============================================================================
