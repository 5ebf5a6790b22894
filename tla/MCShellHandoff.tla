--------------------------- MODULE MCShellHandoff ---------------------------
(* Instances of ShellHandoff for TLC. *)
EXTENDS ShellHandoff
=============================================================================
