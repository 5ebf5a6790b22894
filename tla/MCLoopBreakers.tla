---------------------------- MODULE MCLoopBreakers ----------------------------
EXTENDS LoopBreakers
=============================================================================
