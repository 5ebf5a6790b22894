---------------------------- MODULE MCLspClient ----------------------------
\* Instances of LspClient for TLC.  Calls only differ by name, and so do files.
EXTENDS LspClient, TLC

CONSTANTS a, b, c

CallSymmetry == Permutations(Calls)
=============================================================================
