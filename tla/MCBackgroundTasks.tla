-------------------------- MODULE MCBackgroundTasks --------------------------
EXTENDS BackgroundTasks, TLC

\* Tasks differ in nothing but their name.
Symmetry == Permutations(Tasks)
=============================================================================
