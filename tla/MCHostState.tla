---------------------------- MODULE MCHostState ----------------------------
EXTENDS HostState, TLC

\* The two host processes run the same code: their names are interchangeable.
Symmetry == Permutations(Proc)
=============================================================================
