------------------------- MODULE MCManagedStateLock -------------------------
EXTENDS ManagedStateLock, TLC

\* Processes run the same code: their names are interchangeable.
Symmetry == Permutations(Proc)
=============================================================================
