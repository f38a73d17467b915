------------------------------- MODULE TillMC -------------------------------
EXTENDS Till, TLC

Symmetry == Permutations(Timers)
=============================================================================
