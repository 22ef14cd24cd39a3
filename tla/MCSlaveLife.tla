---------------------------- MODULE MCSlaveLife ----------------------------
EXTENDS SlaveProps, TLC
Symmetry == Permutations(Procs)
=============================================================================
