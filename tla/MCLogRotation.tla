---------------------------- MODULE MCLogRotation ----------------------------
EXTENDS LogRotation, TLC

\* Processes differ by nothing but their names.
Symmetry == Permutations(Proc)
=============================================================================
