---------------------------- MODULE MCRenewLoop ----------------------------
EXTENDS RenewLoop, TLC

\* Hooks differ by nothing but their names.
Symmetry == Permutations(Hook)
=============================================================================
