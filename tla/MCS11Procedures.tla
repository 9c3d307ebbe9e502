-------------------------- MODULE MCS11Procedures --------------------------
EXTENDS S11Procedures, TLC

Symmetry == Permutations(Handlers)
=============================================================================
