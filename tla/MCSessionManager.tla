-------------------------- MODULE MCSessionManager --------------------------
EXTENDS SessionManager, TLC

\* TEIDs and handlers are interchangeable.
Symmetry == Permutations(Teids) \cup Permutations(S5Teids) \cup Permutations(Handlers)
=============================================================================
