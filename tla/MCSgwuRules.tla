---------------------------- MODULE MCSgwuRules ----------------------------
EXTENDS SgwuRules, TLC

\* Requests are interchangeable.
Symmetry == Permutations(Reqs)
=============================================================================
