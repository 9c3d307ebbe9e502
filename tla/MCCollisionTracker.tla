------------------------- MODULE MCCollisionTracker -------------------------
EXTENDS CollisionTracker, TLC

CONSTANTS s1, s2

\* One PDN session with a default and a dedicated bearer.
OneOwner   == (5 :> s1) @@ (6 :> s1)
OneDefault == s1 :> 5

\* Two PDN sessions with a default bearer each; s2 was stored last.
TwoOwner   == (5 :> s1) @@ (6 :> s2)
TwoDefault == (s1 :> 5) @@ (s2 :> 6)
=============================================================================
