-------------------------- MODULE MCMMERestoration --------------------------
EXTENDS MMERestoration, TLC

\* Two sessions, of two UEs or of one; one of them may be deleted by policy.
UEs        == ("ims" :> 1) @@ ("net" :> 2)
OneUE      == ("ims" :> 1) @@ ("net" :> 1)
Rules      == ("ims" :> {"preserve"}) @@ ("net" :> {"preserve", "delete"})
Priorities == ("ims" :> "normal") @@ ("net" :> "low")
=============================================================================
