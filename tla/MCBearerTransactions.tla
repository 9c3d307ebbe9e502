------------------------ MODULE MCBearerTransactions ------------------------
EXTENDS BearerTransactions, TLC

\* A request of one bearer context and one of two; another of one context.
TwoContents   == ("one" :> 1) @@ ("two" :> 2)
ThreeContents == TwoContents @@ ("other" :> 1)
=============================================================================
