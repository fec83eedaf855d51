------------------------------ MODULE MCCalls ------------------------------
EXTENDS Calls
CONSTANTS a1, b1, alice, bob
TwoTabs == (a1 :> alice) @@ (b1 :> bob)
=============================================================================
