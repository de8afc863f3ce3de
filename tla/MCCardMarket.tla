---------------------------- MODULE MCCardMarket ----------------------------
EXTENDS CardMarket, TLC
CONSTANTS alice, bob, c1, c2
MCFirstOwner == (c1 :> alice) @@ (c2 :> bob)
MCStartingFunds == (alice :> 45) @@ (bob :> 40) @@ (Platform :> 0)
MCFirstValue == [c \in Cards |-> 30]
=============================================================================
