--------------------------- MODULE MCBidRequests ---------------------------
EXTENDS BidRequests, TLC
CONSTANTS k1, k2, k3, k4
Of(u, a, amount) == [user |-> u, auction |-> a, amount |-> amount]
MCBid == (k1 :> Of(1, 1, 100)) @@ (k2 :> Of(1, 1, 200))
           @@ (k3 :> Of(1, 2, 100)) @@ (k4 :> Of(2, 2, 200))
MCSeller == <<2, 3>>
=============================================================================
