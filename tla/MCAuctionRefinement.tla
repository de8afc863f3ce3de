------------------------ MODULE MCAuctionRefinement ------------------------
EXTENDS AuctionRefinement
MCFirstOwner == [c \in Cards |-> 1]
=============================================================================
