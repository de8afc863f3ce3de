--------------------------- MODULE MCAuctionHouse ---------------------------
EXTENDS AuctionHouse
\* One seller who owns every card.
MCFirstOwner == [c \in Cards |-> 1]
=============================================================================
