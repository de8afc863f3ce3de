------------------------- MODULE AuctionRefinement -------------------------
(***************************************************************************)
(* The auction service implements the escrow promise.  The held column is  *)
(* not mapped: the pledges are read off the auction tables, so the step by *)
(* step agreement shows that column and tables never drift apart.          *)
(***************************************************************************)
EXTENDS AuctionHouse

PhaseOf(status) ==
  CASE status = "FREE" -> "none"
    [] status \in OpenStatuses -> "open"
    [] status = "SEALED_ENDGAME" -> "veiled"
    [] status = "CLOSED" -> "closed"
    [] status = "SETTLED" -> "done"

\* The refinement mapping: what the escrow calls pledges, prices, phases, sellers
\* and sales, read off the tables.
Pledges == [a \in Auctions |-> [u \in Users |-> Pledge(a, u)]]
VisiblePrices == [a \in Auctions |-> auction[a].current]
Phases == [a \in Auctions |-> PhaseOf(auction[a].status)]
Sellers == [a \in Auctions |-> auction[a].seller]
Sales == [a \in Auctions |-> [winner |-> settlement[a].winner, gross |-> settlement[a].gross]]

PromisedEscrow == INSTANCE Escrow WITH
  Amounts <- BidAmounts,
  Prices <- Nat,
  StartingFunds <- StartingBalance,
  funds <- available,
  pledge <- Pledges,
  price <- VisiblePrices,
  phase <- Phases,
  seller <- Sellers,
  sale <- Sales

\* Every behaviour of the auction service is, seen through the tables, one of
\* the escrow: bids, sealing, replacements in both directions, batches of
\* settlements.
ImplementsEscrow == PromisedEscrow!Spec
=============================================================================
