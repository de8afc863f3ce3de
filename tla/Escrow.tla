------------------------------- MODULE Escrow -------------------------------
(***************************************************************************)
(* What the auction service promises about money, without its tables, its  *)
(* held column, its clock or its idempotency keys: every auction keeps a   *)
(* pledge per user; a pledge is paid out of free funds and comes back in   *)
(* full to all but one user, who pays a price within what he pledged.      *)
(***************************************************************************)
EXTENDS Money, Totals

CONSTANTS NumUsers, NumAuctions, Platform, Amounts, Prices, StartingFunds

Users    == 1..NumUsers
Auctions == 1..NumAuctions
Nobody   == 0

VARIABLES funds, pledge, price, phase, seller, sale

vars == <<funds, pledge, price, phase, seller, sale>>

Sale   == [winner : Users \cup {Nobody}, gross : Prices]
NoSale == [winner |-> Nobody, gross |-> 0]

Init ==
  /\ funds = [u \in Users |-> IF u = Platform THEN 0 ELSE StartingFunds]
  /\ pledge = [a \in Auctions |-> [u \in Users |-> 0]]
  /\ price = [a \in Auctions |-> 0]
  /\ phase = [a \in Auctions |-> "none"]
  /\ seller = [a \in Auctions |-> Platform]
  /\ sale = [a \in Auctions |-> NoSale]

Offer(a, u) ==
  /\ phase[a] = "none"
  /\ phase' = [phase EXCEPT ![a] = "open"]
  /\ seller' = [seller EXCEPT ![a] = u]
  /\ UNCHANGED <<funds, pledge, price, sale>>

\* In the open phase one pledge stands, the visible price; whoever raises it
\* gets his own pledge counted and everybody else gets his back.
Outbid(a, u, p) ==
  /\ phase[a] = "open"
  /\ u # seller[a]
  /\ p >= MinimumBidFor(price[a])
  /\ funds[u] + pledge[a][u] >= p
  /\ pledge' = [pledge EXCEPT ![a] = [v \in Users |-> IF v = u THEN p ELSE 0]]
  /\ funds' = [v \in Users |-> funds[v] + pledge[a][v] - (IF v = u THEN p ELSE 0)]
  /\ price' = [price EXCEPT ![a] = p]
  /\ UNCHANGED <<phase, seller, sale>>

Veil(S) ==
  /\ S # {}
  /\ \A a \in S : phase[a] = "open"
  /\ phase' = [a \in Auctions |-> IF a \in S THEN "veiled" ELSE phase[a]]
  /\ UNCHANGED <<funds, pledge, price, seller, sale>>

\* In the veiled phase everybody may set his pledge, up or down, above the
\* price at which the open phase stopped.
Revise(a, u, p) ==
  /\ phase[a] \in {"open", "veiled"}
  /\ u # seller[a]
  /\ p >= MinimumBidFor(price[a])
  /\ funds[u] + pledge[a][u] >= p
  /\ phase' = [phase EXCEPT ![a] = "veiled"]
  /\ pledge' = [pledge EXCEPT ![a][u] = p]
  /\ funds' = [funds EXCEPT ![u] = @ + pledge[a][u] - p]
  /\ UNCHANGED <<price, seller, sale>>

\* Nobody pledged and nobody wins, or the best pledge wins at a price between
\* the next best pledge and itself.
Fair(a, s) ==
  \/ s = NoSale /\ \A u \in Users : pledge[a][u] = 0
  \/ /\ s.winner # Nobody
     /\ price[a] <= s.gross
     /\ s.gross <= pledge[a][s.winner]
     /\ \A u \in Users \ {s.winner} : pledge[a][u] <= s.gross

\* What user u gets out of auction a when it ends with sale s.
Payout(a, u, s) ==
  pledge[a][u]
  - (IF u = s.winner THEN s.gross ELSE 0)
  + (IF u = seller[a] THEN s.gross - AuctionFee(s.gross) ELSE 0)
  + (IF u = Platform THEN AuctionFee(s.gross) ELSE 0)

\* Some auctions end together; others may be waiting for their turn.
Conclude(S, C) ==
  /\ S \cup C # {}
  /\ \A a \in S : phase[a] \in {"open", "veiled", "closed"}
  /\ \A a \in C : phase[a] \in {"open", "veiled"}
  /\ phase' = [a \in Auctions |->
       IF a \in S THEN "done" ELSE IF a \in C THEN "closed" ELSE phase[a]]
  /\ sale' \in [Auctions -> Sale]
  /\ \A a \in Auctions : IF a \in S THEN Fair(a, sale'[a]) ELSE sale'[a] = sale[a]
  /\ pledge' = [a \in Auctions |-> IF a \in S THEN [u \in Users |-> 0] ELSE pledge[a]]
  /\ funds' = [u \in Users |->
       funds[u] + Total([a \in Auctions |-> IF a \in S THEN Payout(a, u, sale'[a]) ELSE 0],
                        NumAuctions)]
  /\ UNCHANGED <<price, seller>>

Next ==
  \/ \E a \in Auctions, u \in Users : Offer(a, u)
  \/ \E a \in Auctions, u \in Users, p \in Amounts : Outbid(a, u, p) \/ Revise(a, u, p)
  \/ \E S \in SUBSET Auctions : Veil(S)
  \/ \E S \in SUBSET Auctions : \E C \in SUBSET (Auctions \ S) : Conclude(S, C)

Spec == Init /\ [][Next]_vars
=============================================================================
