------------------------------- MODULE Money -------------------------------
(***************************************************************************)
(* The money arithmetic of the server.  The code computes with decimal.js  *)
(* values rounded to two places (ROUND_HALF_UP, its default); every amount *)
(* is a whole number of cents here, so a rounded percentage is an integer  *)
(* division with half a cent added first.                                  *)
(***************************************************************************)
EXTENDS Integers

\* One currency unit, `new Decimal(1)` in the code.
Unit == 100

\* p per cent of x cents: times(p/100).toDecimalPlaces(2).
Percent(p, x) == (p * x + 50) \div 100

AtLeast(x, y) == IF x >= y THEN x ELSE y
AtMost(x, y)  == IF x <= y THEN x ELSE y

\* The step a bid must exceed the current bid by: 5 per cent, at least 1.00.
MinIncrement(current) == AtLeast(Unit, Percent(5, current))

MinimumBidFor(current) ==
  IF current = 0 THEN Unit ELSE current + MinIncrement(current)

AuctionFee(gross) == Percent(7, gross)

TradeFee(gross) == Percent(5, gross)
=============================================================================
