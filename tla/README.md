# PullVault: a verification project

PullVault sells packs of trading cards, lets users trade the cards at fixed
prices or in auctions, and keeps everybody's paper money.  This directory holds
TLA+ models of the server (`apps/server`), the TLC configurations that check
them on small instances, and proofs of their main theorems for instances of any
size.  Paths below are relative to `apps/server/src` unless they start
elsewhere.

## 1. The system

All durable state is in PostgreSQL; every money-moving request runs in one
transaction (`db/pool.ts`, `withTx`) that locks the rows it decides on with
`select ... for update`.  Redis holds what may be lost: cached responses, bid
pacing, request limits and the fairness queue.  Timers in `workers/index.ts`
drive settlement, prices, drops, snapshots, rebalancing and the fairness queue.

| Component | State | Operations | Interacts with |
|---|---|---|---|
| Auction service (`services/auctionService.ts`) | `auctions`, `bids`, `sealed_bids`, `auction_settlements`, `auction_integrity_flags` | create, list, snapshot, bid, settle | balances, cards, settlement timer, sockets |
| Balances (`services/balanceService.ts`) | `balances` (available, held), `ledger` | debit, credit, hold, release, spend held | auctions, listings, packs |
| Card market (`repositories/cardMarketRepository.ts`) | `cards.owner_id`, `card_market_state` | lock, change state, change owner | auctions, listings, packs |
| Bid requests (`controllers/auctionController.ts`, `middleware/idempotency.ts`) | cached responses in Redis | look up, call, cache | auctions |
| Listings (`services/listingService.ts`) | `listings`, `trade_transactions`, cached responses | list, buy | balances, card market, settlement |
| Packs (`services/packService.ts`) | `drops`, `pack_purchases`, `cards` | buy, reveal, admin update | balances, fair openings, fairness queue |
| Fair openings (`services/provablyFairService.ts`, `packages/common/src/provablyFair.ts`) | `pack_fairness_commitments`, `pack_opening_fairness`, `pack_opening_audit_events` | reserve, consume, reveal, append to the audit chain, draw rarities | packs, pack economics |
| Fairness queue (`services/fairnessQueueService.ts`, `middleware/rateLimit.ts`) | Redis status, window, queue, results, lock | open, queue, draw, claim, complete | packs, monitoring timer |
| Request limits (`services/rateLimitService.ts`) | sliding windows in Redis | check and consume | every route, bot detection |
| Bot detection (`services/botDetectionService.ts`) | timing history and accounts per address in Redis | judge a request | request limits |
| Pack economics (`services/packEconomicsService.ts`) | `pack_config_versions` | optimise, check drift, rebalance, activate | packs, prices, timer, admins |
| Accounts, analytics, price engine, snapshots, sockets | | reporting, notification, input | |

What is hard about it:

* **Interleaving.** Requests, timers and admins run concurrently.  A
  transaction is atomic once it holds its locks, but lookups before the locks,
  steps between two transactions and everything in Redis interleave.
* **Money in two columns.** A user has one `held` column for all auctions.
  Who has how much of it in which auction is nowhere stored; every bid and
  every settlement recomputes it from the auction tables.
* **Phases driven by reads.** An auction enters its sealed endgame when
  somebody looks at it or bids, not when the clock says so.
* **Batches.** A settlement tick settles up to a hundred auctions in one
  transaction: one that fails takes the others with it.
* **Retries.** Clients repeat requests with the same idempotency key; the
  worker repeats its ticks.
* **Row locks.** Bids, purchases and settlements lock balances in orders of
  their own, so they may wait for each other in a circle; PostgreSQL then aborts
  one of them.
* **Long computations without a lock.** A rebalance optimises for seconds
  between reading the weights and replacing them.

What makes each component correct:

* auctions: held column = pledges; money is conserved; the sale is at a fair
  second price; the endgame is blind and frozen; a settled auction is final;
  every auction gets settled; no settlement can fail;
* cards: one market at a time, owned by the seller until sold;
* packs: no more purchases than inventory, each charged once at the price on
  sale, each with its own commitment, never more than the limit per user, and nobody
  refused what his key has bought;
* fairness queue: one draw at a time, after the window, one purchase per slot;
* limits: never more requests through a window than it allows, refusals cost
  nothing, nobody is blocked for one sign or for where he comes from;
* listings: a card in one market, one sale per listing and per key, no lost
  balance update, true answers, every purchase ends;
* pack economics: one active version, the best weights the margin allows, a cap
  that can always be met, packs drawn by the active weights, no connection leaked,
  every rebalance ends unless the pool of connections is exhausted.

## 2. The modules

| Module | Models |
|---|---|
| `Money` | decimal arithmetic in cents: rounded percentages, increments, fees |
| `Totals` | the sum of a function over 1..n, as a recursive function |
| `AuctionHouse` | the auction service with balances and card market |
| `Escrow` | what the auctions promise about money, without tables or clock |
| `AuctionRefinement` | the mapping by which `AuctionHouse` implements `Escrow` |
| `PackDrop` | buying packs query by query, seed commitments, the audit log |
| `FairnessQueue` | the fairness window of a drop: Redis keys, requests, timer, monitor and admin draws |
| `BidRequests` | bid requests and the settlement worker, lock by lock |
| `CardMarket` | listings, their purchase, and the settlements and auctions that share their rows |
| `RequestLimits` | the sliding windows behind the bot detector, over a Redis that fails |
| `RarityWeights` | the optimiser of pack weights, as operators |
| `FairOpening` | from weights and a roll to the rarity of a card, as operators |
| `PackEconomics` | the versions of the weights and the processes that replace them |
| `MC...` | constants of the runs of the module they are named after |
| `ArithmeticProofs` | lemmas on fees, on sums over 1..n and over finite sets, on best and highest elements |
| `AuctionHouseProofs` | types, all safety and action properties of the auctions, and that they implement `Escrow` |
| `CardMarketProofs` | one market per card, one sale per listing and key, balanced books, true answers, owners who bought |
| `BidRequestsProofs` | drafts fit the tables, the interleaved bids implement `Escrow`, only replaced bids return |
| `PackDropProofs` | types, no oversell, no lost debit, the limit, commitments used once, the price charged, true answers |
| `FairnessQueueProofs` | types, one draw at a time, own lock only, slots never multiply |
| `RequestLimitsProofs` | windows never exceeded, refusals cost nothing, weak signs never block |
| `PackEconomicsProofs` | versions in order and valid, the search finds the best mix, the cap can be met, draws follow the weights, no connection leaks |

`AuctionHouse` has whole transactions and all rules of an auction; `BidRequests`
has few rules and every lock; both implement `Escrow`, with the same reading of
the tables.  `CardMarket` has the same settlement from the other side: what a
purchase of a listing can do while it runs.  `PackEconomics` extends `FairOpening`,
which extends `RarityWeights`.

### AuctionHouse and the code

One action is one committed transaction.  A request that the code rejects is
rolled back and is no step; its guards are the code's early returns.

| Action | Code |
|---|---|
| `CreateAuction` | `createAuctionForCard` |
| `GetLiveAuctions`, `GetAuctionSnapshot` | the sealing done by the two reads |
| `AskConfirmation` | `placeBid` up to the confirmation answer; the sealing it may have done is committed |
| `PlaceSealedBid`, `PlaceOpenBid` | the two branches of `placeBid`, with balances, upsert or insert, extension |
| `SettlementTick` | `settlementTick`: closing what expired, then settling the oldest closed auctions, integrity review included |
| `Tick` | the passing of time |

| Variable | Rows |
|---|---|
| `available`, `held` | `balances` |
| `auction` | `auctions` (status, times, extension count, visible bid and leader, whether a sealed phase began) |
| `sealed`, `sealedKey` | `sealed_bids`, one row per auction and bidder |
| `bids` | `bids` without amounts, which nothing but a listing of the history reads |
| `owner`, `market` | `cards.owner_id`, `card_market_state` |
| `settlement`, `flags` | `auction_settlements`, `auction_integrity_flags` |
| `clock` | seconds; every comparison of the code is between whole seconds here |

A settlement tick handles its batch in one loop of balance updates.  The model
adds up what the loop draws from and credits to every column (`DrawnBy`,
`CreditedBy`) and applies it at once; the guard that every held column covers
the whole sum is the "Held balance underflow" check of every iteration, since
within a batch nothing is ever added to a held column.  The 30-day window of the
repeated-pair flag is longer than any behaviour of the model and is left out.
A market value is an arbitrary member of `MarketValues` whenever it is read,
because the price engine changes it at any time.  Auction ids are given out in
order, and users are compared by number where the code compares ids.

### PackDrop and the code

A purchase locks three rows one after another and decides after each of them, so
here a transaction is not one step: a step ends where it waits for a lock or
where a failure would leave something behind.  What a request has locked follows
from how far it got (`HasDrop`, `HasSeed`, `HasBalance`).  Its writes are gathered
in the request and reach the tables in `Commit`, since no other transaction
sees them earlier; what it wrote itself it does not read again.

| Action | Code |
|---|---|
| `Arrive`, `FindReserved`, `CreateCommitment` | `buyPackController`, `reserveFairnessCommitment`: two queries, so two requests may be given one commitment |
| `FindPurchase` | the lookup by key before any lock |
| `LockDrop` | the locked drop, its dates and stock, the advisory lock, the limit |
| `LockSeed` | the locked commitment and its four checks |
| `Debit` | the locked balance, and the inserts guarded by unique columns |
| `AppendAudit` | `appendOpeningAuditEvent`, up to the latest event it can see |
| `Commit` | everything the transaction wrote; the answer may be lost |
| `QueryFails` | a query or a call of Redis fails: inside the transaction this ends in the catch block, outside of it (the reservation, the card pool, the lookup of the catch block, the cache write after the purchase) the error is the answer |
| `Recover` | the catch block, which looks for the purchase once more, after a failure as after a refusal |
| `Reply` | the answer is stored in Redis and sent |
| `Replay`, `Expire` | a repeated request is answered from Redis, or with an error when Redis fails; the time to live of an answer |
| `Vanish` | a connection or the server is lost; nobody gets an answer |
| `Reveal`, `Lapse`, `AdminPrice` | `revealPack`, `expires_at`, `updateDrop` |

| Variable | Rows |
|---|---|
| `inventory`, `price` | `drops` |
| `available`, `ledger` | `balances.available_balance`; the sum of a user's `PACK_PURCHASE` rows of `ledger` |
| `purchases` | `pack_purchases` joined with `pack_opening_fairness` |
| `seed` | `pack_fairness_commitments`, numbered in the order of `reserved_at` |
| `audit` | `pack_opening_audit_events`, an event standing for its hash |
| `cached` | the answers in Redis, by the purchase they tell of |
| `req`, `told` | locals of the running requests; how often clients were given each answer (history) |

Three answers are told apart, as by the status and the message of the response:
"bought", "refused" (a check of the purchase says no) and "error" (something failed).
An error says nothing of the purchase: the cache write, for one, may fail after the
purchase is committed.  A refusal does, and a client may act on it, so `AnswersAgree`
speaks of the first two.  It looks at every single answer given, whatever was
answered before.  `Sales` are the triples of user, drop and key clients ask for; one
key may be used for two drops.

A drop that is not on sale yet or any more refuses like one that is sold out, so
`LockDrop` may refuse at any time.  The event number is larger than all numbers
given out; the gaps of the `bigserial` are left out, nothing depends on them.
The commitment that `buyPack` reserves itself when it is given none is not in the
model: the controller always names one.  The snapshot of the card pool is
inserted once and then found; that its first insertion makes others wait is left
out.  The fairness queue in front of `buyPack` is modelled in
`FairnessQueue`, and the cards of an opening, a function of its seed, nowhere.  The
bootstrap script restocks the drops by hand, outside of the service.

### FairnessQueue and the code

Nothing here is a transaction: every `await` is a step of its own, and what a
handler remembers across it (the window it read, the inventory, the members, its
claim) is in `call`.  Several awaits are one step only where nothing between
them is decided on stale data: a Lua script with the read of the window before
it, or reads that are followed by no write.

| Action | Code |
|---|---|
| `Arrive`, `MeasurePressure`, `CheckReady`, `CheckQueueResult`, `ClaimSlot`, `JoinQueue`, `Enqueue` | `packPurchaseMiddleware` and the queue's methods it calls |
| `Buy`, `BuyAgain`, `BuyFails`, `LookupFails`, `CompleteSlot`, `CacheResponse`, `GiveBackSlot` | `buyPackController`; the purchase itself is one transaction |
| `ReadStock` ... `ReleaseLock` | `processFairnessWindow`, entered by requests, timer, monitor and admin |
| `TimerFires` | the timer of `scheduleWindowProcessing` |
| `MonitorStarts`, `MonitorMeasures`, `MonitorDraws` | `monitorFairnessQueues` |
| `AdminDraws` | `processFairnessQueueController` |
| `QueueingEnds`, `KeysExpire`, `LockExpires`, `Restart` | time to live of the keys, and the end of the process |

`status` and `window` are the two keys that `getWindowState` reads, `queue` and
`result` the sets and hashes per window, `lock` the processing lock with its
token, `timers` the map `scheduledWindows`.  Window ids are numbered in the order
they are opened instead of by milliseconds, and the SHA-256 order of the users
is an arbitrary injective `Rank`.  Whether a drop is under pressure is an
arbitrary answer, as it depends on requests outside the model.  `wins` and `uses`
are history variables.  With `RedisFails` every Redis call may fail as its catch
block handles it; with `LockOutlives` the lock may expire under a running draw.

### BidRequests and the code

A key stands for one bid (`Bid[k]`: user, auction, amount), sent as often as the
client likes.  Everything a transaction has locked and written is in `tx[p]` and
reaches the tables when it commits.

| Action | Code |
|---|---|
| `Arrive` | `placeBidController` and the two lookups by key at the start of `placeBid`, which take no lock; a key that is found is answered and takes no step |
| `LockAuction` | `getAuctionForUpdate`, the checks, `maybePromoteAuctionToSealed` |
| `IsPaced` | the cooldown and the sliding window refuse, or Redis fails |
| `ChangesBalance` | the locked balance with `holdFunds` or `releaseFunds`; for the worker with `releaseFunds`, `spendHeld`, `creditAvailable` |
| `BidCommits` | `updateAuctionOpenBidState` and `insertBid`, or `upsertSealedBid`, and `COMMIT` |
| `SettlementStarts`, `NextLot`, `SettlementCommits` | `settlementTick` |
| `DeadlockVictim`, `Restart` | PostgreSQL's choice among transactions in a circle; the end of the process |
| `Opens`, `TimePasses`, `IsSealed` | creation, the clock, the sealing by `getLiveAuctions` |

| Variable | Rows |
|---|---|
| `auction`, `time` | `auctions`: status, visible bid and leader; `time[a]` is the clock relative to `end_time` (before, in or after the sealed minute) |
| `sealed`, `bids` | `sealed_bids` with amount and key; the keys in `bids` |
| `balance` | `balances` |
| `sale` | `auction_settlements` |
| `tx`, `done` | running requests and the worker; the keys whose bids were carried out (history) |

A settlement releases the losers in the order of their bids; those with equal bids
come in the order of their updates, which nothing else in the model depends on, so
`NextLot` takes any (`Ranked`).  Winner and price are functions of what is at stake
(`TopCandidate`, `SecondPrice` of `Stakes(a)`), as in `computeSecondPriceFromCandidates`.

Left out, because `AuctionHouse` has it: the confirmation, durations and extension
counts (an extension is a step of `time` back), the limit of a batch, the integrity
review.  Left out altogether: the Redis state of the pacing, which may refuse any
bid; in the code the cooldown is stored before the bid commits, so a bid that
fails for lack of funds still costs its time.  Auctions end one after another
(a bound, in `TimePasses`).

### CardMarket and the code

| Action | Code |
|---|---|
| `ListCard`, `AuctionOpens`, `AuctionEnds` | `listCard`, `createAuctionForCard`; an auction ends with the bid of somebody held, or without one |
| `Arrive`, `FindTrade`, `LockListing`, `LockCard`, `PayBalance`, `BuyCommits` | `buyListingController` and `buyListing`, one step per lock |
| `Recover`, `CacheResponse`, `CacheExpires` | the catch block, which looks for the trade once more; `setIdempotentResponse` and its time to live |
| `SettlementStarts`, `NextLot`, `SettleBalance`, `SettlementCommits` | `settlementTick` |
| `DeadlockVictim`, `Restart`, `PriceTick` | as above; `runPriceTick` writes values only |

| Variable | Rows |
|---|---|
| `card` | `cards` (owner, what was paid, value) with `card_market_state` |
| `listing`, `trades` | `listings`, `trade_transactions` |
| `auction` | `auctions` with `auction_settlements`, reduced to seller, winner and price |
| `balance` | `balances` |
| `cached` | the responses in Redis by user and key: the listing they speak of |
| `tx` | running requests and the worker |

`ListCard` locks its three rows in one step: it holds nothing while it waits for
the first of them and nobody asks for the others before it.

### RequestLimits and the code

Time is in ticks; `log[t][k][a]` counts the requests of route type `t` for user or
address `k` that are `a` ticks old, which is all a window can tell.  A script that
runs is atomic; its answer may be lost (the second disjunct of `Limited`, `Heard`).

| Action | Code |
|---|---|
| `PlainRequest` | `rateLimitMiddleware` with `checkRateLimits` |
| `WatchedRequest` | `botDetectionMiddleware` with `analyzeRequest`, then the same with the tightened windows when the detector says throttle |
| `Tick`, `GrowsUp`, `Forget` | the clock, the age of an account, the expiry of what is known of an address |
| `RedisFails`, `RedisRecovers` | calls fail in between; reads then pass unlimited, writes are refused |

`pace` is the timing history of a user, `accounts` what is known of an address,
`passed` (history) the requests let through.  Scores are sums of doubles in the
code; in tenths they are exact except that 0.3 + 0.6 falls short of 0.9 (`IsBlocked`).
The age of an account is judged from its row; a token without a row scores 0.5, a failing
query 0, and the model allows both for every request (`AccountScores`).
Redis runs both of the detector's scripts for a request or neither, though each
answer may be lost on its own.  Left out: windows that are longer than `Expiry` ticks,
the headers and Retry-After (the code gives the shortest of the saturated windows, so
that a client that waits for it can still be refused), the bot score and the flags
that are stored and never read, and the log rows.

### RarityWeights, FairOpening, PackEconomics and the code

The optimiser is translated operator by operator, under its own names
(`projectWeightsToConstraints`, `allocateGreedy`, `findOptimalAlpha`, ...), over integer
weights that sum to `One`; the code has floating-point numbers, whose rounding is left
out.  The mix between the two ends has `Steps` = 2^`Iterations` steps, which the
bisection (`Bisected`) halves as often as the loop of the code does, fifty times there;
`One` and the bounds are multiples of `Steps`, so that every mix is exact.  The sorted
lists of the code are sets of predecessors: `Cheaper` and `Dearer` by market value,
`Before` by name, where `Rank` is the place of a rarity in the alphabet.  The seeds of
`EconomicsAssumption` name rarities only and are acceptable, and `OpeningAssumption`
bounds the number of rarities by their square being at most twice `Micros` (six and a
million in the code): with more, rounding could take more from the heaviest rarity than
it has.  A simulation is an arbitrary win rate and a mean within `Noise` of the
expectation over the market as it is when it runs (`SimulatedEV`), which is not the one
the candidates were computed from, or an exception when the drop is gone.

| Action | Code |
|---|---|
| `Scheduled`, `OpenCheck`, `CheckDrift` | the rebalance interval, `rebalanceIfNeeded`, `checkDrift` before and after its second connection |
| `Inquire`, `LookAtMarket` | `simulateController`, `driftStatusController`: one connection, then a second one |
| `Manual` | `rebalanceController` |
| `Start`, `ReadMarket`, `Optimise` | `rebalanceTier` with its connection, `optimizeForTier` with its second one |
| `ReadVersion`, `InsertVersion`, `Activate` | the transaction: `getNextVersion`, `createConfigVersion`, `activateConfig` |
| `MarketMoves`, `Restart` | prices and the card pool change; the process ends |

`configs[t]` are the committed versions of a tier, `market` the averages by rarity,
`used` the connections that are taken, `proc` the running rebalances.  A tier always has
an active version: the server does not start without one.

A rebalance, a drift check and an inquiry keep one connection (`pool.connect`) while
`getPoolMarketCards` asks for a second (`packMarketDataService.ts:44`).  An administrator's
request does so for three tiers at the same time, requests may overlap, and the
pool, of ten connections by the default of `pg`, has no timeout.  So the pool can be
exhausted: as many wait for a second connection as there are, and none of them, nor
anybody else, goes on until the server restarts.  The model has that state
(`Exhausted`), and `PoolSize` is any positive number; the second connection is returned
before anything else is asked for, so it is not counted but only has to be free
(`used < PoolSize`).  Other handlers keep one connection and ask for no other, so they
delay the waiting but cannot stop it; they are left out.

Definitions ending in `Bug` are no part of the model: each is a plausible
mistake in the definition that follows it, and shows which property notices.

## 3. The runs

`CHECK_DEADLOCK FALSE` in the auction, pack and market runs and in `pack_audit`:
with a bounded clock, a bounded number of auctions, listings or requests the models
stop when there is nothing left to do.  That transactions do not wait for one
another's locks in a circle for ever is checked by `EveryRequestEnds`,
`EveryPurchaseEnds`, `EveryBidEnds` and `RebalancesEnd`.  The other runs check for
deadlock.

| Run | Question |
|---|---|
| `auction_single` | One auction, two bidders with open and hidden bids, both kinds of duration, extensions: is money conserved, are sales fair, do hidden bids beat the open one, is the endgame blind, does a short auction stay without one however often it is extended? |
| `auction_pair` | Two auctions over one held column per user, settled in one transaction or one after the other, with late extensions: they implement `Escrow`, the held column is the sum of the pledges, no settlement can fail, every auction is settled in the end under the fairness below and never again, repeated pairs are flagged exactly from the threshold on, also when one transaction makes the sales. |
| `bids` | Two bid requests at a time and the settlement worker, lock by lock, with repeated keys, deadlocks, aborts and restarts: what they commit is still one whole step of `Escrow` on the tables as they are, a key acts twice only in one case, and every request ends. |
| `market` | Two traders, two cards, two listings and an auction, two purchases at a time with one key, settlement, price tick, restarts, deadlocks: is a card in one market, does a listing or a key buy once, do balances add up, are answers true, does ownership change only by a purchase, does every purchase end? |
| `pack_buy` | Two requests at a time, of one or two users, for two drops, with keys and commitments shared, repeated, foreign or lapsed, failing queries and calls of Redis, lost answers, replays from the cache and a price change: is anything oversold, overwritten or charged twice, is anybody refused what he has bought, and does every request end? |
| `pack_audit` | Violated: purchases of two drops fork the audit log (finding). |
| `queue_slots` | Two requests of one user with different keys, and a timer, that draw, claim, buy, complete and give back: a slot never serves more purchases than it was won. |
| `queue_lock` | Timer, monitor, admin and a request draw with failing Redis calls and a restart: as long as draws are faster than the lock there is one at a time. |
| `queue_liveness` | Two users compete for one pack.  Draws slower than the lock overlap, but none deletes the lock of its successor; an opened window is drawn by its timer, or expires. |
| `queue_slot_reuse` | Violated: two draws of one window hand out a used slot again (finding). |
| `limits` | Two users behind one address, one of them new, on a watched and on a plain route, with an outage of Redis and lost answers: do windows hold, do refusals cost nothing, does room return, can one sign alone, or a new account at a shared address, get somebody blocked? |
| `economics` | The worker and an administrator rebalance two tiers and inquire, with two connections, while prices move, a rarity leaves and returns, drops sell out and the server restarts: are versions in order, does the search find the edge, can the cap always be met, are packs drawn by the weights, does anything but an exhausted pool keep a rebalance from ending? |

`BidsImplementEscrow` and `ImplementsEscrow` refine the same `Escrow`.  There an
auction's money is one relation (`funds`, `pledge`, `price`) and a bid, a sealing and a
conclusion are single steps; the two mappings read pledges off the tables.

`OnlyReplacedBidsReturn` states exactly how far the promise of
`docs/ARCHITECTURE.md:85` goes ("Idempotency key prevents duplicate financial side
effects"): `upsertSealedBid` overwrites the key of a bidder's earlier sealed bid, so a
late repetition of that one is not recognised any more and replaces the newer bid.
Every other repetition has no effect, also when two requests with one key pass the
lookups together: the second finds the first one's price and is too low.

Where documentation and code differ in behaviour the models have, but that no run
is spent on:

* the row returned by the sealing update has no market value, so the confirmation rule
  is another one for the bid that seals an auction (`auctionService.ts:368`);
* low competition is judged by the number of visible bids, also after a sealed
  endgame (`auctionService.ts:214`);
* the queue's monitor draws as soon as there is pressure and somebody queues, before
  the window has closed (`workers/index.ts:118`);
* a user who joins the queue during a draw gets no result (`fairnessQueueService.ts:38`);
* a rebalance is capped against the weights it read before it optimised
  (`packEconomicsService.ts:544`); one that overlaps another may replace weights it was
  never compared with, against `docs/ARCHITECTURE.md:349` ("currently active config");
* lookups of a bid's key do not look at the auction, so a key that was used on another
  auction is answered as accepted; likewise the response cache of listings answers
  with another listing's purchase (`listingController.ts:18`), where `buyListing` itself
  would refuse;
* a price tick announces the owners it read before it took any lock, and a resale
  overwrites `cards.acquisition_value`, so that the proof of an opening reports
  `checks.cards` false for a card that was sold on;
* an exception in one tier of `rebalanceIfNeeded` ends the loop, so later tiers wait for
  as long as it recurs (`packEconomicsService.ts:579`), for instance when a rarity has
  left the pool and the cap cannot be met.

Bounds.  Two bidders besides the seller are enough for outbidding, ties, runner-up
prices and losers with and without hidden bids; two auctions make the columns shared and
let one transaction settle two sales of one pair, or two transactions one each.  The
limit of a batch (a hundred in the code, two in `auction_pair`) is not exceeded in any run:
three auctions are beyond the time of a run, so that some have to wait for a later batch
is covered by the theorems, for every limit, and by no liveness check.  Bid amounts are chosen so that raises below
and above the increment, insufficient funds and both sides of the confirmation rule
occur; times are multiples of half a minute around the window of sixty seconds, the
trigger zone of thirty before it and the limit for a sealed phase.  That limit is one
hundred and twenty seconds in the code; `auction_single` lowers it to 96, which a
one-minute auction reaches with three extensions, and `auction_pair` widens the trigger
zone to sixty seconds, so that time can pass in steps of a minute and late bids still
occur.  The clock is bounded by `MaxTime`, and an auction is only created when all its
extensions fit below it.

For packs two requests are enough for every race between two transactions, and
since a connection serves one request after another the second one may be a
retry.  One drop has a single pack and the other two, the limit is one per drop,
and the money is enough for one pack of the higher or two of the lower price.
There are as many commitments as requests, so that one can always be reserved
(`NumSeeds` >= `MaxArrivals`).

For the queue two requests (of one user where he could use one slot twice, of two
users where they compete) and one or two background draws are enough for every
race between two holders of stale data; one window is enough, except that a
stale draw of an older window may keep the lock just when the timer of the next
one fires, so that only the next request or monitor round draws it: the
liveness run has one window and leaves this out.  `MaxDraws` bounds the monitor
and admin draws only; draws by timers and requests are bounded by the windows.

For `bids` two requests and the worker are enough for waiting in a circle, of two
requests or with the worker; two bidders, two auctions and four keys (two bids of one
user on the first auction, one of each user on the second) let a bid be raised,
displaced, replaced, repeated and refused for lack of funds, and make both auctions share
balances.  In `market` the two listings share a seller's balance with the auction, one
key is used for both listings, and the money is enough for one of them.  In `limits` the
windows are one and two ticks with limits one and two for a user and two and three
for the address; a third request in a row can make the intervals equal, and two
users exceed `MaxAccounts` = 1.  In `economics` three rarities, three markets (one of
which lacks a rarity and one of which orders them differently), a cap of six eightieths,
four steps of the mix and a second version of one tier make the projection go both ways
and let two rebalances take the same number; `MaxVersions` bounds acceptance only.  Two
connections for the worker and one administrator make both happen: one waits for the
other, and both wait for ever.

Fairness.  `Tick` and `SettlementTick` are weakly fair: time passes, and `setInterval`
fires every five seconds for as long as the server runs, also after a tick that failed.
In the queue the end of the queueing time, due timers and the awaits of a draw are
weakly fair, and the liveness run has no restart (timers are in memory only) and no
failing Redis call.  No user is assumed to do anything.  In `PackDrop` the next query of
a request is weakly fair: PostgreSQL answers, and grants a lock when it is free (waiters
queue there; here, with a bounded number of requests, nobody can be overtaken for ever).
Failures (`QueryFails`, `Vanish`) are allowed at every step and never required.  In
`BidRequests` the steps of a request, and those of the worker, and in `CardMarket` those
of a purchase, are strongly fair: PostgreSQL grants a row in the order of asking, so
nobody is overtaken for ever by requests that keep arriving, and its detector ends every
circle of waiting.  In `RequestLimits` only the clock is fair.  In `PackEconomics` each
process is strongly fair: its queries are answered, and the pool of `pg` serves those who
wait for a connection in the order of asking, so one that becomes free again and again
reaches everybody.  `RebalancesEnd` still has its exception: with an exhausted pool none
becomes free.

## 4. The theorems

Every theorem holds for every value of the constants that satisfies the named
assumptions of its module (sizes are naturals, money and times are naturals, the
platform is an account, the placeholders for nobody and no key are none of the
real ones); TLC evaluates these assumptions in the runs.

### The auctions

For every number of users, cards and auctions, every set of amounts, durations and
market values, and every setting of the timing constants (`AuctionHouseProofs`):

* `TypeCorrect`: no balance column ever goes negative.  The argument is about
  `Settle`: a column is lowered by what the guard covers, and raised by
  credits that are naturals because `AuctionFee(x) <= x`.
* `SealedBidsCorrect`: a hidden maximum exists only after the open phase and
  beats the visible price.
* `SettledCorrect`, `EndgameCorrect`, `ShortAuctionsCorrect`: from a case
  analysis of what one step can do to one auction.  `RowSteps` says that its row is
  kept, sealed, offered, bid on openly or secretly, closed or settled, and with which
  fields changed; each property is then an argument about seven cases.  For
  short auctions the invariant `RowsShaped` adds that the end of an auction is its start,
  its duration and its extensions, so that the duration which the code recomputes is
  the original one (`DurationRecovered`).
* `SalesCorrect`: `SalesInv` adds that neither the leader nor a hidden bidder is the
  seller, that a leader has bid at least one unit and that a recorded sale stays fair,
  because the row and the hidden bids of a settled auction do not change.  What is fair
  at the settlement follows from `CandidatesPay` (whoever is a candidate has offered at
  least the visible price, and more if in secret) and `ClearingPriceBounds`.
* `PairsCorrect`: by counting.  The review gives each auction of a batch its position
  among the pair's settlements, ordered by end and id; the positions of a batch are an
  interval that starts after the earlier settlements (`PositionsFrom`, by induction on the
  size of the set, with the last element of the order removed), so all but the
  first `PairThreshold - 1` are flagged.  The assumption `PairThreshold > 0` is needed and
  is the code's constant (`auctionService.ts:221`).
* `HeldCorrect`: every held column is the sum of the pledges.  The invariant
  needs strengthening to be inductive: nobody leads an auction that has no
  visible bid, an unused auction has no bids at all, and the seller has no bid.
  A bid changes one term of one or two sums (`TotalUpdate`), a settlement sets the
  terms of the batch to zero.
* `NeverAbortsCorrect`, `BatchesAreCovered`: what settling an auction draws
  from a column is the pledge in it, so any batch is covered by the column.
* `ConservationCorrect`: for one sale what is credited is what is drawn
  (`SaleBalances`); for a batch, by exchanging the two sums (`BatchBalances`).
* `EscrowImplemented`: the initial states are initial states of `Escrow`, and under
  `EscrowInv` (types, hidden bids, shapes of rows, fair sales, no sale of an unsettled
  auction) every step is one of `Escrow` or leaves what it sees alone: a read or a
  question that seals is `Veil` (`SealingVeils`), a creation is `Offer`
  (`CreationOffers`), a hidden bid is `Revise` (`HiddenBidRevises`), an open one `Outbid`
  (`OpenBidOutbids`), and a settlement is `Conclude` with the closed auctions and the
  settled ones (`SettlementConcludes`).  The hard part is that what the tick credits to an
  account over a batch is the sum of the payouts the escrow promises
  (`CreditedIsPayout`), and that the sale it records is one the escrow calls fair
  (`SaleIsPromised`).

### Bids and settlements lock by lock

For every number of users, auctions, keys, bids and requests at a time
(`BidRequestsProofs`), with every interleaving, abort, deadlock and restart of
the model:

* `DraftsFit`: the inductive invariant.  The tables say nothing of what a transaction
  has read, so `Inv` adds what it may rely on while it holds its rows: the auction is as
  the request has read it, and its bid still high enough; a balance it has changed
  is the balance of the table with its own change made (`BidPending`); for the
  worker, what it has drafted for an account and what is left to do for it
  (`Rest`) add up to the payouts of the lots so far (`Paid`, `SettlerFits`); and no row
  is locked twice (`LocksFit`).  A step of one process has to establish only its own part:
  `OthersFit` shows that the others keep theirs because it writes no row they hold,
  `LocksStay` that the locks stay apart.
* `BidsEscrowed`: the commit of a bid is `Outbid` or `Revise`, the commit of a settlement
  is `Conclude` of its lots, `IsSealed` is `Veil`, `Opens` is `Offer`, and every other
  step, each lock, draft, wait, abort and restart included, is invisible.  `DraftedBid` and
  `DraftedSettlement` turn the drafts into the transfer the escrow asks for; that the
  payments of a lot, in whatever order the losers come, add up to its payouts is
  `PaymentsPay`.
* `OnlyReplacedBidsActAgain`: only the commit of the request itself changes a table when
  it ends (`OnlyCommitsWrite`).  Its bid is above the visible price, so it is none of the
  open ones (`KeysFit`: those are not above it); if it is the bidder's current
  sealed one, the commit writes what is there already (`RepeatedBidIsQuiet`).

### The marketplace

For every number of traders, cards, listings, auctions, keys and requests
(`CardMarketProofs`): `MarketFits` is the inductive invariant, in the same manner.  A
purchase that has locked its listing finds it active until it commits, and its drafts are
the balances with its own shares added (`Drafted`); the worker's drafts are the balances
with the shares of the lots it has dealt with (`Adds`); every offer is one of the card's
owner and the card's state says where it is made (`ListingsFit`, `AuctionsFit`).  From it:
`OneMarket`, `SoldOnce`, `BooksAlwaysBalance`, `ConfirmationsAreTrue`, and, for steps,
`OwnersSell`.

### Packs, queue, limits, rebalances

For the fairness queue, for every number of users, requests, draws and windows:

* `QueueTypeOK`, with the strengthening that a draw that touches a window has
  one and a request has a user.
* `OneDraw` (assuming draws faster than the lock): whoever is inside the lock is
  the one the lock names.
* `OnlyOwnLock`: no assumption on timing or failures.
* `NoSlotMultiplies` (assuming succeeding Redis calls): for every user the
  available slots, the unspent claims and the uses are at most the wins; a claim
  moves one from the first to the second, a purchase from the second to the
  third, a draw adds one to the first and to the wins.

For pack purchases, for every number of users, drops, keys, requests at a time and
commitments, every stock, set of prices and limit: `PackTypeOK`, `NoOversell`,
`NoLostDebit`, `LimitHolds`, `SeedsUsedOnce` and `PriceHolds`.  The properties
speak of the tables, so they are not inductive: a `Commit` writes what the request
read many steps before.  `Inv` adds what a request may rely on while it holds a
lock (`DropHeld`: stock left, price as read, limit not reached; `SeedHeld`:
reserved for this user; `BalanceHeld`: balance as read, key and commitment
unused), that no row is locked twice (`LocksExclude`), that a commitment with a
purchase is consumed or revealed, and that event numbers are bounded, so that there
is a latest one.  A step of one request has to establish only its own part
(`LocalStep`); a commit keeps the part of every other request because the two
hold different rows.  `AnswersHold`: who is told that he bought has a purchase, found
by his key after the commit (a request at "reply" has one, and so has every cached answer),
and purchases are never deleted.  Who is refused has been looked for by the catch block in
the same step, by a key that stands for one purchase only, and was never told otherwise
because that would have been of a purchase.

For the sliding windows, for every number of users, addresses, route types and windows
and any limits: `LimitsHold` and `RefusalsCostNothing`.  What gets through need not be
all that is on record, because an answer may be lost after the script has run, so
`WindowNeverExceeded` speaks of `passed` and is not inductive.  `Inv` adds that every
request that passed is on record (`NothingUnrecorded`) and that the records fit the limits
(`RecordsFit`): one more request is recorded only where there is room, under the limit or a
tightened one that is never larger (`RoomIsRoom`), and a tick brings nothing into a window
(`CountOlder`, from `TotalShifted`).  `WeakSignsAreNotEnough` holds in every state,
whatever the counters are: apart from the score of a known tool, which the property
excludes, none reaches the threshold alone (`SignsAre`), so two are positive whenever
somebody is blocked; and of age and address alone the largest sum is 0.3 + 0.6, which
the doubles leave below it.

For rebalances, for every number of tiers, processes and connections and whatever the
optimiser returns: `VersionsInOrder`.  A process that has read a version number may find
it taken (`VersionsRead`); one that has inserted it keeps everybody else waiting until
it activates it (`VersionsInserted`), because the key is unique, so the number is still
the next one then.  `VersionsAreValid` (`WeightsValid`) adds what a process carries from
step to step: the market it has read is one that was, and weights it has chosen, like
those of every version, are within the bounds and sum up to `One`.  `NothingLeaks`: the
connections that are taken are as many as the processes at steps that keep one; every
step that ends such a stretch, by success, rejection or exception, gives one back
(`PoolSteps`, `PoolRests`).  On the first two invariants rest, for every set of rarities, all markets, budgets, bounds, caps and
numbers of rounds:

* `SearchIsExact`.  Dealing out an amount in an order gives nobody anything before those
  that come first are full (`DealtInOrder`, from sums over predecessors, `PrefixGrows`),
  so at the two ends nothing can be moved; and it leaves no rest that there is room for
  (`DealtSum`, by induction on the size of the set with its last element removed).  The
  bisection keeps the edge between its bounds, which are a power of two apart
  (`RoundBrackets`), so it ends one step below the edge (`SearchEnds`).  That there is
  only one edge takes more: the ends are made of whole steps (`AllocatedSum`), so the
  mixes need no projection (`MixIsExact`), so the value of a mix lies between the values
  of the ends in proportion (`ValueGrows`).
* `EndsAreOptimal`: no weights within the bounds are worth less than the one end or more
  than the other.  With c the value of the last rarity that got more than it must,
  others have at most as much of what is cheaper than c and at least as much of what is
  dearer, and the differences cancel (`AllocatedIsLeast`).  `GreedyIsComplete`: if any
  weights within the bounds sum up to `One`, the greedy ones do.
* `CapIsAlwaysMet`: a projection ends within its bounds and, if they allow it, at the sum
  `One` (`Projected`, from `DealtSum` in both directions); the active weights show that
  they do while the rarities stay (`CapIsMet`).  Hence `NothingIsThrown`.
* `DrawsAreFair`: a rarity is picked by the rolls between the sum before it and the sum
  with it (`PickedByRoll`), which are as many as it has micros (`RollsOf`); rounding is
  off by half a unit (`RoundedError`), and the heaviest, which takes the rest, by what
  the others are off by together (`RestOfRounding`).  It can afford the rest
  (`MicrosSum`): this is where the number of rarities matters.

### How sums are proved about, and what is only model-checked

Sums over users, auctions and lots are recursive functions over 1..n (`Total`), so that
the lemmas about them can be proved by induction on n.  No induction theorem of the
library can be instantiated here; `ArithmeticProofs` proves one for sets of numbers
(`SetInduction`) and defines the recursive function by its partial graphs
(`PartialExists`, `PartialUnique`).  Sums over a growing set of trades or over the
rarities of a market are `SumFunction` and `SumFunctionOnSet`, with `SumGrows`,
`SumSame`, `SumPlus`, `SumLinear`, `SumMix` and others from the same induction on the
size of the set.  The powers of two and the rounds of the bisection are recursive
functions too, known by their graphs (`DoubledExists`, `SearchExists`).

Only model-checked are the liveness properties `EveryAuctionSettles`,
`EveryWindowIsDrawn`, `EveryRequestEnds`, `EveryPurchaseEnds`, `EveryBidEnds`,
`RoomReturns` and `RebalancesEnd`: liveness and ENABLED are out of the prover's reach.
Every invariant and every action property of a passing run is a theorem.

The types of `AuctionHouse`, `PackDrop` and `FairnessQueue` are theorems and not
checked by runs again.

## 5. What is not modelled, and the plan

Not modelled at all: accounts and sessions, analytics and dashboards, portfolio
snapshots, sockets, bootstrap and migrations, the external card API and the web
client; they hold no state the components above decide on, or only provide inputs.
The random walk of the price engine and the statistics of a simulation are
arbitrary results.  Floating-point rounding, hashes and the choice of a card within its
rarity are left out.  Of the snapshots it is known that they read cards and
listings in separate queries, so that a sum may be torn by a sale in between; nothing
depends on it.  The fairness queue has no property for a purchase whose cache
write fails after it was made: the catch block then gives back the slot of whoever holds
one (`packController.ts:42`), and `SlotsNeverMultiply` is stated for succeeding
Redis calls only.

Done so far: all modules of section 2, their runs, and the theorems of section 4: every
safety and action property of the passing runs.  Left: the Redis state of the pacing
of bids, next to the transaction it delays.
