# LyniaGo: TLA+ models, runs and proofs

LyniaGo is a motorbike delivery service. This directory holds TLA+ models of
the server's core logic (`src/apps/api/src`, NestJS over Prisma/Postgres, Redis
and BullMQ), the TLC configurations that check them on small instances, and the
TLAPS proofs that hold for every value of the constants. Paths below are
relative to `src/apps/api/src` unless they start with `src/`.

What makes this code hard is one sentence: every handler runs concurrently with
every other at READ COMMITTED isolation, and correctness comes from
compare-and-swap updates (`updateMany ... where status = ...`), `FOR UPDATE` row
locks and one partial unique index (`one_active_ride`). Anything a handler read
before it took its lock may be stale when it writes. The models are built
around that: a handler that carries an unlocked read into its write is *two*
actions, the read, which files what it saw in a set of calls under way, and the
commit or refusal. Where a handler has no transaction around its writes (the food
dispatcher, the settling of a top-up) every statement is an action, and a call may
be cut short between two of them.

## 1. Inventory

| Component | State | Operations | Interacts with | Hard part | Correct when |
|---|---|---|---|---|---|
| Parcel auction (`orders/orders.service.ts`, `offers/`, `matching/`) | order row, offers, delayed jobs, the sweep | create, makeOffer, withdrawOffer, raisePrice, selectOffer, expireOrder | riders' standing, lifecycle, queue | stale reads, racing raises, lost jobs, the clock | nobody double-assigned, no offer stranded, windows kept, every auction ends |
| Order lifecycle (`orders/order-lifecycle.service.ts`) | order status, lineage, rating, auto-close credit | transition, markUndelivered, cancel, rate, completeOrder, resend, rebroadcast | auction, rider row, wallet ledger | completion by three paths, clones, unlocked reads | legal edges only, one live order per trip, each job billed once and rightly |
| Declared table (`orders/order-lifecycle.transitions.ts`) | none | none | read by tests only | agreement with the services | the services implement it |
| Reliability and holds (`riders/reliability.ts`, `riders/rider.availability.ts`, `common/penalties.ts`) | score, hold and reason, strikes, cooldown, account status, online flag | applyReliabilityDelta, velocity guard, setOnline | every trip ending, console | many writers of one row | held riders offline, fraud holds and bans stick |
| Console (`admin/`) | audit rows | cancelOrder, adjudicateDelivered, adjustFare, clearHold, suspend, ban, lift | orders, rider row, ledger | decisions on a read page | no stale decision overwrites a fresh one |
| Commission (`src/packages/shared/src/policy.ts`) | ledger rows | chargeCommission, correction | completion, adjustFare | rounding, ordinals | the bill fits the fare; free jobs counted once |
| Wallet and top-ups (`wallet/`) | balance, ledger, intents | createTopup, poll, sweep, webhook, re-poll, credits, reversal, charge | payment rail, commission | late, lost, short and repeated answers | balance = end of the ledger, a top-up credits once and only paid money, a payment is never forgotten |
| Cover gate (`common/commission-cover.ts`) | none | check at bid, pick and food offer | wallet | reads a balance that will move | a refusal only; the balance may go below zero |
| Handover code (`common/handover-code.ts`) | code, attempts | confirm, re-issue, reveal | lifecycle | attempts against rotation | a lockout holds until a re-issue |
| Restaurant and shop orders (`merchant/food-order*`, `order-substitution.service.ts`) | order row, its lines, the substitution round | place, accept, pay, substitute, edit, ready, cancel, sweeps | dispatch, debt | sweeps and the venue's devices against the customer | the order follows its tables; paid before cooked; the goods are the lines |
| Food dispatch (`merchant/food-dispatch.service.ts`) | the round on the order row, one attempt row per rider | tick, accept, decline, drop, hold, resume, raise, three sweeps | the kitchen's phase, rider row | no transaction around a round; many riders rung at once | one rider at a time; rounds, rings and searches end |
| Own-biker fleets (`merchant/fleet*.ts`, migration `0108_own_bikers`) | the booking's row and its tag, its round, one offer per biker, the links of bikers to the business, the fleet ledger | book, tick, accept, decline, drop, retry, convert, join, leave, pause, disable, sweeps | lifecycle, public board, console | ticks that act on what they read, links that change under a ride, two triggers against each other | one taker of the right fleet, one bill, searches, offers and disabled fleets end |
| Merchant debt (`merchant/food-debt.service.ts`) | debt rows | accrue, settle, block | food orders | settle against accrue | never forgotten, never paid twice |
| Live tracking (`tracking/`) | pending positions, socket rooms | ingest, flush, join | riders, orders | latest fix wins, bounded map | no stale position after a newer one |
| Auth (`auth/`) | OTPs, refresh tokens | request, verify, rotate, revoke | all | rotation twice | one live token per session |
| KYC (`kyc/`) | verification state | webhook, reconcile sweep | rider row | vendor callback against sweep | a final decision stays |
| Notifications, issues, referrals, privacy, SOS, settlements, reports, owner alerts, uploads, health | mostly single rows | single writes, batch jobs | all | little concurrency of their own | - |
| Configuration and adapters (`config/`, `adapters/`, `common/micro-cache.ts`) | environment, caches | parse, fetch | all | policy switches change between deploys | modelled as inputs of `Trip` |
| Apps and infrastructure (`src/apps/{mobile,admin,merchant,customer-web,website}`, `src/infra`, `src/packages/design`) | UI state | - | API | - | not modelled |

`PROJECT.json` lists the same parts with the state of each (`modelled`,
`partly`, `not_modelled`), and the hazards of the code at the lines where they
bite.

## 2. Modules

```
Auction <- AuctionProofs     Reliability   Commission          Wallet <- WalletProofs
   ^                               \         /                  |   ^
MCAuction                           Trip <- TripProofs       Ledger  MCWallet
                                   /  ^
                         OrderTable  MCTrip

TripProofs, SumFacts <- LineageProofs          Fleet <- FleetProofs
SumFacts <- WalletProofs                       |    ^
                                       FleetTable   MCFleet
FoodOrder <- FoodDispatch <- FoodProofs
                |      ^
        KitchenTable   MCFood
```

An arrow points at the module that is extended, and so do the lines below
`Reliability` and `Commission`. `SumFacts` holds facts of arithmetic and of finite sums,
nothing of the code. `OrderTable`, `Ledger`, `KitchenTable` and
`FleetTable` are abstract specifications, instantiated by the module they hang on and
checked as one of its properties.

**Auction** is a customer's order on the board. State: the clock, the order row
(`status`, `fare`, `createdAt`, `endsAt`, `sized`, `raisedAt`, `rider`,
`agreedFare`), the offers table, the calls under way (`bids`, `picks`, `raises`,
`reprices`), the clones not yet announced (`announces`), the delayed jobs and the
running sweep. A column `offerWindowEndsAt` that is null reads as the normal
window: `endsAt` is what every reader gets, `sized` says that the column is set.

| Action | Code |
|---|---|
| `CreateOrder` | `OrdersService.create` and the job it queues |
| `CloneOrder` | `cloneForRebroadcast`: a resend's clone has its window sized, a bail's has none yet |
| `AnnounceOrder`, `AnnounceDropped` | `announceOpenOrder` after the commit: size the window if it has no end, queue the job; or the order has closed, or the process died before the call |
| `MakeOfferCheck`, `MakeOfferCommit`, `MakeOfferRefused` | `OffersService.makeOffer`: the unlocked checks, then the transaction under the order-row lock |
| `WithdrawOffer` | `OffersService.withdrawOffer`, one transaction under that lock |
| `RaisePriceRead`, `RaisePriceCommit`, `RaisePriceRefused` | `OrdersService.raisePrice`: read, then a CAS that pins the window end it read |
| `RepriceRead`, `RepriceCommit`, `RepriceRefused` | `resend` that finds the trip's clone on the board: an unlocked read, then a CAS that pins the status only |
| `SelectOfferRead`, `SelectOfferCommit`, `SelectOfferRefused` | `MatchingService.selectOffer`: reads, then a CAS on the order row, undone by `one_active_ride` |
| `RunExpireJob`, `LoseJob` | `OfferExpiryService.expireOrDefer` and `MatchingService.expireOrder`; a lost job is a Redis outage at the enqueue or three failed attempts |
| `SweepRead`, `SweepOrder` | `reconcileStaleOffers`, its id list and one `expireOrder` per id |
| `CancelOrder`, `EndTrip` | the customer's cancel, and the end of the trip, seen from the board |

A rider's own gates (standing, heartbeat, blocks, cover) are read outside any
lock and may change at any moment, so they constrain nothing here: a call they
refuse is a call not made.

**Trip** takes an order from the board to its close. State: the order rows
(`status`, `parent`, `rider`, `fare`, `rated`, `credit`, `bill`), the rider rows
(`trips`, `standing`), the two policy switches a deploy changes (`suspended`,
`rate`) and the calls under way, one set per kind of call.

| Action | Code |
|---|---|
| `Create`, `Expire` | `OrdersService.create`, `MatchingService.expireOrder` |
| `PickRead`, `Assign`, `PickRefused` | `selectOffer`, with the online gate read before the CAS |
| `Advance`, `ConfirmDelivery` | `advanceRider` and its steps; the delivery with the right code |
| `MarkUndelivered` | `markUndelivered`: the penalty of the reason and the velocity guard |
| `CustomerCancel`, `RiderCancel`, `AdminCancel` | `cancel` by either side (a rider's bail clones the order in the same transaction), the console's `cancelOrder` |
| `RateRead`, `RateOnTime`, `RateLate`, `RateRefused` | `rate`: the on-time rating completes the order, the late one replaces the credit of the auto-close |
| `AutoClose` | `completeOrder`, by the delayed job or its sweep |
| `VerdictRead`, `VerdictCommit`, `VerdictRefused` | `adjudicateDelivered` |
| `AdjustRead`, `AdjustCommit`, `AdjustRefused` | `adjustFare` |
| `ResendRead`, `ResendLock`, `ResendClone`, `ResendEnds` | `resend`: read, lock root and source, read the lineage, clone or stop |
| `StopAccount` | `suspendRider`, `banRider` |
| `ClearRead`, `ClearCommit`, `ClearRefused` | `clearHold` and `liftRider` |
| `GoOnline`, `GoOffline`, `CooldownEnds` | `setOnline`, the passing of `cooldownUntil` |
| `Redeploy` | other values of `PENALTIES_SUSPENDED` and `COMMISSION_RATE_PCT` |

The lineage of an order is what the two recursive queries of `resend` find: `Climb` walks
`rebroadcast_of_id` up, at most `LineageDepth` times (`LINEAGE_MAX_DEPTH`), `Root` is where
that ends, and `Lineage` is whatever the walk down from the root reaches in as many steps.

`resend` holds its row locks across two actions (`ResendLock`, then the clone):
`Writable(o)` is the guard of every other action that updates a locked row.

**Reliability** (scores, holds, the velocity guard) and **Commission** (basis,
rounding, free jobs) are pure: the handlers of `Trip` apply their operators.
Amounts are cents and rates whole percentages, so the arithmetic is exact.

**OrderTable** is the abstract specification: the parcel rows of the declarative
table. The table names no console action on a status, and the console has two
edges of its own (`delivered -> cancelled`, `undelivered -> completed`);
they are the constant `ConsoleEdges`. `Trip` checks `Table!TableSpec`.

**Wallet** is a rider's prepaid balance and the top-ups that fill it. State: the
top-up rows, the rail's own record of each charge (`charge`, external), the settling
calls under way (one of the sweep, the webhook, the operator's re-poll each), the
anomaly rows of the ops queue, the ledger, the balance and the job count. Time is
three flags per row: the approve window is over (`lapsed`), the sweep has given up
(`aged`), a manual credit is older than a day (`today` without it).

| Action | Code |
|---|---|
| `CreateTopup`, `InitiateRefused`, `InitiateLost` | `createTopup`: the row, then the rail; a refusal declines, a lost answer changes nothing |
| `RailOpens`, `RailRefuses`, `RailPaid`, `RailFailed` | Paynow (external), full, short and late payments |
| `GetTopup` | the app's poll, which expires a lapsed intent |
| `Reconcile`, `Answer`, `AskFails` | `reconcileTopup` by the sweep, the webhook, the operator: row read, rail asked |
| `AlreadySettled`, `FailedUpdate` | the webhook on a settled row, and with an update that is not a payment |
| `SettlePending`, `SettleFailed`, `SettleShort`, `SettleDeclined`, `SettlePaid` | `settleTopupFromRail`, by the answer and the row it reads again |
| `CreditFromTopup`, `CreditRefused` | `creditFromTopup`: the claim of the intent and the posting, one transaction |
| `CreditTopupShortfall`, `CreditManual`, `ReverseEntry` | the console's corrections, each under a row lock |
| `CompleteJob` | `chargeCommission`, free jobs included |
| `Lapse`, `AgeOut`, `DayPasses` | time |

**Ledger** is what the wallet promises: every movement is one posting, made once per
source, never changed, and the balance moves by what it says. `Wallet` maps its
entries to postings and checks `Promise!LedgerSpec`.

**FoodOrder** is a restaurant or shop order from its placing to the collection of the
food, seen from the kitchen: the order row, its lines, the open substitution round.
The three statuses in which a rider holds the order before pickup are one
(`assigned`); a line costs 1, so a total is a count. **FoodDispatch** extends it with
the search for a rider, which works on the same row: the riders' attempt rows, the
rounds opened and those that have run out. A call between two statements is a record
in `calls` that carries what it has read; an actor has one at most. `Shop` and `Till` are two
devices of the venue: what one has begun, the other may cross.

| Action | Code |
|---|---|
| `PlaceOrder` | `placeOrder`; an auto-accept restaurant's cash order starts at the kitchen |
| `AcceptOrder`, `MarkAvailable`, `AcceptPartStart`/`Commit`, `CancelWaiting` | `acceptOrder` in full (the claim; then, in a statement of its own, `available: true` on every line) or without some lines (read, then one transaction); `rejectOrder`, `releaseUnpaid` and the sweeps of orders nobody answers |
| `ConfirmKitchen`, `CancelUnconfirmed`, `ConfirmPayment` | the kitchen's answer to an auto-accepted order, `sweepAutoAccepted`'s cancel, `confirmPayment` |
| `Propose`, `Resolve`, `CloseEndedRound`, `SettleRound` | substitutions, under the order-row lock: propose, the customer's answer or the timeout, the close of a dead order's round |
| `ApproveItems`, `DeclineItems` | `approveItems` on an order shortened without swaps |
| `EditStart`, `EditCommit` | `editOrderItems`: read, then a CAS on status, phase and the lines' version |
| `ReadyStart`, `ReadyCommit` | `markReady` and `sweepAutoAccepted`'s release |
| `CancelPreparing`, `LeaveStart`/`Commit`, `CustomerCancel`, `AdminCancel` | the cancels of the shop, the customer (`cancelUnpaid`, `cancel`) and the console |
| `Collect` | `confirmPickup`, `confirmCollected` |
| `TickStart`, `TickHold`, `TickPark`, `TickNobody`, `TickClaim`, `Ring`, `RingFails`, `RingLive` | `tick`: read and list, then the hold, the park, the poll or the claim of a round, the riders' rows, and the check that the round is still live |
| `ExpiredStart`, `CloseRound`, `Quiet`, `OrphansStart`, `OrphansExpire` | `sweepExpiredOffers`, `closeRound`, `expirePending`, `sweepOrphanedOffers` |
| `AcceptStart`, `AcceptClaim`, `AcceptMark` | `acceptDispatch`: `liveOffer`, the claim, the row (then `Quiet`) |
| `DeclineStart`, `DeclineMark`, `DeclineCount` | `declineDispatch`: the row, the count of those still deciding, the close |
| `Drop` | `dropDispatch` |
| `ResumeSearch`, `CancelFromHold`, `RaiseStart`/`Commit` | the no-rider hold, `raiseCeiling` |
| `Lapse`, `CooldownEnds`, `Crash` | time; a call cut short after any statement |

**KitchenTable** is the second abstract specification: the merchant rows of the
declarative table with the table of merchant phases. The services have two edges the
tables lack (an auto-accepted order is born `preparing`; an order being cooked may be
called off), which are its parameters `StartPhases` and `CookingCancels`.

**Fleet** is a "My bikers" booking, which rings a business's own bikers and nobody else,
and the business's fleet. One booking, one owner. State: the order row (`status`, the
`tag` `fleet_merchant_id`, `rider`, `collected`), its charges in the fleet ledger (`bill`),
the round on the row (`hold`, `attempt`, `until`, `check`, `excluded`), one offer row per
biker, the bikers linked to the owner (`own`) and those a round could ring (`free`), the
fleet's switch, the ticks, answers and sweeps under way. A timestamp is a *moment*: what
matters of it is whether it is the one that was read and whether it has passed.

| Action | Code |
|---|---|
| `BookStart`, `Book` | `MerchantBookingService.createFleet`: the fleet gate, the booking and its kick |
| `TickStart`, `TickClose`, `TickLook`, `TickRing`, `TickWait`, `TickHold`, `TickSkip` | `FleetDispatchService.tick`, by `sweepRounds` or by `kick`: read, close the ended round's offers, list bikers, then the CAS that rings, waits or holds |
| `AcceptStart`, `AcceptCommit`, `AcceptRefused` | `accept`: `liveOffer`, then the transaction, where the trigger `orders_fleet_scope` checks the link |
| `DeclineStart`, `DeclineMark`, `DeclineEnd` | `decline`: the row, the count of those still deciding, the end of the round |
| `CloseAfter` | the `closeOffers` after a commit, outside its transaction |
| `Retry`, `Convert`, `ShopCancel` | the business: `retry`, `convert` to the public board, `MerchantBookingService.cancel` |
| `PickUp`, `Deliver`, `Undelivered`, `Complete`, `AdjudicateDelivered`, `AdminCancel`, `Drop` | the lifecycle's and the console's handlers, seen from the booking, with `recordFleetRide` where they call it |
| `PublicPick`, `BoardExpires` | the public board, once the booking is converted |
| `Join`, `Leave`, `DissolveList`, `Dissolve`, `Toggle` | `FleetService.join`, `leave` and the removal, `dissolveDisabledFleets`, each under the trigger `riders_fleet_link`; a biker's own coming and going |
| `Pause`, `Disable`, `Enable`, `CancelList`, `CancelRinging` | `FleetAdminService` and its `cancelRingingBookings`: the list, then one booking of it |
| `HoldAges`, `ExpireHold`, `CloseOrphans` | `sweepStaleHolds`, `sweepOrphanedOffers` |
| `Passes` | a moment passes |
| `LoseTick`, `LoseKick`, `LoseAnswer`, `LoseClose`, `LoseCancels` | a process stops: what it had under way goes no further |

**FleetTable** is the fourth abstract specification: the fleet rows of the declarative
table and the parcel rows they join, over the status, the tag and the rider.

`MCAuction` and `MCTrip` only add the symmetry set, `MCWallet` nothing, and `MCFood` and
`MCFleet` the scopes of their instances. Operators commented "Faulty
variant of X" are plausible bugs: substituting one for X must make TLC report the
property it belongs to. They show that each property can fail.

## 3. Runs

Every name a `.cfg` binds is a small number or a set of model values. Deadlock is
not checked anywhere: a board with every order closed, or every bound used up,
really stops.

| Run | Instance | What it shows |
|---|---|---|
| `auction_board` | 2 orders, 2 riders, 2 bids and 2 picks under way, clock to 2 | no double assignment, no stranded offer, offers and assignments agree |
| `auction_clock` | 1 clone, 1 rider, 2 fares, 1 raise and 1 re-price under way, jobs, jitter 1, clock to 4 | window rules, raises and late sizing only add, no early expiry; every auction ends (liveness) |
| `trip_bills` | 2 rides of one rider, fares 1.00 and 2.90, basis floor 1.50, rates 0 and 5 %, any two ratings, verdicts and corrections under way (`MaxBillingCalls`), 1 free job | the bill fits the fare, to the cent; free jobs are counted once |
| `trip_standing` | 3 trips of one rider, scores 0..4, suspensions and bans, one clear or lift under way | type invariant, riders who may not ride are offline, bans and fraud holds stick |
| `trip_lineage` | 4 orders of one trip, 2 resends at once | one live order per trip; the services implement the declared table |
| `wallet` | 1 rider, 1 top-up of 1.00, payments of 0.60 and 1.03 at 2.5 %, late payments, the sweep and the webhook, 2 console forms, 2 jobs, 1 free | ledger, credits, reversals; implements `Ledger`; every payment on a charge that had not failed is settled, shown to ops or aged out (liveness) |
| `food` | one order in five scopes (below), 2 riders, cap of 2 attempts, 1 dispatcher | the order's consistency, codes, payment, the hold; every change of the lines leaves a total that counts them; implements `KitchenTable`; rounds, rings and searches end (liveness) |
| `fleet` | one booking in six scopes (below), 2 bikers, the sweep's tick and a kicked one | an own biker has only his owner's jobs, a held booking rings nobody, one bill per ride made; implements `FleetTable`; searches, offers and disabled fleets end (liveness) |
| `auction_withdraw` (violation) | 1 order, 2 riders | a withdrawal can race a pick |
| `trip_clear` (violation) | 2 trips, one clear under way | a clear-hold lifts a fraud hold it never read |
| `food_goods` (violation) | `KitchenScope` alone | a line taken off during `acceptOrder` comes back, and the total does not count it |
| `fleet_round` (violation) | 1 biker, two rounds, the sweep's tick and a kicked one | a stale tick closes the offers of the round another tick has rung |

**Why the bounds are enough to be interesting.** Two orders and two riders are the
smallest instance in which two customers pick the same rider while another rider bids on
both. A third order adds no new kind of conflict: every guard relates two orders, or an
order and a rider, and the proofs below remove the bound for this module. In
`auction_clock` the order is a clone, which sees all that an order sees and more: it is on
the board before its window is sized. The normal window (1), the quiet one (2), the grace
(1), the jitter (1), a raise's minimum (1) and the cap (2) are such that the cap cuts a
raise late in the window and not an early one, a raise meets a re-price or a sizing that
has moved the end it read, a job fires before the end, in the grace and after it, and
`MaxTime` (4) lets the whole auction, its grace and the sweep's slack pass. No offer is
picked there: picks are `auction_board`'s. One raise under way is enough, because a
re-price or the sizing moves the end it has read; the proofs cover any number. The guard
of `CreateOrder` on the clock only keeps a whole auction within `MaxTime`; without it the
clock would stop before an auction's end, which no real clock does. In `trip_bills` one
fare is below the basis floor and one above it, both commissions need rounding (2.90 at 5
%), each call under way may have read another fare or rate than the one it meets, the
first job is free and the second is not, and any two calls race, two of the same kind
included; a third finds what one of the two left. In `trip_standing` the scores are scaled
down (0..4 for 0..100, hold below 2, clear at 3), so that one low rating, one failed
hand-off or two bails reach the threshold and one recovery reaches the clearing score; two
failed hand-offs raise the velocity guard and two bails the cooldown. `trip_lineage` needs
four rows for a chain of two clones and two resends of different members of it, so
standing and money are shut off there (no penalty, one fare). `LineageDepth` is as large
as the number of rows, like the code's 50 against any real chain. With `LineageDepth` 1
the same instance breaks `OneLivePerTrip`: two resends of a longer chain find different
roots, lock different rows, and both clone. The proofs say that nothing else breaks it
(`OneLiveUnlessLong`).

In `wallet` the short payment (0.60) is worth 0.58 with its fee, the full one (1.03)
exactly 1.00, so the rounding of the fee decides both. One top-up is enough for the
races, which are between the callers that settle it; the manual credit, the reversal
and the job are there to interleave with its posting on one account. Two reversals of
0.60 exceed any one credit of 1.00. `MaxEntries` bounds the ledger: a longer one takes
no manual credit or job (a top-up's credit always lands). The operator's
re-poll is the same call as the sweep's and is left out of the run; the proofs have it.

In `food` a *scope* is one combination of bounds, chosen in the initial state:
`KitchenScope` (two lines, a swap, two changes of the lines, both payments, auto-accept
or not, nobody in reach of a search), `SearchScope` (two rounds that reach one rider, a
call cut short), `RaceScope` (one round that reaches both riders, a call cut short),
`EarlyScope` (auto-accept, a round that may start while the food cooks; in these last two
the customer does not leave, which `SearchScope` covers) and
`PriceScope` (a ceiling that may be raised while lines go). Each conflict is between
two or three actors and lies within one scope: the search never reads the lines except
for its price, and the kitchen never reads the riders' rows. The full product is
out of TLC's reach; the safety properties are proved without any of these bounds.
The cap of two attempts makes a round, its successor and the hold happen.

`fleet` has scopes too: `SearchScope` (two rounds of one biker, a kick, retries),
`RaceScope` (one round rings both bikers while the business converts the booking, a call
lost), `LinkScope` (one biker who joins and leaves, a conversion and the public board, a
call lost), `ConsoleScope` (two rounds of a biker who goes offline and online while the
console pauses, disables and cancels and the business cancels), `KickScope` (a kick, or
another call, is lost) and `StopScope` (the cancelling that follows a pause or a disabling
is lost). A booking has two moments, and a biker's row and answer one each, so
`EnoughMoments`, one more than that, never runs out. Two rounds are the fewest in
which a round follows another; the safety properties are proved without these
bounds.

**Fairness.** Four runs use it (`FairSpec`), always that of interval timers that run
on every instance and whose bodies catch every error, never that of people, of riders
or of the job queue.

* `auction_clock`: time passes, and the database sweep keeps reading and visiting.
  `LoseJob` may lose every delayed job, so `EveryAuctionCloses` says that the sweep
  alone is enough.
* `wallet`: the minute's sweep keeps asking about each top-up it has not given up
  (strong: a top-up leaves and re-enters its query), a lookup that fails is repeated
  and in the end answered, and what follows an answer is not waiting for anyone. The
  webhook may never come. The sweep takes the newest 20 of a tick; that there are not
  always more than 20 is an assumption (see the hazards).
* `food`: the dispatcher's pass runs its three sweeps in turn, each under its own catch,
  a statement it has begun returns, and a round's minute passes. Calls of the shop and
  of riders may be cut short at any statement, and so may the sweeps' own, as often as
  the scope allows.
* `fleet`: time goes on, and the sweep comes round every `sweepIntervalMs`: it takes a
  booking that is due and takes it through its tick, expires old holds, dissolves disabled
  fleets and closes orphaned offers, each sweep under its own catch. Nothing is asked of the
  kicks, the bikers, the business, the console, or of the `closeOffers` after a commit,
  which a stopped process loses.

**Symmetry** (orders, and riders in `auction_board`) is used only in runs
without liveness.

## 4. What the violations mean

Each is a place where a comment promises more than the code does.

* `auction_withdraw`: `selectOffer` checks the offer's status before its CAS, and the
  CAS pins the order row, which a withdrawal does not change. The doc of
  `withdrawOffer` says a withdraw can never race a pick. The customer gets a
  rider who withdrew a moment before; no invariant of `auction_board` breaks.
* `trip_clear`: `clearHold` pins the account, whether there is a hold and the score, but not
  the reason. A penalty-free reason of `markUndelivered` changes only the reason.
* `food_goods`: `acceptOrder` claims the order and then marks every line available, in a
  second statement with no transaction around the two
  (`merchant/food-order.lifecycle.ts:227`). Once the claim has landed the order is being
  prepared, and another device of the venue may take a line off, with the smaller total;
  the late statement puts the line back. The receipt's contract says that the items and
  the small-order fee add up to the goods total. Here the items exceed it: the kitchen and
  the customer see the line, and the fare leaves it out. The next substitution or edit
  counts the lines anew. `GoodsFollowLines`, which `food` checks and `GoodsCounted`
  proves, says that nothing but this statement does it, and not without a change in
  between.
* `fleet_round`: `tick` closes every pending offer of the booking, pinned on nothing
  (`merchant/fleet-dispatch.service.ts:271`), although the comment above it says that
  every write is a CAS on what was read. When the last biker passes, a tick is kicked off,
  and the sweep's may have read the same ended round; one rings the next round, the other
  then closes its offers. The bikers it rang can no longer accept, and the booking waits
  the round out. `SearchSettles` still holds: a round is lost, not the search.

More were met while modelling and are in the models, with no run of their own:

* A comment in `settleTopupFromRail` wants a payment on a declined intent to be loud for
  ops. A paid webhook goes through `reconcileTopup`, whose first check returns on a
  declined row before that branch (`wallet/wallet.service.ts:664`); the branch is reached
  only when the decline lands between the two reads of one call. Paynow calls `Failed` and
  `Cancelled` final, so it takes a rail that pays one anyway. `PaidOnDeclinedIsLoud` of
  `Wallet` is what the comment asks for: added to `MCWallet.cfg`, TLC breaks it.
* A re-price (`orders/order-lifecycle.service.ts:1400`) extends a live clone's window from
  the end it read, without a lock, and its CAS pins the status only. A raise that commits
  in between, or the late sizing of a bail's clone, is overwritten: the end it set, and
  the raise's fare. `RaisesOnlyAdd` exempts the step in which a re-price lands, and only
  that.
* A bid that lands between `raisePrice`'s read and its write
  (`orders/orders.service.ts:614`) stands before the raise but is stamped after it, so its
  rider may not answer the new price.
* A completion's recovery (`orders/order-lifecycle.service.ts:1572`) may trip a hold without
  pulling the rider offline, after penalties were suspended and switched on again.
* The fare of a food order is written from goods and a fee that different statements read
  (`merchant/food-dispatch.service.ts:1211`): `raiseCeiling`, `tick`'s claim and
  `editItems` each pin something else. The next round or edit writes the sum anew.
* A fleet tick pins the attempt it read. A drop or a retry may bring the row back to that
  number, and the tick then writes: it may ring a biker who has dropped the job
  since, because it has read the excluded bikers before.

Other disagreements met while reading, not counted as findings because no run
decides them: the comment at `orders/order-lifecycle.service.ts:846` says a late
rating leaves the rider as an on-time one would, which the score does and the
hold, because of its hysteresis, may not; the wallet integrity check compares
balances and ledger sums read in separate statements.

## 5. Proofs

Six modules hold the proofs about the models: `AuctionProofs`, `TripProofs`,
`LineageProofs`, `WalletProofs`, `FoodProofs`, `FleetProofs`; `SumFacts` holds what two of
them need about finite sums. Every invariant and every action property of the passing runs
is a theorem, for every value of the constants, and so is every refinement.

### AuctionProofs

`AuctionProofs` proves, for any sets of orders, riders and fares, any window lengths
within the cap, any bounds on the calls under way and any `MaxTime`, with or without
a job queue:

| Theorem | Statement |
|---|---|
| `TypeCorrect` | `Spec => []TypeOK` |
| `OneRidePerRider` | `Spec => []OneActiveRide` |
| `NoOfferStranded` | `Spec => []NoStrandedOffer` |
| `AssignmentConsistent` | `Spec => []AssignmentMatchesOffers` |
| `WindowPromiseKept` | `Spec => []WindowHolds` |
| `FirstPickWins` | `Spec => NeverReassigned` |
| `BidsInsideWindow` | `Spec => BidsLandInsideWindow` |
| `RaisesMonotonic` | `Spec => RaisesOnlyAdd` |
| `ExpiryNotEarly` | `Spec => NoEarlyExpiry` |

*Assumptions.* `NoRider` is no rider; clones are orders; fares and times are naturals; no
window is longer than the cap or shorter than the normal one; `HasQueue` is a Boolean.
Nothing else; in particular nothing is finite.

*The argument.* `IInv` is the conjunction of the type invariant, the four state
properties and `CallsWithinCap`. None of these but the type invariant is inductive alone:
`OneActiveRide` needs the types of the calls under way, `NeverReassigned` needs
`AssignmentMatchesOffers` (an open order has no rider, so a pick that lands on an
open order overwrites nothing), and `RaisesOnlyAdd` and `NoEarlyExpiry` need
`WindowHolds`, since the end a raise computes is within the cap only if the end it
extends was. A re-price extends an end it read earlier and a sizing replaces the
normal window of an order without an end: `CallsWithinCap` keeps both within the cap.
A raise's minute is kept at expiry only because it is part of the
end. Both the invariant and the action properties depend on the order and offer
rows alone, so the twenty-four actions are first reduced to the few that move a row
(`RowStep`, lemma `StepIsRowStep`); each conjunct of `IInv` is then one lemma over
`RowStep` with one step per action, and `EndAfterRaiseBounds` is the window arithmetic,
stated once.

### TripProofs

For any orders, riders, fares, rates and weights of the policy, and any bounds on the
calls under way:

| Theorem | Statement |
|---|---|
| `TypeCorrect` | `Spec => []TypeOK` |
| `BillFits` | `Spec => []BillMatchesFare` |
| `CreditReplaced` | `Spec => []RatingReplacesCredit` |
| `FreeJobsCounted` | `Spec => []FreeJobsHonoured`, for finitely many orders |
| `HeldOffline` | `Spec => []HeldRidersOffline`, while penalties apply (`Suspensions = {FALSE}`) |
| `LowHeld` | `Spec => []LowScoreHeld`, while penalties apply |
| `BanStays` | `Spec => BanIsFinal` |
| `FraudHoldStays` | `Spec => VelocityHoldSticks` |
| `TableImplemented` | `Spec => ImplementsTable` |

*Assumptions.* `TripAssumption`, `RowAssumption`, `ReliabilityAssumption` and
`CommissionAssumption`: fares are positive, rates are percentages, the hold's threshold is
at most the clearing score, which is at most the highest; the sentinels are no rider and
no order. With the two conditions in the table, nothing else. Penalties that are switched
off and on again leave held riders online until the next write, which is why two
theorems ask that they apply throughout.

*The argument.* Lemma `StepParts` takes each of the thirty-four disjuncts of `Next` apart
once: what it does to an order is one of six moves (`OrderStep`), what it does to a rider
row either keeps the row's promises (`Keeps`: a ban stays, a fraud hold stays, a fit row
stays fit) or is a clear-hold. Everything else is proved over these. `IInv` needs
`OrderFacts` (an order on the road has a rider and a fare, only a completed one is rated or
billed), and the type invariant needs `BillMatchesFare`: a correction keeps a
commission at or above zero only because the amount it corrects was that of the fare
it corrects from. A completion recovers a score without asking whether that applies a
hold; that it never does follows from `LowScoreHeld`, so the two standing
properties are proved together (`AllFit`). `FreeJobsCounted` counts the rows of a rider:
a completion adds one to the done and at most one to the free or the paid, by the ordinal.

### LineageProofs

One live order per trip, for any number of orders, bails and resends at once:

| Theorem | Statement |
|---|---|
| `OneLiveWhileReached` | `Spec => [](Reached => OneLivePerTrip)` |
| `ChainsNeverCyclic` | `Spec => []Acyclic` |
| `OneLiveUnlessLong` | `Spec => [](OneLivePerTrip \/ LongChain)` |

`Reached` says that the walk up from every order ends at an order that is no clone;
`Acyclic` that every group of orders has one whose parent is outside it; `LongChain` that
some order has more than `LineageDepth` ancestors. `LINEAGE_MAX_DEPTH` is 50, and its
comment (`orders/order-lifecycle.service.ts:65-66`) says that it only guards against a
cyclic chain. The theorems say what is true of that: no chain is ever cyclic, and what the
cap does instead is to end the walk of a chain of more than 50 re-sends below its root,
which is the only way in which a trip could get a second live order. Without the condition
the property is false, as the `LineageDepth` 1 of section 3 shows.

*Assumptions.* Those of `TripProofs`.

*The argument.* A walk is a function, and induction on its length gives that every order
has one and that two of one order agree (`WalksExist`, `WalksAgree`); a new clone's walk
goes through its parent's and no other order's changes (`FreshRoots`, `RootsAfter`).
`LineageInv` is: an order not yet created has no parent and no clone (`Unborn`), a resend
is of an order that exists (`Sent`), two resends that hold their locks have different
roots (`Apart`), and, while every root is in reach, a resend that read "none live" is
right as long as it holds its locks (`NoneLive`) and no two live orders have one root
(`OneLive`). `OneLivePerTrip` needs `NoneLive` since a resend clones on what it read two
steps before, `NoneLive` needs `Apart` since only another resend of the same root could
make its answer old, and a bail's clone takes the place of a live order of its own
lineage. Every action is one of five kinds (`Still`, `Born`, `Cloned`, `Filed`, `Locks`),
and the invariant is proved over those. `Reached`, once lost, is never regained: a clone
only lengthens a chain (`FreshRoots`). So the invariant, which asks for nothing while some
root is out of reach, is inductive. A chain that is too long is found by the walk itself:
`LineageDepth` steps that have not come to an end visit that many different ancestors,
because no chain is cyclic.

### WalletProofs

For any riders, top-ups, callers, amounts, fees and bounds:

| Theorem | Statement |
|---|---|
| `TypeCorrect` | `Spec => []TypeOK` |
| `LedgerChained` | `Spec => []LedgerChains` |
| `CreditedOnce` | `Spec => []CreditMatchesStatus` |
| `CreditIsPaid` | `Spec => []NoUnpaidCredit` |
| `ShortPaymentIsWorth` | `Spec => []ShortPaymentWorth` |
| `SettledStays` | `Spec => SettledIsFinal` |
| `ReversalsCapped` | `Spec => []ReversalsWithinCredit` |
| `BalanceTotals` | `Spec => []BalanceIsSum` |
| `LedgerImplemented` | `Spec => ImplementsLedger` |

*Assumptions.* `WalletAssumption`: the two sentinels are no rider and no top-up, amounts
are naturals, the callers are among the three.

*The argument.* Every step is either quiet on the ledger, or a `Post` of one entry under
one guard; the lemmas say what a post does to a chain and to a set of entries. Credits
match statuses because the four places that write `confirmed` post in the same step and
ask for an unsettled status or an uncredited top-up. That a credit is paid needs what
the calls carry: an answer that says "paid" says what the charge says, since a paid
charge never changes, and an anomaly row is only written for such an answer. The worth
of a short payment rests on `NetOfFee` having a value for any payment and fee: the
largest credit that fits is found by bounding the set of credits that fit. The
refinement is one posting or a stutter per step; that a source has no earlier entry is
the uniqueness of `CreditMatchesStatus`, of the form keys and of the job ids.

`ReversalsCapped` is about a sum over the positions of a ledger that no bound limits. Its
invariant, `AllCovered`, adds that every reversal names an entry its own
ledger already has, or none: otherwise an entry posted later would be born reversed. A
posting adds one position to one ledger; only if it is a reversal does it change a sum,
by its own amount, and then `ReverseEntry` has checked the sum under the row lock. The
community modules define a sum by a recursive function that takes the
elements in an order of its choice. `SumFacts` proves that the choice does not matter
(`AnyFirst`), from which follow the sum of one more element (`TotalAdd`) and the sum of
equal numbers (`TotalSame`). With them `BalanceTotals` is short: it is the first check of the
nightly `wallet-integrity` job, of the state at any moment. (The job reads balances and
sums in two statements, so what it compares may not be one state.)

### FoodProofs

For any riders, sweepers, scopes (lines, swaps, ceilings, rounds, crashes) and attempt
cap:

| Theorem | Statement |
|---|---|
| `TypeCorrect` | `Spec => []TypeOK` |
| `ReadyHasCode` | `Spec => []CollectableHasCode` |
| `KitchenAnswered` | `Spec => []UnconfirmedNeverRung` |
| `PaidFirst` | `Spec => []PaidBeforeCooking` |
| `GoodsCounted` | `Spec => GoodsFollowLines` |
| `HoldIsReady` | `Spec => []HeldFoodIsReady` |
| `RiderStays` | `Spec => NeverReassigned` |
| `TablesImplemented` | `Spec => ImplementsKitchenTable` |

*Assumptions.* `FoodAssumption`: the actors are distinct, scopes are of their type, the
lines are finitely many (a total counts them).

*The argument.* `IInv` is the type of every column and call, `Standing` and `LineFacts`.
`Standing` is what an order stands on: its status fits its phase and rider (`Placed`), the
code is there with the ready food and only then (`Coded`), a kitchen with a code or a rung
order has answered (`Answered`), a wallet order past its items is paid (`PaidFor`), and
what a call has read that no step takes back (`CallFacts`: a tick that read "ready" means
there is a code, a tick that read "preparing" that the kitchen has answered). `LineFacts`
says what an edit knows of the lines as long as the version it read stands, and that the
late statement of `acceptOrder` finds every line on unless the version has moved.
`GoodsMatchItems` is no invariant (`food_goods`), so `GoodsCounted` is about steps: each
counts the lines it leaves, or moves neither them nor the total. None of the properties is
inductive alone: a claim is right because its CAS pins what the decision was taken on, and
the strengthening says what is left for the facts that are not pinned. The proof has
lemmas on the row each kind of write leaves, one step per action over them, and the
refinement takes each action to a row of the tables.

### FleetProofs

For any bikers, tickers, moments and scopes:

| Theorem | Statement |
|---|---|
| `TypeCorrect` | `Spec => []TypeOK` |
| `ScopeKept` | `Spec => []InScope` |
| `HoldIsQuiet` | `Spec => []HeldRingsNobody` |
| `RideBilled` | `Spec => []RideBilledOnce` |
| `TableImplemented` | `Spec => ImplementsFleetTable` |

*Assumptions.* `BikerAssumption`: the sentinel is no biker. `FleetAssumption`: moments are
positive numbers (zero is `NULL`), scopes are of their type. The set of moments need not be
finite or large enough: with none left, a call that would write one waits.

*The argument.* `IInv` is `TypeOK /\ Placed /\ AnswersRead /\ RoundLeft /\ InScope /\
HeldRingsNobody /\ RideBilledOnce`. The type invariant bounds the attempt by the number of
rounds, which holds because a tick rings only if the attempt it read is below it and that
attempt is pinned (`RoundLeft`). `Placed` says what stands with a status: who has a rider,
who is tagged, what is not collected yet; without it a drop, a convert or a cancel from
the console could leave a bill that does not fit. `AnswersRead` is what makes `SameRound`
mean that the round is still on: an answer was read from a round, so the moment it pins is
not `NULL`, and a search on hold has no other. `InScope` is the meeting of three guards,
the two triggers and the CAS of the convert; `HeldRingsNobody` that of the tick's CAS,
which pins the hold, and of `TickHold`, which clears the round. The actions are grouped by
whose they are (a tick's, an answer's, the booking's, the ride's, the rest); each conjunct
has one lemma per group.

### Induction

The library states induction with an operator as a parameter, which is not to be had here.
`SumFacts` states it of a set instead: a set that holds 0, and the successor of each number
it holds, holds them all (`SetInduction`, from the well-foundedness of `<` and a least
element of the complement). An induction is then the definition of such a set with `DEFINE`.

### Proved, and in no run

`NeverReassigned` (of the auction and of food orders), `BidsLandInsideWindow`,
`RatingReplacesCredit`, `LowScoreHeld`, `ShortPaymentWorth`, `BalanceIsSum`, `SettledIsFinal`,
`UnconfirmedNeverRung`, `Reached => OneLivePerTrip` and `Acyclic` are properties that the
proofs settle without the bounds of a run.

### Only model-checked

Liveness under fairness is out of the prover's reach: `EveryAuctionCloses`,
`PaidIsSettled`, `RoundEnds`, `EveryRingEnds`, the `SearchSettles` of food and of fleets,
`OffersEnd` and `DisabledDissolves` are shown by TLC on the instances of section 3 only.

## 6. What is abstracted, and what is left out

* Auction: the board's fan-out and `expandBroadcast`. Which order is whose clone is the
  business of `Trip`; here any clone may be created at any time. The clock is one clock; the
  database and every instance read it.
* Trip: the delivery code's attempts and re-issue (`ConfirmDelivery` stands for the
  right code), photos, the rider's rating of the sender, the public star average,
  fleet and merchant branches, dispute strikes, heartbeats, KYC and licence expiry.
* Reliability: the velocity counts look 14 days back in the code and at the whole
  history here; a hold from before the `held_reason` column has no reason and behaves
  like a reliability hold.
* Commission: floating-point noise below half a cent, and fractional rates.
* Wallet: the fake rail that pays at once, the replay of `createTopup` under one
  idempotency key (it returns the intent of the first call), the notices that a credit
  sends, the daily cap in dollars (the model bounds the number of intents), the read-only
  integrity check, the anomaly's text (the set of anomalies is their de-duplication), the
  sweep's batch of 20, a rail that says paid and names no amount.
  `creditAccount` has no caller.
* FoodOrder: the standing and cover gates in front of a placed or accepted order
  (a refusal by the environment), the small-order fee, reduced quantities (a line stays or
  goes), prescriptions, scheduled orders, pushes, what a drop costs the rider
  (`Reliability`, in `Trip`), the attempts at a pickup code, the merchant debt that a pickup
  opens, and the trip after the pickup, which is `Trip`'s.
* FoodDispatch: the rounds in which own bikers carry an app order, top-ups of the fee by
  the shop and deliveries the venue pays for. When a search is due again is left to
  chance, so a tick may always find the order due; the delays themselves are not
  modelled. One dispatcher in the runs, any number in the proofs.
* Fleet: one booking and one owner; the ride in three statuses before its end (`assigned`,
  `picked_up`, `delivered`); a biker's standing, debts and other jobs are what makes him
  free, or an accept refused; the invitations to a fleet and its weekly statements; a
  sweep's list of bookings is the one booking; what a drop costs the biker.
* Not modelled at all, with the reason of each: `PROJECT.json`, "components".

The map covers the files that decide about orders, money and standing. Most of the
repository's lines are screens of the two apps, the generated design bundles and their
support scripts, and pages of the console, which keep no state that a
property here is about.

## 7. Plan

1. **Merchant debt**: opened at pickup, settled at the console, read by the next gate.
2. **Handover**: attempts, lockout, rotation and reveal of the delivery code; two confirms
   at once.
3. Refresh-token rotation and the reuse of a stolen family; the KYC reconcile sweep
   against a decision by hand; the cover gate.
4. Proofs: the laws of `Commission` and `Reliability` as theorems of their own.

Each of the first three is two or three writers of one row, so the instances stay at two
actors and one or two rows.
