------------------------------ MODULE Auction ------------------------------
(***************************************************************************)
(* The parcel auction: a customer's order opens for offers, riders bid on  *)
(* it, the customer may raise the price, and the order leaves the board by *)
(* a pick, by expiry or by a cancel.                                       *)
(*                                                                         *)
(* The shared state is the database: the order row, the offers table and   *)
(* what is under way in the handlers. Every handler runs concurrently with *)
(* every other one at READ COMMITTED isolation, so a handler that reads    *)
(* before it takes the row lock is two actions here: the read, which files *)
(* what it saw in a set of requests under way, and the guarded write. A    *)
(* handler that locks the order row first, or is one compare-and-swap, is  *)
(* one action.                                                             *)
(*                                                                         *)
(* The delayed expiry job (a queue that may lose it) and the two-minute    *)
(* database sweep both end in expireOrder.                                 *)
(*                                                                         *)
(* Some orders are clones: they put a trip back on the board after a bail  *)
(* or a resend. A clone is announced after it is committed, and while it   *)
(* is on the board another resend of the same trip re-prices it. Which     *)
(* order is whose clone is the business of module Trip.                    *)
(***************************************************************************)
EXTENDS Integers, FiniteSets

CONSTANTS
  Orders,         \* parcel orders that may be created
  Clones,         \* those that re-broadcast an earlier order of their trip
  Riders,         \* profiles that may bid (never the order's own customer)
  NoRider,        \* order.riderId IS NULL
  Fares,          \* the fares a customer or a rider may name
  NormalWindow,   \* OFFER_WINDOW_MS
  WindowLengths,  \* auction lengths: the normal and the quiet-market window
  Grace,          \* OFFER_CHOOSE_GRACE_MS
  Jitter,         \* JITTER_MAX_MS
  RaiseMin,       \* raiseMinRemainingMs
  Cap,            \* maxWindowMs
  HasQueue,       \* REDIS_URL is set: there is a job queue
  MaxTime,        \* bound on the clock
  MaxBids,        \* bound on makeOffer calls under way at once
  MaxPicks,       \* bound on selectOffer calls under way at once
  MaxRaises       \* bound on raisePrice calls under way at once

ASSUME NoRiderAssumption == NoRider \notin Riders
ASSUME ClonesAssumption == Clones \subseteq Orders
ASSUME FaresAssumption == Fares \subseteq Nat
ASSUME QueueAssumption == HasQueue \in BOOLEAN
ASSUME TimesAssumption ==
  /\ WindowLengths \subseteq Nat
  /\ {Grace, Jitter, RaiseMin, Cap, NormalWindow} \subseteq Nat
  /\ NormalWindow <= Cap
  /\ \A w \in WindowLengths : NormalWindow <= w /\ w <= Cap

VARIABLES
  clock,        \* the time every instance and the database read
  status,       \* orders.status
  fare,         \* orders.proposed_fare
  createdAt,    \* orders.created_at
  endsAt,       \* when the window ends (offerWindowEndsAt)
  sized,        \* orders.offer_window_ends_at IS NOT NULL
  raisedAt,     \* orders.fare_raised_at (NoTime = NULL)
  rider,        \* orders.rider_id
  agreedFare,   \* orders.agreed_fare
  offerStatus,  \* offers.status per (order, rider); "none" = no row
  offerFare,    \* offers.offered_fare
  offerAt,      \* offers.created_at
  bids,         \* makeOffer calls past their checks, before their transaction
  picks,        \* selectOffer transactions past their reads, before the CAS
  raises,       \* raisePrice calls past their reads, before the CAS
  reprices,     \* resends that found a live clone, before their CAS
  announces,    \* clones committed and not yet announced
  jobs,         \* delayed "expire" jobs in the queue
  sweep         \* order ids the running sweep still has to visit

orderRow == <<status, fare, createdAt, endsAt, sized, raisedAt, rider, agreedFare>>
offerRows == <<offerStatus, offerFare, offerAt>>
requests == <<bids, picks, raises, reprices, announces>>
vars == <<clock, orderRow, offerRows, requests, jobs, sweep>>

NoTime == -1

(***************************************************************************)
(* "assigned" stands for every status of an active ride: the trip itself   *)
(* is the business of the order lifecycle, and the auction only sees       *)
(* whether it is over.                                                     *)
(***************************************************************************)
Statuses == {"none", "open_for_offers", "assigned", "expired", "cancelled", "ended"}
OfferStatuses == {"none", "pending", "selected", "declined", "expired"}

Bids == [order : Orders, rider : Riders, fare : Fares]
Picks == [order : Orders, rider : Riders, fare : Nat, at : Nat]
Raises == [order : Orders, fare : Fares, at : Nat, end : Nat, sized : BOOLEAN]
Reprices == [order : Clones, fare : Fares, raised : BOOLEAN, at : Nat, end : Nat]
Jobs == [order : Orders, at : Nat]

Open(o) == status[o] = "open_for_offers"
OnJob(r) == \E o \in Orders : status[o] = "assigned" /\ rider[o] = r
Pending(o) == {r \in Riders : offerStatus[o][r] = "pending"}

Init ==
  /\ clock = 0
  /\ status = [o \in Orders |-> "none"]
  /\ fare = [o \in Orders |-> 0]
  /\ createdAt = [o \in Orders |-> 0]
  /\ endsAt = [o \in Orders |-> 0]
  /\ sized = [o \in Orders |-> FALSE]
  /\ raisedAt = [o \in Orders |-> NoTime]
  /\ rider = [o \in Orders |-> NoRider]
  /\ agreedFare = [o \in Orders |-> 0]
  /\ offerStatus = [o \in Orders |-> [r \in Riders |-> "none"]]
  /\ offerFare = [o \in Orders |-> [r \in Riders |-> 0]]
  /\ offerAt = [o \in Orders |-> [r \in Riders |-> 0]]
  /\ bids = {} /\ picks = {} /\ raises = {} /\ reprices = {} /\ announces = {}
  /\ jobs = {} /\ sweep = {}

\* A new row is on the board at fare f until end.
OpenRow(o, f, end) ==
  /\ status[o] = "none"
  /\ clock + Cap + Grace + Jitter <= MaxTime
  /\ status' = [status EXCEPT ![o] = "open_for_offers"]
  /\ fare' = [fare EXCEPT ![o] = f]
  /\ createdAt' = [createdAt EXCEPT ![o] = clock]
  /\ endsAt' = [endsAt EXCEPT ![o] = end]
  /\ UNCHANGED <<clock, raisedAt, rider, agreedFare, offerRows,
                 bids, picks, raises, reprices, sweep>>

\* OfferExpiryService.schedule, without a queue a no-op.
Schedule(o, at) == IF HasQueue THEN jobs \cup {[order |-> o, at |-> at]} ELSE jobs

(***************************************************************************)
(* OrdersService.create: the order opens at once, its window sized from    *)
(* the riders nearby, and the expiry job is queued at the end plus jitter. *)
(* A replay of the same idempotency key returns the order and changes      *)
(* nothing. The guard on the clock only keeps a whole auction within       *)
(* MaxTime.                                                                *)
(***************************************************************************)
CreateOrder(o, f, w, jitter) ==
  /\ o \notin Clones
  /\ OpenRow(o, f, clock + w)
  /\ sized' = [sized EXCEPT ![o] = TRUE]
  /\ jobs' = Schedule(o, clock + w + jitter)
  /\ UNCHANGED announces

\* cloneForRebroadcast: a resend sizes the clone's window, a bail leaves it
\* without an end, which reads as the normal window.
CloneOrder(o, f, w, bySupply) ==
  /\ o \in Clones
  /\ OpenRow(o, f, clock + (IF bySupply THEN w ELSE NormalWindow))
  /\ sized' = [sized EXCEPT ![o] = bySupply]
  /\ announces' = announces \cup {o}
  /\ UNCHANGED jobs

Later(t, u) == IF t <= u THEN u ELSE t
Earlier(t, u) == IF t <= u THEN t ELSE u

\* announceOpenOrder: a window that has no end yet gets one, and the job is
\* queued for its end or, when a raise set another one in between, for the end
\* the announcement had computed.
AnnounceOrder(o, w, jitter) ==
  /\ Open(o)
  /\ endsAt' = IF sized[o] THEN endsAt ELSE [endsAt EXCEPT ![o] = createdAt[o] + w]
  /\ sized' = [sized EXCEPT ![o] = TRUE]
  /\ \E end \in {endsAt'[o], createdAt[o] + w} :
       jobs' = Schedule(o, Later(clock, end) + jitter)
  /\ announces' = announces \ {o}
  /\ UNCHANGED <<clock, status, fare, createdAt, raisedAt, rider, agreedFare, offerRows,
                 bids, picks, raises, reprices, sweep>>

\* The order has closed, or the process dies between the commit and the call.
AnnounceDropped(o) ==
  /\ announces' = announces \ {o}
  /\ UNCHANGED <<clock, orderRow, offerRows, bids, picks, raises, reprices, jobs, sweep>>

(***************************************************************************)
(* OffersService.makeOffer, up to its transaction: every refusal that is   *)
(* read without a lock. An accept names the fare the order asks now, a     *)
(* counter any fare. The rider's own gates (standing, heartbeat, blocks,   *)
(* commission cover) are read here and in selectOffer outside any lock and *)
(* may change before and after every step, so they can refuse any call and *)
(* constrain none: a call they refuse is a call not made.                  *)
(***************************************************************************)
MakeOfferCheck(o, r, f) ==
  /\ Cardinality(bids) < MaxBids
  /\ Open(o)
  /\ clock < endsAt[o]
  /\ ~OnJob(r)
  /\ bids' = bids \cup {[order |-> o, rider |-> r, fare |-> f]}
  /\ UNCHANGED <<clock, orderRow, offerRows, picks, raises, reprices, announces, jobs, sweep>>

\* Answering a raise: an offer from before the latest raise, still open to change.
AnswersRaise(o, r) ==
  /\ raisedAt[o] # NoTime
  /\ offerAt[o][r] < raisedAt[o]
  /\ offerStatus[o][r] \in {"pending", "declined"}

\* Faulty variant of BidLands: the order may have closed since.
BidLandsOnOldRead(b) ==
  clock < endsAt[b.order] /\
  (offerStatus[b.order][b.rider] = "none" \/ AnswersRaise(b.order, b.rider))

\* What makeOffer re-reads once it holds the order row FOR UPDATE.
BidLands(b) ==
  /\ Open(b.order)
  /\ clock < endsAt[b.order]
  /\ offerStatus[b.order][b.rider] = "none" \/ AnswersRaise(b.order, b.rider)

MakeOfferCommit(b) ==
  /\ BidLands(b)
  /\ offerStatus' = [offerStatus EXCEPT ![b.order][b.rider] = "pending"]
  /\ offerFare' = [offerFare EXCEPT ![b.order][b.rider] = b.fare]
  /\ offerAt' = [offerAt EXCEPT ![b.order][b.rider] = clock]
  /\ bids' = bids \ {b}
  /\ UNCHANGED <<clock, orderRow, picks, raises, reprices, announces, jobs, sweep>>

MakeOfferRefused(b) ==
  /\ ~BidLands(b)
  /\ bids' = bids \ {b}
  /\ UNCHANGED <<clock, orderRow, offerRows, picks, raises, reprices, announces, jobs, sweep>>

(***************************************************************************)
(* OffersService.withdrawOffer: one transaction under the order-row lock.  *)
(***************************************************************************)
WithdrawOffer(o, r) ==
  /\ Open(o)
  /\ offerStatus[o][r] = "pending"
  /\ offerStatus' = [offerStatus EXCEPT ![o][r] = "declined"]
  /\ UNCHANGED <<clock, orderRow, offerFare, offerAt, requests, jobs, sweep>>

(***************************************************************************)
(* OrdersService.raisePrice: the read, which fixes "now" and the window    *)
(* end it extends, and the compare-and-swap that pins that end.            *)
(***************************************************************************)
RaisePriceRead(o, f) ==
  /\ Cardinality(raises) < MaxRaises
  /\ Open(o)
  /\ clock < endsAt[o]
  /\ fare[o] < f
  /\ raises' = raises \cup
       {[order |-> o, fare |-> f, at |-> clock, end |-> endsAt[o], sized |-> sized[o]]}
  /\ UNCHANGED <<clock, orderRow, offerRows, bids, picks, reprices, announces, jobs, sweep>>

\* Faulty variant of EndAfterRaise: the extension is not capped.
EndAfterRaiseNoCap(created, end, at) == Later(end, at + RaiseMin)

\* offerWindowEndAfterRaise
EndAfterRaise(created, end, at) ==
  Later(end, Earlier(Later(end, at + RaiseMin), created + Cap))

\* Faulty variant of RaiseLands: the end it extends is not pinned.
RaiseLandsUnpinned(q) == Open(q.order) /\ fare[q.order] < q.fare

RaiseLands(q) ==
  /\ Open(q.order)
  /\ endsAt[q.order] = q.end /\ sized[q.order] = q.sized
  /\ fare[q.order] < q.fare

\* What a raise writes besides the fare.
ExtendWindow(q) ==
  /\ raisedAt' = [raisedAt EXCEPT ![q.order] = q.at]
  /\ endsAt' = [endsAt EXCEPT ![q.order] = EndAfterRaise(createdAt[q.order], q.end, q.at)]
  /\ sized' = [sized EXCEPT ![q.order] = TRUE]

RaisePriceCommit(q) ==
  /\ RaiseLands(q)
  /\ fare' = [fare EXCEPT ![q.order] = q.fare]
  /\ ExtendWindow(q)
  /\ raises' = raises \ {q}
  /\ UNCHANGED <<clock, status, createdAt, rider, agreedFare, offerRows,
                 bids, picks, reprices, announces, jobs, sweep>>

RaisePriceRefused(q) ==
  /\ ~RaiseLands(q)
  /\ raises' = raises \ {q}
  /\ UNCHANGED <<clock, orderRow, offerRows, bids, picks, reprices, announces, jobs, sweep>>

(***************************************************************************)
(* OrderLifecycleService.resend that finds the trip's clone on the board:  *)
(* under the lock on the trip's oldest order it reads the clone, without a *)
(* lock, and re-prices it in a compare-and-swap that pins the status only. *)
(* The new fare may be higher or lower; a higher one extends the window.   *)
(***************************************************************************)
RepriceRead(o, f) ==
  /\ o \in Clones /\ Open(o)
  /\ \A q \in reprices : q.order # o
  /\ reprices' = reprices \cup
       {[order |-> o, fare |-> f, raised |-> fare[o] < f, at |-> clock, end |-> endsAt[o]]}
  /\ UNCHANGED <<clock, orderRow, offerRows, bids, picks, raises, announces, jobs, sweep>>

RepriceCommit(q) ==
  /\ Open(q.order)
  /\ fare' = [fare EXCEPT ![q.order] = q.fare]
  /\ \/ q.raised /\ ExtendWindow(q)
     \/ ~q.raised /\ UNCHANGED <<raisedAt, endsAt, sized>>
  /\ reprices' = reprices \ {q}
  /\ UNCHANGED <<clock, status, createdAt, rider, agreedFare, offerRows,
                 bids, picks, raises, announces, jobs, sweep>>

RepriceRefused(q) ==
  /\ ~Open(q.order)
  /\ reprices' = reprices \ {q}
  /\ UNCHANGED <<clock, orderRow, offerRows, bids, picks, raises, announces, jobs, sweep>>

(***************************************************************************)
(* MatchingService.selectOffer: the checks read the offer, the order and   *)
(* the rider without a lock; the write is a compare-and-swap on the order  *)
(* row, undone by the one_active_ride index if the rider is on a job. The  *)
(* choose cutoff and the fare are those of the read.                       *)
(***************************************************************************)
SelectOfferRead(o, r) ==
  /\ Cardinality(picks) < MaxPicks
  /\ Open(o)
  /\ endsAt[o] > clock - Grace
  /\ offerStatus[o][r] = "pending"
  /\ picks' = picks \cup {[order |-> o, rider |-> r, fare |-> offerFare[o][r], at |-> clock]}
  /\ UNCHANGED <<clock, orderRow, offerRows, bids, raises, reprices, announces, jobs, sweep>>

\* Faulty variants of PickLands: no index, no compare-and-swap on the status.
PickLandsNoIndex(p) == Open(p.order) /\ endsAt[p.order] > p.at - Grace
PickLandsNoCas(p) == endsAt[p.order] > p.at - Grace /\ ~OnJob(p.rider)

PickLands(p) ==
  /\ Open(p.order)
  /\ endsAt[p.order] > p.at - Grace
  /\ ~OnJob(p.rider)

SelectOfferCommit(p) ==
  /\ PickLands(p)
  /\ status' = [status EXCEPT ![p.order] = "assigned"]
  /\ rider' = [rider EXCEPT ![p.order] = p.rider]
  /\ agreedFare' = [agreedFare EXCEPT ![p.order] = p.fare]
  /\ offerStatus' = [offerStatus EXCEPT ![p.order] =
       [r \in Riders |-> IF r = p.rider THEN "selected"
                         ELSE IF @[r] = "pending" THEN "declined" ELSE @[r]]]
  /\ picks' = picks \ {p}
  /\ UNCHANGED <<clock, fare, createdAt, endsAt, sized, raisedAt, offerFare, offerAt,
                 bids, raises, reprices, announces, jobs, sweep>>

SelectOfferRefused(p) ==
  /\ ~PickLands(p)
  /\ picks' = picks \ {p}
  /\ UNCHANGED <<clock, orderRow, offerRows, bids, raises, reprices, announces, jobs, sweep>>

(***************************************************************************)
(* MatchingService.expireOrder: one compare-and-swap, past the choose      *)
(* grace or, with no pending offer, past the window end.                   *)
(***************************************************************************)
\* Faulty variant of Due: pending offers get no choose grace.
DueNoGrace(o) == Open(o) /\ endsAt[o] <= clock

Due(o) ==
  /\ Open(o)
  /\ \/ endsAt[o] <= clock - Grace
     \/ endsAt[o] <= clock /\ Pending(o) = {}

\* Faulty variant of Close: the two statuses swapped.
CloseSwapped(o, st, ost) ==
  /\ status' = [status EXCEPT ![o] = ost]
  /\ offerStatus' = [offerStatus EXCEPT ![o] =
       [r \in Riders |-> IF @[r] = "pending" THEN st ELSE @[r]]]
  /\ UNCHANGED <<fare, createdAt, endsAt, sized, raisedAt, rider, agreedFare,
                 offerFare, offerAt>>

\* Close the row in status st and its pending offers in status ost.
Close(o, st, ost) ==
  /\ status' = [status EXCEPT ![o] = st]
  /\ offerStatus' = [offerStatus EXCEPT ![o] =
       [r \in Riders |-> IF @[r] = "pending" THEN ost ELSE @[r]]]
  /\ UNCHANGED <<fare, createdAt, endsAt, sized, raisedAt, rider, agreedFare,
                 offerFare, offerAt>>

RetryAt(o) == IF endsAt[o] > clock THEN endsAt[o] ELSE endsAt[o] + Grace

\* OfferExpiryService.expireOrDefer: the job's body, with its one follow-up.
RunExpireJob(j) ==
  /\ j.at <= clock
  /\ \/ /\ Due(j.order)
        /\ Close(j.order, "expired", "expired")
        /\ jobs' = jobs \ {j}
     \/ /\ Open(j.order) /\ ~Due(j.order)
        /\ jobs' = (jobs \ {j}) \cup {[order |-> j.order, at |-> RetryAt(j.order)]}
        /\ UNCHANGED <<orderRow, offerRows>>
     \/ /\ ~Open(j.order)
        /\ jobs' = jobs \ {j}
        /\ UNCHANGED <<orderRow, offerRows>>
  /\ UNCHANGED <<clock, requests, sweep>>

\* A Redis outage at the enqueue, or three failed attempts.
LoseJob(j) ==
  /\ jobs' = jobs \ {j}
  /\ UNCHANGED <<clock, orderRow, offerRows, requests, sweep>>

(***************************************************************************)
(* OfferExpiryService.reconcileStaleOffers: read the stale ids, then       *)
(* expireOrder on each of them.                                            *)
(***************************************************************************)
\* Faulty variant of Stale: an order with pending offers is left to its job.
StaleNoOffers(o) == Open(o) /\ endsAt[o] <= clock - (Jitter + Grace) /\ Pending(o) = {}

Stale(o) == Open(o) /\ endsAt[o] <= clock - (Jitter + Grace)

SweepRead ==
  /\ sweep = {}
  /\ \E o \in Orders : Stale(o)
  /\ sweep' = {o \in Orders : Stale(o)}
  /\ UNCHANGED <<clock, orderRow, offerRows, requests, jobs>>

SweepOrder(o) ==
  /\ sweep' = sweep \ {o}
  /\ \/ Due(o) /\ Close(o, "expired", "expired")
     \/ ~Due(o) /\ UNCHANGED <<orderRow, offerRows>>
  /\ UNCHANGED <<clock, requests, jobs>>

(***************************************************************************)
(* OrderLifecycleService.cancel by the customer: any live status. The CAS  *)
(* pins the status it read, so read and write are one step.                *)
(***************************************************************************)
CancelOrder(o) ==
  /\ status[o] \in {"open_for_offers", "assigned"}
  /\ Close(o, "cancelled", "declined")
  /\ UNCHANGED <<clock, requests, jobs, sweep>>

\* The trip reaches a status that is no active ride (delivered, undelivered).
EndTrip(o) ==
  /\ status[o] = "assigned"
  /\ status' = [status EXCEPT ![o] = "ended"]
  /\ UNCHANGED <<clock, fare, createdAt, endsAt, sized, raisedAt, rider, agreedFare,
                 offerRows, requests, jobs, sweep>>

Tick ==
  /\ clock < MaxTime
  /\ clock' = clock + 1
  /\ UNCHANGED <<orderRow, offerRows, requests, jobs, sweep>>

Next ==
  \/ \E o \in Orders, f \in Fares, w \in WindowLengths, jitter \in 0..Jitter :
       CreateOrder(o, f, w, jitter)
  \/ \E o \in Orders, f \in Fares, w \in WindowLengths, bySupply \in BOOLEAN :
       CloneOrder(o, f, w, bySupply)
  \/ \E o \in announces, w \in WindowLengths, jitter \in 0..Jitter :
       AnnounceOrder(o, w, jitter)
  \/ \E o \in announces : AnnounceDropped(o)
  \/ \E o \in Orders, r \in Riders, f \in Fares : MakeOfferCheck(o, r, f)
  \/ \E b \in bids : MakeOfferCommit(b)
  \/ \E b \in bids : MakeOfferRefused(b)
  \/ \E o \in Orders, r \in Riders : WithdrawOffer(o, r)
  \/ \E o \in Orders, f \in Fares : RaisePriceRead(o, f)
  \/ \E q \in raises : RaisePriceCommit(q)
  \/ \E q \in raises : RaisePriceRefused(q)
  \/ \E o \in Orders, f \in Fares : RepriceRead(o, f)
  \/ \E q \in reprices : RepriceCommit(q)
  \/ \E q \in reprices : RepriceRefused(q)
  \/ \E o \in Orders, r \in Riders : SelectOfferRead(o, r)
  \/ \E p \in picks : SelectOfferCommit(p)
  \/ \E p \in picks : SelectOfferRefused(p)
  \/ \E j \in jobs : RunExpireJob(j)
  \/ \E j \in jobs : LoseJob(j)
  \/ SweepRead
  \/ \E o \in sweep : SweepOrder(o)
  \/ \E o \in Orders : CancelOrder(o)
  \/ \E o \in Orders : EndTrip(o)
  \/ Tick

Spec == Init /\ [][Next]_vars

(***************************************************************************)
(* Time passes, and the sweep, an interval timer whose body catches every  *)
(* error, keeps running. Nothing is assumed of the queue, of the customer  *)
(* or of the riders.                                                       *)
(***************************************************************************)
Fairness ==
  /\ WF_vars(Tick)
  /\ WF_vars(SweepRead)
  /\ WF_vars(\E o \in sweep : SweepOrder(o))

FairSpec == Spec /\ Fairness

-----------------------------------------------------------------------------
(***************************************************************************)
(* Properties                                                              *)
(***************************************************************************)
\* Every row, request, job and clock reading is of the shape the schema and
\* the handlers give it.
TypeOK ==
  /\ clock \in Nat
  /\ status \in [Orders -> Statuses]
  /\ fare \in [Orders -> Nat]
  /\ createdAt \in [Orders -> Nat]
  /\ endsAt \in [Orders -> Nat]
  /\ sized \in [Orders -> BOOLEAN]
  /\ raisedAt \in [Orders -> Nat \cup {NoTime}]
  /\ rider \in [Orders -> Riders \cup {NoRider}]
  /\ agreedFare \in [Orders -> Nat]
  /\ offerStatus \in [Orders -> [Riders -> OfferStatuses]]
  /\ offerFare \in [Orders -> [Riders -> Nat]]
  /\ offerAt \in [Orders -> [Riders -> Nat]]
  /\ bids \subseteq Bids
  /\ picks \subseteq Picks
  /\ raises \subseteq Raises
  /\ reprices \subseteq Reprices
  /\ announces \subseteq Clones
  /\ jobs \subseteq Jobs
  /\ sweep \subseteq Orders

\* A rider is never on two rides at once, however many customers pick them at
\* the same moment (the one_active_ride index behind selectOffer).
OneActiveRide ==
  \A o1, o2 \in Orders :
    status[o1] = "assigned" /\ status[o2] = "assigned" /\ rider[o1] = rider[o2]
      => o1 = o2

\* No offer is left pending on an order that is no longer open: makeOffer's
\* re-check under the row lock, and the sweep of the pending offers in every
\* handler that closes an order, leave none behind.
NoStrandedOffer ==
  \A o \in Orders : Pending(o) # {} => Open(o)

\* An order that was picked holds exactly one selected offer, its rider's, and
\* an order that was not picked holds none (the CAS of selectOffer and its two
\* offer writes, against every concurrent pick, bid, expiry and cancel).
AssignmentMatchesOffers ==
  \A o \in Orders :
    /\ status[o] \in {"none", "open_for_offers", "expired"} => rider[o] = NoRider
    /\ status[o] \in {"assigned", "ended"} => rider[o] # NoRider
    /\ \A r \in Riders : offerStatus[o][r] = "selected" <=> rider[o] = r

\* An auction's end stays within the cap, and on an order whose fare was raised
\* it leaves the riders the time a raise promises, unless the cap cuts it short.
WindowHolds ==
  \A o \in Orders :
    /\ endsAt[o] <= createdAt[o] + Cap
    /\ status[o] = "none" => raisedAt[o] = NoTime
    /\ raisedAt[o] # NoTime => Earlier(raisedAt[o] + RaiseMin, createdAt[o] + Cap) <= endsAt[o]

\* The end a re-price or an announcement works from is one its order has had.
CallsWithinCap ==
  /\ \A q \in reprices : status[q.order] # "none" /\ q.end <= createdAt[q.order] + Cap
  /\ \A o \in Orders : Open(o) /\ ~sized[o] => endsAt[o] = createdAt[o] + NormalWindow

\* The inductive invariant behind the safety properties.
IInv ==
  /\ TypeOK
  /\ OneActiveRide
  /\ NoStrandedOffer
  /\ AssignmentMatchesOffers
  /\ WindowHolds
  /\ CallsWithinCap

\* The first pick wins: once an order has its rider and its fare no later step
\* gives it another (ET1, "never double-assign").
NeverReassigned ==
  [][\A o \in Orders :
       rider[o] # NoRider => rider'[o] = rider[o] /\ agreedFare'[o] = agreedFare[o]]_vars

\* No bid lands, first or repeated, once the window has ended or the order has
\* closed, although makeOffer decides to bid on an unlocked read.
BidsLandInsideWindow ==
  [][\A o \in Orders, r \in Riders :
       offerStatus'[o][r] = "pending" /\ offerAt'[o][r] # offerAt[o][r]
         => Open(o) /\ clock < endsAt[o]]_vars

\* Racing calls of raisePrice never take time or money back, nor does sizing a
\* window late: on an open order the window end and the asked fare only grow, and
\* the end stays within the cap. Only a re-price, which may ask less, is exempt.
RaisesOnlyAdd ==
  [][\A o \in Orders :
       Open(o) /\ (\A q \in reprices \ reprices' : q.order # o) =>
         /\ endsAt[o] <= endsAt'[o] /\ fare[o] <= fare'[o]
         /\ endsAt'[o] <= createdAt[o] + Cap]_vars

\* An order never expires under a rider who could still be chosen or who is
\* still owed the minute a raise promises: pending offers get the choose grace
\* past the end, and a raise keeps the order open for RaiseMin (up to the cap),
\* whichever stale job or sweep runs expireOrder.
NoEarlyExpiry ==
  [][\A o \in Orders :
       Open(o) /\ status'[o] = "expired" =>
         /\ Pending(o) # {} => endsAt[o] + Grace <= clock
         /\ raisedAt[o] # NoTime =>
              Earlier(raisedAt[o] + RaiseMin, createdAt[o] + Cap) <= clock]_vars

\* Every auction ends: an open order leaves the board by a pick, an expiry or a
\* cancel even if every expiry job is lost, because the sweep finds it.
EveryAuctionCloses ==
  \A o \in Orders : Open(o) ~> ~Open(o)

\* "a withdraw can never race a pick": the offer a pick assigns is pending at
\* the moment the order is assigned.
WithdrawNeverRacesPick ==
  [][\A o \in Orders, r \in Riders :
       Open(o) /\ status'[o] = "assigned" /\ rider'[o] = r
         => offerStatus[o][r] = "pending"]_vars
=============================================================================
