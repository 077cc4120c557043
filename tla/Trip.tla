-------------------------------- MODULE Trip --------------------------------
(***************************************************************************)
(* A public parcel order from the moment it is on the board to its close:  *)
(* the trip, the cancels and re-broadcasts, the rating, the commission it  *)
(* owes, and what each of them does to the rider's standing.               *)
(*                                                                         *)
(* Every handler is one transaction whose order write is a compare-and-    *)
(* swap, and which then locks the rider row. A handler is one action when  *)
(* all it uses was read under those locks. The handlers that carry an      *)
(* unlocked read into their write (selectOffer, rate, adjustFare,          *)
(* adjudicateDelivered, resend, clearHold, liftRider) are a read, which    *)
(* files what it saw among the calls under way, and a commit or a refusal. *)
(*                                                                         *)
(* Not here: the offers and the clock of the auction (module Auction), the *)
(* delivery code (ConfirmDelivery stands for the right one), fleet and     *)
(* merchant orders.                                                        *)
(***************************************************************************)
EXTENDS Reliability, Commission, FiniteSets

CONSTANTS
  Orders,        \* order rows, the clones included
  Riders,
  NoRider,       \* order.riderId IS NULL
  NoOrder,       \* order.rebroadcastOfId IS NULL
  Fares,         \* the agreed fares, in cents
  RatePcts,      \* values of COMMISSION_RATE_PCT a deploy may set
  Suspensions,   \* values of PENALTIES_SUSPENDED a deploy may set
  StrikeLimit,   \* CANCEL_STRIKE_LIMIT
  LineageDepth,  \* LINEAGE_MAX_DEPTH
  AccountStops,  \* what ops may do to a rider's account
  MaxTrips,      \* bound on the orders created, the clones not counted
  MaxPicks, MaxRates, MaxAdjusts, MaxVerdicts, MaxResends, MaxClears,
                 \* bounds on the calls of each kind under way at once
  MaxBillingCalls   \* and on the ratings, verdicts and corrections together

ASSUME RowAssumption == NoRider \notin Riders /\ NoOrder \notin Orders
ASSUME TripAssumption ==
  /\ Fares \subseteq Nat \ {0}
  /\ RatePcts \subseteq 0..100
  /\ Suspensions \subseteq BOOLEAN
  /\ StrikeLimit \in Nat \ {0}
  /\ AccountStops \subseteq {"suspended", "banned"}
  /\ LineageDepth \in Nat

VARIABLES
  status,     \* orders.status; "none" = no row yet
  parent,     \* orders.rebroadcast_of_id
  rider,      \* orders.rider_id
  fare,       \* orders.agreed_fare (NoFare = NULL)
  rated,      \* the customer's row in ratings exists
  credit,     \* orders.auto_close_credit (NoCredit = NULL)
  bill,       \* the order's commission: ledger row plus its adjustments
  trips,      \* riders.trips_count
  standing,   \* the standing of the rider row
  suspended,  \* penaltiesSuspended()
  rate,       \* the live commission rate
  picks,      \* selectOffer calls past their read
  rates,      \* rate() calls past their read
  adjusts,    \* adjustFare calls past their read
  verdicts,   \* adjudicateDelivered calls past their read
  resends,    \* resend() calls past their read, and those holding the lineage
  clears      \* clearHold and liftRider calls past their read

orderRows == <<status, parent, rider, fare, rated, credit, bill>>
riderRows == <<trips, standing>>
policy == <<suspended, rate>>
calls == <<picks, rates, adjusts, verdicts, resends, clears>>
vars == <<orderRows, riderRows, policy, calls>>

NoFare == 0
NoCredit == -1

Statuses ==
  {"none", "open_for_offers", "assigned", "confirmed", "en_route_pickup", "picked_up",
   "en_route_dropoff", "delivered", "completed", "cancelled", "expired", "undelivered"}
Active == {"assigned", "confirmed", "en_route_pickup", "picked_up", "en_route_dropoff"}
Terminal == {"completed", "cancelled", "expired", "undelivered"}

Forward ==
  {<<"assigned", "confirmed">>, <<"confirmed", "en_route_pickup">>,
   <<"en_route_pickup", "picked_up">>, <<"picked_up", "en_route_dropoff">>}
CustomerCancellable == Active \cup {"open_for_offers"}
PostPickup == {"picked_up", "en_route_dropoff"}
Resendable == {"expired", "cancelled", "undelivered"}

\* Faulty variant of RiderCancellable: a parcel on the bike may be dropped.
RiderCancellableLate == {"assigned", "confirmed", "en_route_pickup", "picked_up"}
RiderCancellable == {"assigned", "confirmed", "en_route_pickup"}

OnJob(r) == \E o \in Orders : status[o] \in Active /\ rider[o] = r
Of(r, st) == {o \in Orders : rider[o] = r /\ status[o] = st}

(***************************************************************************)
(* The lineage of an order: the orders linked by rebroadcast_of_id. The    *)
(* code climbs from an order to its root, and takes the orders below that, *)
(* LINEAGE_MAX_DEPTH steps either way.                                     *)
(***************************************************************************)
\* The orders a climb from o is at after each step; it stays at a root.
Climb(o) ==
  LET up[n \in 0..LineageDepth] ==
        IF n = 0 THEN o
        ELSE IF parent[up[n - 1]] = NoOrder THEN up[n - 1] ELSE parent[up[n - 1]]
  IN  up

Root(o) == Climb(o)[LineageDepth]
Lineage(o) == {p \in Orders : \E n \in 0..LineageDepth : Climb(p)[n] = Root(o)}

Live(o) == status[o] \in Active \cup {"open_for_offers"}

\* Faulty variant of LockedRows: the source row alone.
SourceRow(o) == {o}

\* The rows resend holds FOR UPDATE: the lineage's root and the source.
LockedRows(o) == {o, Root(o)}

Locked == UNION {LockedRows(q.order) : q \in {p \in resends : p.stage = "locked"}}

\* An update of the row need not wait for a resend.
Writable(o) == o \notin Locked

Init ==
  /\ status = [o \in Orders |-> "none"]
  /\ parent = [o \in Orders |-> NoOrder]
  /\ rider = [o \in Orders |-> NoRider]
  /\ fare = [o \in Orders |-> NoFare]
  /\ rated = [o \in Orders |-> FALSE]
  /\ credit = [o \in Orders |-> NoCredit]
  /\ bill = [o \in Orders |-> NoBill]
  /\ trips = [r \in Riders |-> 0]
  /\ standing = [r \in Riders |-> Fresh]
  /\ suspended \in Suspensions
  /\ rate \in RatePcts
  /\ picks = {} /\ rates = {} /\ adjusts = {} /\ verdicts = {}
  /\ resends = {} /\ clears = {}

\* A status change that writes nothing else this module keeps.
SetStatus(o, to) ==
  /\ Writable(o)
  /\ status' = [status EXCEPT ![o] = to]
  /\ UNCHANGED <<parent, rider, fare, rated, credit, bill, riderRows, policy, calls>>

-----------------------------------------------------------------------------
(***************************************************************************)
(* The board and the road                                                  *)
(***************************************************************************)
Created == {o \in Orders : status[o] # "none" /\ parent[o] = NoOrder}

\* OrdersService.create
Create(o) ==
  /\ Cardinality(Created) < MaxTrips
  /\ status[o] = "none"
  /\ SetStatus(o, "open_for_offers")

\* MatchingService.expireOrder
Expire(o) == status[o] = "open_for_offers" /\ SetStatus(o, "expired")

\* onlineRefusalReason, the gate of setOnline and of a pick.
MayGoOnline(st) ==
  st.account = "active" /\ ((st.hold = "none" /\ ~st.cooling) \/ suspended)

\* MatchingService.selectOffer: the gates on the order and the rider are read
\* without a lock; the other gates (heartbeat, block, debt, cover) are
\* those of a rider a customer may pick.
PickRead(o, r, f) ==
  /\ Cardinality(picks) < MaxPicks
  /\ status[o] = "open_for_offers"
  /\ standing[r].online /\ MayGoOnline(standing[r])
  /\ picks' = picks \cup {[order |-> o, rider |-> r, fare |-> f]}
  /\ UNCHANGED <<orderRows, riderRows, policy, rates, adjusts, verdicts, resends, clears>>

\* The compare-and-swap on the order, under the one_active_ride index.
PickLands(q) == status[q.order] = "open_for_offers" /\ ~OnJob(q.rider)

Assign(q) ==
  /\ PickLands(q) /\ Writable(q.order)
  /\ status' = [status EXCEPT ![q.order] = "assigned"]
  /\ rider' = [rider EXCEPT ![q.order] = q.rider]
  /\ fare' = [fare EXCEPT ![q.order] = q.fare]
  /\ picks' = picks \ {q}
  /\ UNCHANGED <<parent, rated, credit, bill, riderRows, policy,
                 rates, adjusts, verdicts, resends, clears>>

PickRefused(q) ==
  /\ ~PickLands(q)
  /\ picks' = picks \ {q}
  /\ UNCHANGED <<orderRows, riderRows, policy, rates, adjusts, verdicts, resends, clears>>

Advance(o, to) == <<status[o], to>> \in Forward /\ SetStatus(o, to)

ConfirmDelivery(o) == status[o] = "en_route_dropoff" /\ SetStatus(o, "delivered")

\* markUndelivered: the penalty of the reason given, then the velocity guard,
\* whose counts include this order.
MarkUndelivered(o, penalty) ==
  LET r == rider[o]
      scored == ApplyDelta(standing[r], -penalty, suspended)
      flagged == FlagsVelocity(Cardinality(Of(r, "undelivered")) + 1,
                               Cardinality(Of(r, "completed")), suspended)
      after == IF flagged THEN [scored EXCEPT !.hold = "velocity"] ELSE scored
  IN  /\ status[o] \in PostPickup /\ Writable(o)
      /\ status' = [status EXCEPT ![o] = "undelivered"]
      /\ standing' = [standing EXCEPT ![r] = Demote(standing[r], after)]
      /\ UNCHANGED <<parent, rider, fare, rated, credit, bill, trips, policy, calls>>

CustomerCancel(o) == status[o] \in CustomerCancellable /\ SetStatus(o, "cancelled")

\* AdminOrdersService.cancelOrder: any status that is not terminal.
AdminCancel(o) == status[o] \notin Terminal \cup {"none"} /\ SetStatus(o, "cancelled")

\* What a rider's own cancel does to their standing: the penalty, and a strike
\* that at the limit starts a new cycle, a cooldown and an offline rider.
Bail(st) ==
  LET scored == ApplyDelta(st, -PrePickupCancel, suspended)
      limit == StrikeLimit <= st.strikes + 1
  IN  CASE limit /\ suspended -> [scored EXCEPT !.strikes = 0]
        [] limit /\ ~suspended ->
             [scored EXCEPT !.strikes = 0, !.cooling = TRUE, !.online = FALSE]
        [] OTHER -> Demote(st, [scored EXCEPT !.strikes = @ + 1])

\* cancel() by the rider: the job goes back to the board as a clone, in the
\* same transaction.
RiderCancel(o, clone) ==
  LET r == rider[o]
  IN  /\ status[o] \in RiderCancellable /\ Writable(o)
      /\ status[clone] = "none"
      /\ status' = [status EXCEPT ![o] = "cancelled", ![clone] = "open_for_offers"]
      /\ parent' = [parent EXCEPT ![clone] = o]
      /\ standing' = [standing EXCEPT ![r] = Bail(standing[r])]
      /\ UNCHANGED <<rider, fare, rated, credit, bill, trips, policy, calls>>

-----------------------------------------------------------------------------
\* The ratings, verdicts and fare corrections under way.
BillingCalls == Cardinality(rates) + Cardinality(adjusts) + Cardinality(verdicts)

(***************************************************************************)
(* Completion: a rating, the auto-close, or the console's verdict.         *)
(***************************************************************************)
\* Faulty variant of JobOrdinal: the count before this job.
JobOrdinalBefore(r) == trips[r]

\* The trips count chargeCommission reads, after this job's increment.
JobOrdinal(r) == trips[r] + 1

\* What every completing transaction writes, on the fare it charges.
Complete(o, charged) ==
  /\ Writable(o)
  /\ status' = [status EXCEPT ![o] = "completed"]
  /\ trips' = [trips EXCEPT ![rider[o]] = @ + 1]
  /\ bill' = [bill EXCEPT ![o] = Charge(JobOrdinal(rider[o]), charged, rate)]
  /\ UNCHANGED <<parent, rider, fare, policy>>

\* A delta of zero leaves the rider row as it is, its hold included.
Moved(st, delta) ==
  IF delta = 0 THEN st ELSE Demote(st, ApplyDelta(st, delta, suspended))

\* What a rating may do to the score: nothing if the customer or the pair
\* carries no weight.
RatingEffects == {-LowRating, 0, Recover}

RateRead(o) ==
  /\ Cardinality(rates) < MaxRates /\ BillingCalls < MaxBillingCalls
  /\ status[o] \in {"delivered", "completed"}
  /\ rates' = rates \cup {[order |-> o, late |-> status[o] = "completed", fare |-> fare[o]]}
  /\ UNCHANGED <<orderRows, riderRows, policy, picks, adjusts, verdicts, resends, clears>>

\* Faulty variant of ChargedFare: the fare read before the row was held.
ChargedFareAsRead(q) == q.fare

\* The agreed fare, read again once the compare-and-swap holds the row.
ChargedFare(q) == fare[q.order]

RateOnTime(q, effect) ==
  LET o == q.order
      r == rider[o]
  IN  /\ ~q.late /\ status[o] = "delivered"
      /\ Complete(o, ChargedFare(q))
      /\ rated' = [rated EXCEPT ![o] = TRUE]
      /\ standing' = [standing EXCEPT ![r] = Moved(standing[r], effect)]
      /\ rates' = rates \ {q}
      /\ UNCHANGED <<credit, picks, adjusts, verdicts, resends, clears>>

\* What a late rating leaves of the auto-close's credit.
CreditAfterRating(o) == NoCredit

\* A late rating takes the auto-close's credit back, once, and counts in its
\* place; without a recorded credit only a penalty counts.
LateDelta(o, effect) ==
  IF credit[o] # NoCredit THEN effect - credit[o] ELSE IF effect < 0 THEN effect ELSE 0

RateLate(q, effect) ==
  LET o == q.order
      r == rider[o]
  IN  /\ q.late /\ status[o] = "completed" /\ ~rated[o] /\ Writable(o)
      /\ rated' = [rated EXCEPT ![o] = TRUE]
      /\ credit' = [credit EXCEPT ![o] = CreditAfterRating(o)]
      /\ standing' = [standing EXCEPT ![r] = Moved(standing[r], LateDelta(o, effect))]
      /\ rates' = rates \ {q}
      /\ UNCHANGED <<status, parent, rider, fare, bill, trips, policy,
                     picks, adjusts, verdicts, resends, clears>>

\* The order was completed or rated meanwhile.
RateRefused(q) ==
  /\ IF q.late THEN rated[q.order] ELSE status[q.order] # "delivered"
  /\ rates' = rates \ {q}
  /\ UNCHANGED <<orderRows, riderRows, policy, picks, adjusts, verdicts, resends, clears>>

\* completeOrder, by the delayed job or the sweep: the clean completion's
\* credit is recorded as the score really moved.
AutoClose(o) ==
  LET r == rider[o]
      after == ApplyDelta(standing[r], Recover, suspended)
  IN  /\ status[o] = "delivered"
      /\ Complete(o, fare[o])
      /\ standing' = [standing EXCEPT ![r] = after]
      /\ credit' = [credit EXCEPT ![o] = after.score - standing[r].score]
      /\ UNCHANGED <<rated, calls>>

\* adjudicateDelivered: ops overturn a failed hand-off.
VerdictRead(o) ==
  /\ Cardinality(verdicts) < MaxVerdicts /\ BillingCalls < MaxBillingCalls
  /\ status[o] = "undelivered"
  /\ verdicts' = verdicts \cup {[order |-> o, fare |-> fare[o]]}
  /\ UNCHANGED <<orderRows, riderRows, policy, picks, rates, adjusts, resends, clears>>

VerdictCommit(q) ==
  LET r == rider[q.order]
  IN  /\ status[q.order] = "undelivered"
      /\ Complete(q.order, ChargedFare(q))
      /\ standing' = [standing EXCEPT ![r] = ApplyDelta(@, Recover, suspended)]
      /\ verdicts' = verdicts \ {q}
      /\ UNCHANGED <<rated, credit, picks, rates, adjusts, resends, clears>>

VerdictRefused(q) ==
  /\ status[q.order] # "undelivered"
  /\ verdicts' = verdicts \ {q}
  /\ UNCHANGED <<orderRows, riderRows, policy, picks, rates, adjusts, resends, clears>>

-----------------------------------------------------------------------------
(***************************************************************************)
(* adjustFare: ops correct an agreed fare, and the commission with it.     *)
(***************************************************************************)
AdjustRead(o, f) ==
  /\ Cardinality(adjusts) < MaxAdjusts /\ BillingCalls < MaxBillingCalls
  /\ fare[o] \notin {NoFare, f}
  /\ adjusts' = adjusts \cup {[order |-> o, from |-> fare[o], to |-> f, status |-> status[o]]}
  /\ UNCHANGED <<orderRows, riderRows, policy, picks, rates, verdicts, resends, clears>>

\* A completed order whose commission was charged is corrected.
Reconciles(q) == status[q.order] = "completed" /\ bill[q.order].kind = "ride_commission"

AdjustCommit(q) ==
  /\ fare[q.order] = q.from /\ Writable(q.order)
  /\ fare' = [fare EXCEPT ![q.order] = q.to]
  /\ bill' = IF Reconciles(q)
             THEN [bill EXCEPT ![q.order].amount = @ + Correction(q.from, q.to, bill[q.order].rate)]
             ELSE bill
  /\ adjusts' = adjusts \ {q}
  /\ UNCHANGED <<status, parent, rider, rated, credit, riderRows, policy,
                 picks, rates, verdicts, resends, clears>>

AdjustRefused(q) ==
  /\ fare[q.order] # q.from
  /\ adjusts' = adjusts \ {q}
  /\ UNCHANGED <<orderRows, riderRows, policy, picks, rates, verdicts, resends, clears>>

-----------------------------------------------------------------------------
(***************************************************************************)
(* resend: the customer sends a finished order again. It locks the root of *)
(* the lineage and the source, reads the whole lineage, and either clones  *)
(* the source or re-prices the live clone (the asked fare is the           *)
(* auction's).                                                             *)
(***************************************************************************)
ResendRead(o) ==
  /\ Cardinality(resends) < MaxResends
  /\ status[o] \in Resendable
  /\ resends' = resends \cup {[order |-> o, stage |-> "read", found |-> NoOrder]}
  /\ UNCHANGED <<orderRows, riderRows, policy, picks, rates, adjusts, verdicts, clears>>

InProgress(o) == \E p \in Lineage(o) : status[p] \in Active
OnBoard(o) == {p \in Lineage(o) : status[p] = "open_for_offers"}

ResendLock(q) ==
  /\ q.stage = "read"
  /\ LockedRows(q.order) \cap Locked = {}
  /\ ~InProgress(q.order)
  /\ \E found \in IF OnBoard(q.order) = {} THEN {NoOrder} ELSE OnBoard(q.order) :
       resends' = (resends \ {q}) \cup {[order |-> q.order, stage |-> "locked", found |-> found]}
  /\ UNCHANGED <<orderRows, riderRows, policy, picks, rates, adjusts, verdicts, clears>>

ResendClone(q, clone) ==
  /\ q.stage = "locked" /\ q.found = NoOrder
  /\ status[clone] = "none"
  /\ status' = [status EXCEPT ![clone] = "open_for_offers"]
  /\ parent' = [parent EXCEPT ![clone] = q.order]
  /\ resends' = resends \ {q}
  /\ UNCHANGED <<rider, fare, rated, credit, bill, riderRows, policy,
                 picks, rates, adjusts, verdicts, clears>>

\* The call ends without a clone: a rider has the trip, or there was a live
\* clone, which is re-priced if it is still on the board and refused if not.
ResendEnds(q) ==
  /\ \/ q.stage = "read" /\ LockedRows(q.order) \cap Locked = {} /\ InProgress(q.order)
     \/ q.stage = "locked" /\ q.found # NoOrder
  /\ resends' = resends \ {q}
  /\ UNCHANGED <<orderRows, riderRows, policy, picks, rates, adjusts, verdicts, clears>>

-----------------------------------------------------------------------------
(***************************************************************************)
(* The rider's standing outside the trips                                  *)
(***************************************************************************)
\* suspendRider and banRider: the compare-and-swap pins the one thing read.
StopAccount(r, to) ==
  /\ standing[r].account \notin {to, "banned"}
  /\ standing' = [standing EXCEPT ![r].account = to, ![r].online = FALSE]
  /\ UNCHANGED <<orderRows, trips, policy, calls>>

\* What a clear-hold or a lift read of the rider. Which hold it was is kept only
\* to state a property: the code reads whether there is one.
AsRead(r) ==
  [rider |-> r, account |-> standing[r].account, score |-> standing[r].score,
   hold |-> standing[r].hold]

\* clearHold, of an active rider; liftRider, of a suspended one.
ClearRead(r) ==
  /\ Cardinality(clears) < MaxClears
  /\ \/ standing[r].account = "active" /\ standing[r].hold # "none"
     \/ standing[r].account = "suspended"
  /\ clears' = clears \cup {AsRead(r)}
  /\ UNCHANGED <<orderRows, riderRows, policy, picks, rates, adjusts, verdicts, resends>>

SameHold(q) == (standing[q.rider].hold = "none") = (q.hold = "none")

\* Faulty variant of ClearLands: the account is not pinned.
ClearLandsBlind(q) == SameHold(q) /\ standing[q.rider].score = q.score

ClearLands(q) ==
  /\ standing[q.rider].account = q.account
  /\ SameHold(q)
  /\ standing[q.rider].score = q.score

ClearCommit(q) ==
  /\ ClearLands(q)
  /\ standing' = [standing EXCEPT ![q.rider].account = "active", ![q.rider].hold = "none",
                     ![q.rider].score = IF @ < ClearAt THEN ClearAt ELSE @]
  /\ clears' = clears \ {q}
  /\ UNCHANGED <<orderRows, trips, policy, picks, rates, adjusts, verdicts, resends>>

ClearRefused(q) ==
  /\ ~ClearLands(q)
  /\ clears' = clears \ {q}
  /\ UNCHANGED <<orderRows, riderRows, policy, picks, rates, adjusts, verdicts, resends>>

\* setOnline's compare-and-swap carries the gate.
GoOnline(r) ==
  /\ ~standing[r].online /\ MayGoOnline(standing[r])
  /\ standing' = [standing EXCEPT ![r].online = TRUE]
  /\ UNCHANGED <<orderRows, trips, policy, calls>>

GoOffline(r) ==
  /\ standing[r].online
  /\ standing' = [standing EXCEPT ![r].online = FALSE]
  /\ UNCHANGED <<orderRows, trips, policy, calls>>

\* cooldownUntil passes.
CooldownEnds(r) ==
  /\ standing[r].cooling
  /\ standing' = [standing EXCEPT ![r].cooling = FALSE]
  /\ UNCHANGED <<orderRows, trips, policy, calls>>

\* A deploy with other values of the two environment variables.
Redeploy(susp, pct) ==
  /\ policy # <<susp, pct>>
  /\ suspended' = susp /\ rate' = pct
  /\ UNCHANGED <<orderRows, riderRows, calls>>

Next ==
  \/ \E o \in Orders : Create(o)
  \/ \E o \in Orders : Expire(o)
  \/ \E o \in Orders, r \in Riders, f \in Fares : PickRead(o, r, f)
  \/ \E q \in picks : Assign(q)
  \/ \E q \in picks : PickRefused(q)
  \/ \E o \in Orders, to \in Active : Advance(o, to)
  \/ \E o \in Orders : ConfirmDelivery(o)
  \/ \E o \in Orders, p \in UndeliveredPenalties : MarkUndelivered(o, p)
  \/ \E o \in Orders : CustomerCancel(o)
  \/ \E o \in Orders : AdminCancel(o)
  \/ \E o, clone \in Orders : RiderCancel(o, clone)
  \/ \E o \in Orders : RateRead(o)
  \/ \E q \in rates, e \in RatingEffects : RateOnTime(q, e)
  \/ \E q \in rates, e \in RatingEffects : RateLate(q, e)
  \/ \E q \in rates : RateRefused(q)
  \/ \E o \in Orders : AutoClose(o)
  \/ \E o \in Orders : VerdictRead(o)
  \/ \E q \in verdicts : VerdictCommit(q)
  \/ \E q \in verdicts : VerdictRefused(q)
  \/ \E o \in Orders, f \in Fares : AdjustRead(o, f)
  \/ \E q \in adjusts : AdjustCommit(q)
  \/ \E q \in adjusts : AdjustRefused(q)
  \/ \E o \in Orders : ResendRead(o)
  \/ \E q \in resends : ResendLock(q)
  \/ \E q \in resends, clone \in Orders : ResendClone(q, clone)
  \/ \E q \in resends : ResendEnds(q)
  \/ \E r \in Riders, to \in AccountStops : StopAccount(r, to)
  \/ \E r \in Riders : ClearRead(r)
  \/ \E q \in clears : ClearCommit(q)
  \/ \E q \in clears : ClearRefused(q)
  \/ \E r \in Riders : GoOnline(r)
  \/ \E r \in Riders : GoOffline(r)
  \/ \E r \in Riders : CooldownEnds(r)
  \/ \E susp \in Suspensions, pct \in RatePcts : Redeploy(susp, pct)

Spec == Init /\ [][Next]_vars

-----------------------------------------------------------------------------
(***************************************************************************)
(* Properties                                                              *)
(***************************************************************************)
Bills == [kind : {"none", "free_job", "ride_commission"}, rate : Nat, amount : Nat]
Picks == [order : Orders, rider : Riders, fare : Fares]
Rates == [order : Orders, late : BOOLEAN, fare : Fares]
Adjusts == [order : Orders, from : Fares, to : Fares, status : Statuses]
Verdicts == [order : Orders, fare : Fares]
Resends == [order : Orders, stage : {"read", "locked"}, found : Orders \cup {NoOrder}]
Clears == [rider : Riders, account : {"active", "suspended"}, score : 0..MaxScore, hold : Holds]

\* Every row, call and setting is of the shape the schema and the handlers give
\* it; in particular no sequence of trips drives a score out of its range and no
\* correction takes a commission below zero.
TypeOK ==
  /\ status \in [Orders -> Statuses]
  /\ parent \in [Orders -> Orders \cup {NoOrder}]
  /\ rider \in [Orders -> Riders \cup {NoRider}]
  /\ fare \in [Orders -> Fares \cup {NoFare}]
  /\ rated \in [Orders -> BOOLEAN]
  /\ credit \in [Orders -> Nat \cup {NoCredit}]
  /\ bill \in [Orders -> Bills]
  /\ trips \in [Riders -> Nat]
  /\ standing \in [Riders -> Standings]
  /\ suspended \in BOOLEAN /\ rate \in 0..100
  /\ picks \subseteq Picks /\ rates \subseteq Rates /\ adjusts \subseteq Adjusts
  /\ verdicts \subseteq Verdicts /\ resends \subseteq Resends /\ clears \subseteq Clears

\* What was charged for a ride, corrections included, is to the cent what a
\* fresh charge on its present fare would be at the rate it was charged at,
\* however fare corrections race the rating, the auto-close or the verdict that
\* completes it (WD-005, WD-013, WD-014, WD-021).
BillMatchesFare ==
  \A o \in Orders :
    bill[o].kind = "ride_commission" =>
      status[o] = "completed" /\ bill[o].amount = CommissionOn(fare[o], bill[o].rate)

Billed(r, kind) == {o \in Orders : rider[o] = r /\ bill[o].kind = kind}

\* A rider pays nothing for the first FreeJobs completions and is given no
\* more than that, whichever of the three ways completes each job and whenever
\* the rate is switched on.
FreeJobsHonoured ==
  \A r \in Riders :
    /\ trips[r] = Cardinality(Of(r, "completed"))
    /\ Cardinality(Billed(r, "free_job")) <= FreeJobs
    /\ Cardinality(Billed(r, "ride_commission")) <=
         (IF trips[r] < FreeJobs THEN 0 ELSE trips[r] - FreeJobs)

\* A rating takes the place of the auto-close's credit: no order keeps a credit
\* once it is rated, and only a completed order has one.
RatingReplacesCredit ==
  \A o \in Orders : credit[o] # NoCredit => status[o] = "completed" /\ ~rated[o]

\* While penalties apply, a rider on hold or on cooldown, suspended or banned is
\* never online, whichever handler put them there, whatever trip they were on
\* and whichever clear, lift or toggle raced it.
HeldRidersOffline ==
  \A r \in Riders :
    standing[r].hold # "none" \/ standing[r].cooling \/ standing[r].account # "active"
      => ~standing[r].online

\* While penalties apply, a score under the threshold always has its hold.
LowScoreHeld ==
  \A r \in Riders : standing[r].score < HoldBelow => standing[r].hold # "none"

\* A ban is final: a lift or a clear-hold decided on an earlier read never undoes
\* it (DS13-04).
BanIsFinal ==
  [][\A r \in Riders : standing[r].account = "banned" => standing'[r].account = "banned"]_vars

\* A fraud hold never clears by itself: no completion, rating or penalty lifts
\* or downgrades it, only an explicit clear-hold or lift (RH-01).
VelocityHoldSticks ==
  [][\A r \in Riders :
       standing[r].hold = "velocity" /\ standing'[r].hold # "velocity" =>
         standing'[r].hold = "none" /\ \E q \in clears \ clears' : q.rider = r]_vars

\* One trip is one lineage, and a lineage has at most one order on the board or
\* on the road, although riders bail and the customer resends several of its
\* finished orders at once.
OneLivePerTrip ==
  \A o, p \in Orders : Live(o) /\ Live(p) /\ o # p => Root(o) # Root(p)

\* The console's own edges.
ConsoleEdges == {<<"delivered", "cancelled">>, <<"undelivered", "completed">>}

Table == INSTANCE OrderTable
           WITH status <- status, rider <- rider, ConsoleEdges <- ConsoleEdges

\* The services move an order only along the declared transition table and the
\* console's edges; a rider's bail and its re-broadcast are one step, and no
\* pick gives a rider a second ride.
ImplementsTable == Table!TableSpec

\* "an admin clear racing it must not overwrite that just-committed hold off a
\* stale read": a clear-hold lifts a velocity hold only if it had read it.
ClearKeepsFreshVelocityHold ==
  [][\A q \in clears \ clears' :
       standing[q.rider].hold = "velocity" /\ standing'[q.rider].hold = "none"
         => q.hold = "velocity"]_vars
=============================================================================
