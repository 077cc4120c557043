---------------------------- MODULE FoodDispatch ----------------------------
(***************************************************************************)
(* The search for a rider to fetch a food order                            *)
(* (merchant/food-dispatch.service): rounds that ring several riders at    *)
(* once, the first accept, declines, drops and the no-rider hold; composed *)
(* with the kitchen of FoodOrder, which shares the order row.              *)
(*                                                                         *)
(* The dispatcher has no transaction around a round: the tick reads, asks  *)
(* who is near, claims the order by compare-and-swap, and only then writes *)
(* the riders' rows; a close claims first and quiets the riders after.     *)
(* Every one of these statements is a step, and a crash may fall between.  *)
(*                                                                         *)
(* A round is known by its end (dispatchOfferExpiresAt). Ends are instants *)
(* that grow, so a round is a number and time is `lapsed`, the last round  *)
(* whose minute is over. When a search is due again (dispatchNextCheckAt)  *)
(* is left to chance.                                                      *)
(***************************************************************************)
EXTENDS FoodOrder

VARIABLES
  row,      \* food_dispatch_attempts: each rider's last answer and its round
  rounds,   \* rounds opened so far
  lapsed    \* rounds 1..lapsed have run out

dispatchVars == <<row, rounds, lapsed>>
vars == <<scope, order, item, sub, calls, crashes, row, rounds, lapsed>>

Outcomes == {"none", "pending", "accepted", "declined", "expired"}

Pending(r) == row[r].outcome = "pending"

\* The row of every rider in `who` turns to `outcome`.
Answer(who, outcome) ==
  row' = [r \in Riders |-> IF r \in who THEN [row[r] EXCEPT !.outcome = outcome] ELSE row[r]]

DispatchInit ==
  /\ row = [r \in Riders |-> [outcome |-> "none", round |-> 0]]
  /\ rounds = 0 /\ lapsed = 0

-----------------------------------------------------------------------------
(* A round is closed, its riders are told. *)

\* closeRound: a compare-and-swap on the round's end, then expirePending.
CloseRound(c) ==
  /\ c.op = "close"
  /\ IF order.status = "open_for_offers" /\ order.round = c.round
       THEN /\ Row([order EXCEPT !.status = "requested", !.round = 0])
            /\ GoOn(c, [by |-> c.by, op |-> "quiet", keep |-> NoRider])
       ELSE Row(order) /\ Return(c)
  /\ UNCHANGED <<item, sub, dispatchVars>>

\* expirePending, closeOpenOffers: every row still pending, whatever its round.
Quiet(c) ==
  /\ c.op = "quiet"
  /\ Answer({r \in Riders : Pending(r) /\ r # c.keep}, "expired")
  /\ Return(c)
  /\ UNCHANGED <<kitchenVars, rounds, lapsed>>

\* Faulty variant of ExpiredStart: only the rounds of food that is ready.
ExpiredStartReady(s) ==
  /\ order.phase = "ready_for_pickup"
  /\ order.status = "open_for_offers" /\ order.round \in 1..lapsed
  /\ Start([by |-> s, op |-> "close", round |-> order.round])
  /\ UNCHANGED <<kitchenVars, dispatchVars>>

\* sweepExpiredOffers
ExpiredStart(s) ==
  /\ order.status = "open_for_offers" /\ order.round \in 1..lapsed
  /\ Start([by |-> s, op |-> "close", round |-> order.round])
  /\ UNCHANGED <<kitchenVars, dispatchVars>>

\* Faulty variant of Orphans: only the rows of a cancelled order.
OrphansCancelled ==
  {r \in Riders : Pending(r) /\ row[r].round <= lapsed /\ order.status = "cancelled"}

\* sweepOrphanedOffers reads the pending rows of an order that has moved on,
\* past their end and not the taker's; and then expires them by their ids.
Orphans ==
  {r \in Riders : /\ Pending(r) /\ row[r].round <= lapsed
                  /\ order.status # "open_for_offers" /\ r # order.rider}

OrphansStart(s) ==
  /\ Orphans # {}
  /\ Start([by |-> s, op |-> "orphans", riders |-> Orphans])
  /\ UNCHANGED <<kitchenVars, dispatchVars>>

OrphansExpire(c) ==
  /\ c.op = "orphans"
  /\ Answer({r \in c.riders : Pending(r)}, "expired")
  /\ Return(c)
  /\ UNCHANGED <<kitchenVars, rounds, lapsed>>

-----------------------------------------------------------------------------
(* tick *)

\* earlyDispatchDue; that the ready time is near is left to chance.
CookingDue == order.phase = "preparing" /\ order.auto /\ order.confirmed /\ sub = {}

Due == /\ order.status = "requested" /\ ~order.hold
       /\ order.phase = "ready_for_pickup" \/ CookingDue

\* Whom a round may ring: nobody who dropped the job, nobody cooling down.
MayRing == {r \in scope.riders : r \notin order.excluded /\ row[r].outcome # "declined"}

\* An order found ready past the cap spent its rounds while it was cooking.
Attempt == IF order.phase = "ready_for_pickup" /\ order.attempt > MaxAttempts
             THEN 1 ELSE order.attempt + 1

\* ladderRound: each round after a search's first climbs a step to the ceiling.
Rung == IF order.ceiling = 0 \/ Attempt <= 1 \/ order.rung >= order.ceiling
          THEN order.rung ELSE order.rung + 1

\* The tick reads, and has its list of riders. Bounds: no round past
\* scope.rounds has anybody in reach; an order parked past the cap while it is
\* cooking waits until it is ready.
TickStart(s, riders) ==
  /\ Due
  /\ order.phase = "preparing" => order.attempt <= MaxAttempts
  /\ riders \subseteq MayRing
  /\ riders # {} => rounds < scope.rounds /\ Attempt <= MaxAttempts
  /\ Start([by |-> s, op |-> "tick", phase |-> order.phase, read |-> order.attempt,
            attempt |-> Attempt, rung |-> Rung, goods |-> order.goods, riders |-> riders])
  /\ UNCHANGED <<kitchenVars, dispatchVars>>

\* The claims of a tick pin what it read, but for the goods it prices with.
Unclaimed(c) == order.status = "requested" /\ order.attempt = c.read /\ ~order.hold

TickMay(c) ==
  /\ Unclaimed(c)
  /\ order.phase = c.phase
  /\ c.phase = "preparing" => sub = {}

\* Faulty variant of TickHold: food that is still cooking is held too.
TickHoldCooking(c) ==
  /\ c.op = "tick" /\ c.attempt > MaxAttempts
  /\ Row(IF Unclaimed(c) THEN [order EXCEPT !.hold = TRUE] ELSE order)
  /\ Return(c)
  /\ UNCHANGED <<item, sub, dispatchVars>>

\* The cap: a ready order is held for the shop to decide.
TickHold(c) ==
  /\ c.op = "tick" /\ c.attempt > MaxAttempts /\ c.phase # "preparing"
  /\ Row(IF Unclaimed(c) THEN [order EXCEPT !.hold = TRUE] ELSE order)
  /\ Return(c)
  /\ UNCHANGED <<item, sub, dispatchVars>>

\* The cap while the order is cooking: only the count moves.
TickPark(c) ==
  /\ c.op = "tick" /\ c.attempt > MaxAttempts /\ c.phase = "preparing"
  /\ Row(IF Unclaimed(c) /\ order.phase = "preparing"
           THEN [order EXCEPT !.attempt = c.attempt] ELSE order)
  /\ Return(c)
  /\ UNCHANGED <<item, sub, dispatchVars>>

\* What a round's claim writes of the price: nothing without a ceiling.
Priced(c) ==
  IF order.ceiling = 0 THEN order
  ELSE [order EXCEPT !.rung = c.rung, !.agreed = c.goods + c.rung]

\* Faulty variant of TickNobody: a round that finds nobody does not count.
TickNobodyUncounted(c) ==
  /\ c.op = "tick" /\ c.attempt <= MaxAttempts /\ c.riders = {}
  /\ Row(IF TickMay(c) THEN Priced(c) ELSE order)
  /\ Return(c)
  /\ UNCHANGED <<item, sub, dispatchVars>>

\* Nobody in reach: park for the next poll, at the round's price.
TickNobody(c) ==
  /\ c.op = "tick" /\ c.attempt <= MaxAttempts /\ c.riders = {}
  /\ Row(IF TickMay(c) THEN [Priced(c) EXCEPT !.attempt = c.attempt] ELSE order)
  /\ Return(c)
  /\ UNCHANGED <<item, sub, dispatchVars>>

TickClaim(c) ==
  /\ c.op = "tick" /\ c.attempt <= MaxAttempts /\ c.riders # {}
  /\ IF TickMay(c)
       THEN /\ rounds' = rounds + 1
            /\ Row([Priced(c) EXCEPT !.attempt = c.attempt, !.round = rounds + 1,
                                     !.status = "open_for_offers"])
            /\ GoOn(c, [by |-> c.by, op |-> "ring", round |-> rounds + 1, riders |-> c.riders])
       ELSE Row(order) /\ Return(c) /\ UNCHANGED rounds
  /\ UNCHANGED <<item, sub, row, lapsed>>

\* The riders' rows, in one transaction.
Ring(c) ==
  /\ c.op = "ring"
  /\ row' = [r \in Riders |-> IF r \in c.riders
                                THEN [outcome |-> "pending", round |-> c.round] ELSE row[r]]
  /\ GoOn(c, [by |-> c.by, op |-> "live", round |-> c.round])
  /\ UNCHANGED <<kitchenVars, rounds, lapsed>>

\* Without its rows nobody could accept: the round is closed at once.
RingFails(c) ==
  /\ c.op = "ring" /\ crashes < scope.crashes
  /\ crashes' = crashes + 1
  /\ GoOn(c, [by |-> c.by, op |-> "close", round |-> c.round])
  /\ UNCHANGED <<scope, kitchenVars, dispatchVars>>

\* stillLive: the round may have ended before its rows were there.
RingLive(c) ==
  /\ c.op = "live"
  /\ Answer(IF order.status = "open_for_offers" /\ order.round = c.round THEN {}
            ELSE {r \in Riders : Pending(r) /\ row[r].round = c.round}, "expired")
  /\ Return(c)
  /\ UNCHANGED <<kitchenVars, rounds, lapsed>>

-----------------------------------------------------------------------------
(* Riders. *)

\* liveOffer
LiveOffer(r) == order.status = "open_for_offers" /\ Pending(r) /\ row[r].round > lapsed

\* acceptDispatch: the gates, which may refuse anyone, end the call.
AcceptStart(r) ==
  /\ LiveOffer(r)
  /\ Start([by |-> r, op |-> "accept", round |-> order.round, cooking |-> order.phase = "preparing"])
  /\ UNCHANGED <<kitchenVars, dispatchVars>>

AcceptMay(c) == order.status = "open_for_offers" /\ order.round = c.round

\* Faulty variant of AcceptClaim: the phase is always cleared.
AcceptClaimHandsOff(c) ==
  /\ c.op = "accept"
  /\ IF AcceptMay(c)
       THEN /\ Row([order EXCEPT !.status = "assigned", !.rider = c.by, !.round = 0, !.phase = "none"])
            /\ GoOn(c, [by |-> c.by, op |-> "accepted"])
       ELSE Row(order) /\ Return(c)
  /\ UNCHANGED <<item, sub, dispatchVars>>

\* The claim. A cooking order keeps its phase, unless the kitchen has marked it
\* ready since the read.
AcceptClaim(c) ==
  /\ c.op = "accept"
  /\ IF AcceptMay(c)
       THEN /\ Row([order EXCEPT !.status = "assigned", !.rider = c.by, !.round = 0,
                                 !.phase = IF c.cooking /\ @ = "preparing" THEN @ ELSE "none"])
            /\ GoOn(c, [by |-> c.by, op |-> "accepted"])
       ELSE Row(order) /\ Return(c)
  /\ UNCHANGED <<item, sub, dispatchVars>>

AcceptMark(c) ==
  /\ c.op = "accepted"
  /\ Answer({r \in {c.by} : Pending(r)}, "accepted")
  /\ GoOn(c, [by |-> c.by, op |-> "quiet", keep |-> c.by])
  /\ UNCHANGED <<kitchenVars, rounds, lapsed>>

\* declineDispatch: the row, then the count of those still deciding, then the
\* close of the round the call has read.
DeclineStart(r) ==
  /\ LiveOffer(r)
  /\ Start([by |-> r, op |-> "decline", round |-> order.round])
  /\ UNCHANGED <<kitchenVars, dispatchVars>>

DeclineMark(c) ==
  /\ c.op = "decline"
  /\ Answer({r \in {c.by} : Pending(r)}, "declined")
  /\ IF Pending(c.by) THEN GoOn(c, [by |-> c.by, op |-> "count", round |-> c.round])
                      ELSE Return(c)
  /\ UNCHANGED <<kitchenVars, rounds, lapsed>>

DeclineCount(c) ==
  /\ c.op = "count"
  /\ IF \E r \in Riders : Pending(r) /\ row[r].round > lapsed
       THEN Return(c)
       ELSE GoOn(c, [by |-> c.by, op |-> "close", round |-> c.round])
  /\ UNCHANGED <<kitchenVars, dispatchVars>>

\* Faulty variant of Drop: the rider stays on the row.
DropKeepsRider(r) ==
  /\ order.status = "assigned" /\ order.rider = r
  /\ Row([order EXCEPT !.status = "requested",
                       !.phase = IF @ = "preparing" THEN @ ELSE "ready_for_pickup",
                       !.excluded = @ \cup {r}, !.attempt = 0, !.hold = FALSE])
  /\ UNCHANGED <<item, sub, calls, dispatchVars>>

\* dropDispatch: the write pins the rider, so the excluded list it read stands.
Drop(r) ==
  /\ order.status = "assigned" /\ order.rider = r
  /\ Row([order EXCEPT !.status = "requested", !.rider = NoRider,
                       !.phase = IF @ = "preparing" THEN @ ELSE "ready_for_pickup",
                       !.excluded = @ \cup {r}, !.attempt = 0, !.hold = FALSE])
  /\ UNCHANGED <<item, sub, calls, dispatchVars>>

-----------------------------------------------------------------------------
(* The shop and the customer decide in the no-rider hold. *)

Held == At("ready_for_pickup") /\ order.hold

\* Those who passed may be asked again.
Reask == Answer({r \in Riders : row[r].outcome = "declined"}, "expired")

ResumeSearch ==
  /\ Held
  /\ Row([order EXCEPT !.hold = FALSE, !.attempt = 0])
  /\ Reask
  /\ UNCHANGED <<item, sub, calls, rounds, lapsed>>

CancelFromHold ==
  /\ Held
  /\ Row(CancelledRow)
  /\ UNCHANGED <<item, sub, calls, dispatchVars>>

\* raiseCeiling: the write pins the status and the ceiling.
RaiseStart(ceiling) ==
  /\ order.ceiling \in 1..(ceiling - 1)
  /\ order.rider = NoRider /\ order.status \in Searching
  /\ Start([by |-> Customer, op |-> "raise", status |-> order.status, seen |-> order.ceiling,
            ceiling |-> ceiling, goods |-> order.goods, held |-> order.hold])
  /\ UNCHANGED <<kitchenVars, dispatchVars>>

RaiseMay(c) ==
  /\ order.status = c.status /\ order.rider = NoRider /\ order.ceiling = c.seen

\* With no round live the new price is offered at once, and a held order
\* searches again.
RaiseCommit(c) ==
  /\ c.op = "raise"
  /\ LET idle == c.status = "requested"
         raised == [order EXCEPT !.ceiling = c.ceiling]
         priced == [raised EXCEPT !.rung = c.ceiling, !.agreed = c.goods + c.ceiling]
         resumed == [priced EXCEPT !.hold = FALSE, !.attempt = 0]
     IN Row(IF ~RaiseMay(c) THEN order
            ELSE IF ~idle THEN raised
            ELSE IF c.held THEN resumed
            ELSE priced)
  /\ IF RaiseMay(c) /\ c.status = "requested" /\ c.held THEN Reask ELSE UNCHANGED row
  /\ Return(c)
  /\ UNCHANGED <<item, sub, rounds, lapsed>>

-----------------------------------------------------------------------------
(* Time and failure. *)

\* The live round's minute is over.
Lapse ==
  /\ lapsed < rounds
  /\ lapsed' = rounds
  /\ UNCHANGED <<kitchenVars, calls, row, rounds>>

\* A rider's declineCooldownMs is over: no reader tells such a row from one
\* that has expired.
CooldownEnds(r) ==
  /\ row[r].outcome = "declined"
  /\ Answer({r}, "expired")
  /\ UNCHANGED <<kitchenVars, calls, rounds, lapsed>>

\* A call is cut short: the process stops or the database fails.
Crash(c) ==
  /\ crashes < scope.crashes
  /\ crashes' = crashes + 1
  /\ Return(c)
  /\ UNCHANGED <<scope, kitchenVars, dispatchVars>>

-----------------------------------------------------------------------------
CallStep(c) ==
  \/ CloseRound(c) \/ Quiet(c) \/ OrphansExpire(c)
  \/ TickHold(c) \/ TickPark(c) \/ TickNobody(c) \/ TickClaim(c) \/ Ring(c) \/ RingLive(c)
  \/ AcceptClaim(c) \/ AcceptMark(c) \/ DeclineMark(c) \/ DeclineCount(c)
  \/ RaiseCommit(c)

DispatchNext ==
  \/ \E c \in calls : CallStep(c)
  \/ \E s \in Sweepers : \/ ExpiredStart(s) \/ OrphansStart(s)
                         \/ \E riders \in SUBSET Riders : TickStart(s, riders)
  \/ \E r \in Riders : AcceptStart(r) \/ DeclineStart(r) \/ Drop(r) \/ CooldownEnds(r)
  \/ ResumeSearch \/ CancelFromHold \/ Lapse
  \/ \E ceiling \in scope.ceilings : RaiseStart(ceiling)

Faults == \E c \in calls : RingFails(c) \/ Crash(c)

Init == KitchenInit /\ DispatchInit

Next ==
  \/ KitchenNext /\ UNCHANGED <<scope, crashes, dispatchVars>>
  \/ DispatchNext /\ UNCHANGED <<scope, crashes>>
  \/ Faults

Spec == Init /\ [][Next]_vars

\* Every pass of a dispatcher runs its three sweeps in turn, an error in one
\* does not keep it from the next, and a statement it has begun returns.
SweepSteps(s) == \E c \in calls : c.by = s /\ CallStep(c) /\ UNCHANGED <<scope, crashes>>

Fairness ==
  /\ WF_vars(Lapse /\ UNCHANGED <<scope, crashes>>)
  /\ \A s \in Sweepers :
       /\ WF_vars(SweepSteps(s))
       /\ SF_vars(ExpiredStart(s) /\ UNCHANGED <<scope, crashes>>)
       /\ SF_vars(OrphansStart(s) /\ UNCHANGED <<scope, crashes>>)
       /\ SF_vars(\E riders \in SUBSET Riders : TickStart(s, riders) /\ UNCHANGED <<scope, crashes>>)

FairSpec == Spec /\ Fairness

-----------------------------------------------------------------------------
(* Properties. *)

\* The rows hold values of their columns, and each call its statement's.
TypeOK ==
  /\ scope \in Scopes
  /\ order \in OrderRows
  /\ order.rider # NoRider => order.status \in {"assigned", "picked_up", "cancelled"}
  /\ order.status = "assigned" => order.rider # NoRider
  /\ item \in [AllLines -> {"absent", "off", "on"}]
  /\ sub \subseteq AllLines
  /\ row \in [Riders -> [outcome : Outcomes, round : Nat]]
  /\ rounds \in Nat /\ lapsed \in Nat /\ crashes \in Nat
  /\ \A c \in calls : c.by \in Riders \cup Sweepers \cup {Shop, Till, Clock, Customer}

\* Food a rider may come for has a code at the counter, wherever the kitchen's
\* "ready" met the rider's accept (food-dispatch.service.ts acceptDispatch,
\* food-order.lifecycle.ts markReady).
CollectableHasCode ==
  \/ At("ready_for_pickup")
  \/ order.status \in {"open_for_offers", "assigned"} /\ order.phase # "preparing"
  => order.code

\* Nobody is sent to a kitchen that never answered an auto-accepted order
\* (food-dispatch.service.ts earlyDispatchDue, food-order.lifecycle.ts markReady).
UnconfirmedNeverRung ==
  order.auto /\ order.status \in {"open_for_offers", "assigned", "picked_up"} => order.confirmed

\* A wallet order is cooked, and a rider sent for it, only once the venue has
\* seen its payment, whatever way the items were settled.
PaidBeforeCooking ==
  /\ order.wallet
  /\ \/ order.status \in {"open_for_offers", "assigned", "picked_up"}
     \/ order.status = "requested" /\ order.phase \in {"preparing", "ready_for_pickup"}
  => order.paid

\* The goods total is the total of the lines on the order: a receipt's lines add
\* up to it (order-flow-v2.ts, food-order/helpers.ts).
GoodsMatchItems ==
  order.status \in EditableStatuses => order.goods = Cardinality(On)

FollowsLines ==
  \/ GoodsMatchItems'
  \/ ~GoodsMatchItems /\ UNCHANGED <<order.goods, item>>
  \/ order.version # 0 /\ \E c \in calls : MarkAvailable(c)

\* Whatever changes the lines or the total of an order, the edits of the shop
\* that have waited, its swaps and the customer's answers, leaves the total that
\* of the lines, and so makes up for one that was not. Only acceptOrder's late
\* statement may part the two, and only when a change has come in between.
GoodsFollowLines == [][FollowsLines]_vars

\* The no-rider hold is about food that is ready and nobody's.
HeldFoodIsReady ==
  order.hold /\ order.status # "cancelled" =>
    order.status = "requested" /\ order.phase = "ready_for_pickup" /\ order.rider = NoRider

\* A rider who has the job keeps it until he drops it himself.
NeverReassigned ==
  [][order.rider # NoRider =>
       \/ order'.rider = order.rider
       \/ order'.status = "requested" /\ order.rider \in order'.excluded]_vars

\* The tables do not list an auto-accepted order's start at the kitchen, nor the
\* cancels of an order being cooked, which a live round does not prevent.
Kitchen == INSTANCE KitchenTable
             WITH status <- order.status, phase <- order.phase, rider <- order.rider,
                  StartPhases <- {"awaiting_accept", "preparing"}, CookingCancels <- Searching

\* A food order moves as the declared tables say, with those rows: it is
\* rung only when found or cooking, and has at most one rider at a time.
ImplementsKitchenTable == Kitchen!KitchenTableSpec

\* Every round ends: accepted, declined by all, timed out or called off.
RoundEnds == order.status = "open_for_offers" ~> order.status # "open_for_offers"

\* A rider's phone does not ring for ever, even when the call that should have
\* quieted it is cut short.
EveryRingEnds == \A r \in Riders : Pending(r) ~> ~Pending(r) \/ order.rider = r

\* Food that is ready finds a rider, or the shop is asked what to do.
Seeking == At("ready_for_pickup") /\ ~order.hold
SearchSettles == Seeking ~> ~Seeking
=============================================================================
