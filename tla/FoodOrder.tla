----------------------------- MODULE FoodOrder -----------------------------
(***************************************************************************)
(* One restaurant or shop order up to the moment its food is collected:    *)
(* the kitchen's side (merchant/food-order.*, order-substitution.service). *)
(* FoodDispatch adds the search for a rider and composes the two.          *)
(*                                                                         *)
(* An order is one row, `order`. A handler that reads the row, works, and  *)
(* then writes with a compare-and-swap is a call in `calls` between its    *)
(* statements; it carries what it read. A handler that holds the row lock, *)
(* or whose one write pins all it read, is a single step.                  *)
(*                                                                         *)
(* The statuses in which a rider holds the order before pickup (assigned,  *)
(* confirmed, en_route_pickup) are one, "assigned". Every line costs 1,    *)
(* so the goods total is a count of lines; the delivery fee is the rung.   *)
(***************************************************************************)
EXTENDS Integers, FiniteSets

CONSTANTS
  Riders, NoRider,
  Shop, Clock, Customer,  \* the actors that are no rider; Clock is the sweeps'
  Till,         \* the other device of the shop, which takes the orders on
  Sweepers,     \* the dispatch sweeps that may run at once
  Scopes,       \* bounds: what one behaviour may contain, see ScopeType
  MaxAttempts   \* RESTAURANTS_DISPATCH.maxAttempts

\* The bounds of a behaviour: the riders in reach, the lines an order is placed
\* with, the swaps the shop may offer, the delivery ceilings (0: a fixed fee),
\* whether the customer may leave, how often the items may change, how many
\* rounds may open, and how many calls may be cut short.
ScopeType ==
  [riders : SUBSET Riders, lines : SUBSET Nat, swaps : SUBSET Nat,
   ceilings : SUBSET Nat, wallets : SUBSET BOOLEAN, autos : SUBSET BOOLEAN,
   leaves : BOOLEAN, changes : Nat, rounds : Nat, crashes : Nat]

\* Every line there may be.
AllLines == UNION {s.lines \cup s.swaps : s \in Scopes}

ASSUME FoodAssumption ==
  /\ NoRider \notin Riders
  /\ {Shop, Till, Clock, Customer} \cap (Riders \cup Sweepers) = {}
  /\ Cardinality({Shop, Till, Clock, Customer}) = 4
  /\ Riders \cap Sweepers = {}
  /\ Scopes \subseteq ScopeType /\ IsFiniteSet(AllLines)
  /\ MaxAttempts \in Nat \ {0}

VARIABLES
  scope,    \* the bounds of this behaviour; never changes
  order,    \* the orders row
  item,     \* merchant_order_items: a line is "absent", "off" or "on" the order
  sub,      \* the swaps of the open substitution round; {} = none is open
  calls,    \* the calls under way
  crashes   \* calls cut short so far

kitchenVars == <<order, item, sub>>

Phases == {"awaiting_accept", "awaiting_item_approval", "awaiting_payment",
           "preparing", "ready_for_pickup", "none"}
Statuses == {"none", "requested", "open_for_offers", "assigned", "picked_up", "cancelled"}

\* Nobody has the food, somebody may be asked to fetch it.
Searching == {"requested", "open_for_offers"}
EditableStatuses == Searching \cup {"assigned"}

OrderRows ==
  [status : Statuses, phase : Phases, wallet : BOOLEAN, auto : BOOLEAN,
   confirmed : BOOLEAN, paid : BOOLEAN, code : BOOLEAN,
   rider : Riders \cup {NoRider}, excluded : SUBSET Riders, round : Nat,
   attempt : Nat, hold : BOOLEAN, version : Nat, goods : Nat, rung : Nat,
   agreed : Nat, ceiling : Nat]

Blank ==
  [status |-> "none", phase |-> "none", wallet |-> FALSE, auto |-> FALSE,
   confirmed |-> FALSE, paid |-> FALSE, code |-> FALSE, rider |-> NoRider,
   excluded |-> {}, round |-> 0, attempt |-> 0, hold |-> FALSE,
   version |-> 0, goods |-> 0, rung |-> 1, agreed |-> 0, ceiling |-> 0]

On == {l \in AllLines : item[l] = "on"}
Known == {l \in AllLines : item[l] # "absent"}

KitchenInit ==
  /\ scope \in Scopes
  /\ order = Blank
  /\ item = [l \in AllLines |-> "absent"]
  /\ sub = {} /\ calls = {} /\ crashes = 0

-----------------------------------------------------------------------------
(* Calls. *)

\* Each actor has one call under way at most.
Free(who) == \A c \in calls : c.by # who

Start(c) == Free(c.by) /\ calls' = calls \cup {c}

\* Call c ends, or goes on with another statement.
Return(c) == calls' = calls \ {c}
GoOn(c, next) == calls' = (calls \ {c}) \cup {next}

Row(row) == order' = row

-----------------------------------------------------------------------------
(* Placement and the shop's answer. *)

\* Auto-accept: a cash order at a restaurant that has it on goes straight to
\* cooking. Orders paid by wallet were placed before it was refused.
PlaceOrder(wallet, auto, ceiling) ==
  /\ order.status = "none"
  /\ auto => ~wallet
  /\ Row([order EXCEPT !.status = "requested",
                       !.phase = IF auto THEN "preparing" ELSE "awaiting_accept",
                       !.wallet = wallet, !.auto = auto, !.ceiling = ceiling,
                       !.goods = Cardinality(scope.lines),
                       !.agreed = Cardinality(scope.lines) + order.rung])
  /\ item' = [l \in AllLines |-> IF l \in scope.lines THEN "on" ELSE "absent"]
  /\ UNCHANGED <<sub, calls>>

At(phase) == order.status = "requested" /\ order.phase = phase

\* Faulty variant of AfterItems: the kitchen starts whatever the payment.
AfterItemsCook == "preparing"

\* Where an order goes once its items are settled.
AfterItems == IF order.wallet THEN "awaiting_payment" ELSE "preparing"

\* acceptOrder with every line: the claim pins all it depends on.
AcceptOrder ==
  /\ At("awaiting_accept")
  /\ Row([order EXCEPT !.phase = AfterItems])
  /\ Start([by |-> Till, op |-> "available"])
  /\ UNCHANGED <<item, sub>>

\* Its second statement, in no transaction with the claim: every line the order
\* has by then is marked available. The total is left as it is.
MarkAvailable(c) ==
  /\ c.op = "available"
  /\ item' = [l \in AllLines |-> IF l \in Known THEN "on" ELSE "absent"]
  /\ Return(c)
  /\ UNCHANGED <<order, sub>>

\* acceptOrder without the lines in `missing`: it reads the row and the lines,
\* which change in no other way before the accept, and then claims the phase.
AcceptPartStart(missing) ==
  /\ At("awaiting_accept")
  /\ missing # {} /\ missing \subseteq On /\ missing # On
  /\ Start([by |-> Shop, op |-> "part", missing |-> missing, fee |-> order.rung])
  /\ UNCHANGED kitchenVars

AcceptPartCommit(c) ==
  /\ c.op = "part"
  /\ LET kept == Cardinality(On \ c.missing)
     IN IF At("awaiting_accept")
          THEN /\ Row([order EXCEPT !.phase = "awaiting_item_approval",
                                    !.goods = kept, !.agreed = kept + c.fee])
               /\ item' = [l \in AllLines |-> IF l \in c.missing THEN "off" ELSE item[l]]
          ELSE UNCHANGED <<order, item>>
  /\ Return(c)
  /\ UNCHANGED sub

\* The row a cancel leaves behind.
CancelledRow == [order EXCEPT !.status = "cancelled", !.phase = "none"]

\* rejectOrder and releaseUnpaid, and the sweeps that cancel an order nobody
\* answers: the accept window's cap, the item approval's minute, closing time.
CancelWaiting ==
  /\ \/ At("awaiting_accept")
     \/ At("awaiting_payment")
     \/ At("awaiting_item_approval") /\ sub = {}
  /\ Row(CancelledRow)
  /\ UNCHANGED <<item, sub, calls>>

\* sweepAutoAccepted gives up on a kitchen that never confirmed.
CancelUnconfirmed ==
  /\ order.status = "requested" /\ order.auto /\ ~order.confirmed
  /\ Row(CancelledRow)
  /\ UNCHANGED <<item, sub, calls>>

ConfirmKitchen ==
  /\ order.auto /\ ~order.confirmed /\ order.status \in EditableStatuses
  /\ Row([order EXCEPT !.confirmed = TRUE])
  /\ UNCHANGED <<item, sub, calls>>

ConfirmPayment ==
  /\ At("awaiting_payment")
  /\ Row([order EXCEPT !.phase = "preparing", !.paid = TRUE])
  /\ UNCHANGED <<item, sub, calls>>

-----------------------------------------------------------------------------
(* Substitutions: the row is locked for each of these. *)

\* The shop takes the lines `gone` off and offers `swaps` for some of them.
Propose(gone, swaps) ==
  /\ At("awaiting_accept") \/ At("preparing")
  /\ sub = {} /\ order.version < scope.changes
  /\ gone # {} /\ gone \subseteq On
  /\ swaps \subseteq scope.swaps \ Known /\ Cardinality(swaps) <= Cardinality(gone)
  /\ LET kept == Cardinality(On \ gone)
         changed == [order EXCEPT !.goods = kept, !.agreed = kept + order.rung,
                                  !.version = order.version + 1]
     IN Row(IF swaps = {} /\ kept = 0
              THEN [CancelledRow EXCEPT !.version = order.version + 1]
            ELSE IF order.phase = "awaiting_accept"
              THEN [changed EXCEPT !.phase = IF swaps = {} THEN AfterItems
                                             ELSE "awaiting_item_approval"]
            ELSE [changed EXCEPT !.confirmed = order.confirmed \/ order.auto])
  /\ item' = [l \in AllLines |-> IF l \in gone THEN "off" ELSE item[l]]
  /\ sub' = swaps
  /\ UNCHANGED calls

\* resolve: the customer's answers, the legacy approval that takes no swap, or
\* the timeout, which takes none either.
Resolve(accepted) ==
  /\ sub # {} /\ accepted \subseteq sub
  /\ order.status \in EditableStatuses
  /\ LET total == Cardinality(On \cup accepted)
     IN Row(IF total = 0 /\ order.status = "requested"
              THEN CancelledRow
              ELSE [order EXCEPT !.goods = total, !.agreed = total + order.rung,
                                 !.version = order.version + 1,
                                 !.phase = IF @ = "awaiting_item_approval"
                                           THEN AfterItems ELSE @])
  /\ item' = [l \in AllLines |-> IF l \in accepted THEN "on" ELSE item[l]]
  /\ sub' = {}
  /\ UNCHANGED calls

\* sweepExpiredRounds closes a round whose order has ended.
CloseEndedRound ==
  /\ sub # {} /\ order.status \in {"cancelled", "picked_up"}
  /\ sub' = {}
  /\ UNCHANGED <<order, item, calls>>

\* approveItems on an order shortened without swaps; a decline cancels it, and
\* then closes a round if there is one.
ApproveItems ==
  /\ At("awaiting_item_approval") /\ sub = {}
  /\ Row([order EXCEPT !.phase = AfterItems])
  /\ UNCHANGED <<item, sub, calls>>

DeclineItems ==
  /\ At("awaiting_item_approval")
  /\ Row(CancelledRow)
  /\ Start([by |-> Customer, op |-> "settle"])
  /\ UNCHANGED <<item, sub>>

\* closeRoundsForCancelledOrder
SettleRound(c) ==
  /\ c.op = "settle"
  /\ sub' = {}
  /\ Return(c)
  /\ UNCHANGED <<order, item>>

-----------------------------------------------------------------------------
(* editItems: reads the row and the lines, then a compare-and-swap. *)

EditStart(kept) ==
  /\ order.status \in EditableStatuses
  /\ order.status = "requested" => order.phase \in {"preparing", "ready_for_pickup"}
  /\ sub = {} /\ order.version < scope.changes
  /\ kept # {} /\ kept \subseteq Known
  /\ Start([by |-> Shop, op |-> "edit", status |-> order.status, phase |-> order.phase,
            version |-> order.version, fee |-> order.rung, known |-> Known, kept |-> kept])
  /\ UNCHANGED kitchenVars

\* Faulty variant of EditStale: without the version.
EditStaleRow(c) == <<order.status, order.phase>> # <<c.status, c.phase>>

\* The lines' version makes an edit read before another change a conflict.
EditStale(c) ==
  <<order.status, order.phase, order.version>> # <<c.status, c.phase, c.version>>

EditCommit(c) ==
  /\ c.op = "edit"
  /\ IF EditStale(c)
       THEN UNCHANGED <<order, item>>
       ELSE /\ Row([order EXCEPT !.goods = Cardinality(c.kept),
                                 !.agreed = Cardinality(c.kept) + c.fee,
                                 !.version = order.version + 1])
            /\ item' = [l \in AllLines |-> IF l \in c.kept THEN "on"
                                           ELSE IF l \in c.known THEN "off" ELSE item[l]]
  /\ Return(c)
  /\ UNCHANGED sub

-----------------------------------------------------------------------------
(* The food is ready. *)

\* markReady by the shop, sweepAutoAccepted by the clock.
ReadyStart(who) ==
  /\ order.phase = "preparing" /\ order.status \in EditableStatuses
  /\ sub = {}
  /\ who = Clock => order.auto /\ order.confirmed
  /\ Start([by |-> who, op |-> "ready", status |-> order.status])
  /\ UNCHANGED kitchenVars

\* readyPhaseFor
ReadyPhase == IF order.status = "assigned" THEN "none" ELSE "ready_for_pickup"

\* Faulty variant of ReadyCommit: the status that was read is not pinned.
ReadyCommitUnpinned(c) ==
  /\ c.op = "ready"
  /\ Row(IF order.phase = "preparing"
           THEN [order EXCEPT !.phase = IF c.status = "assigned" THEN "none" ELSE "ready_for_pickup",
                              !.code = TRUE, !.confirmed = order.confirmed \/ order.auto]
           ELSE order)
  /\ Return(c)
  /\ UNCHANGED <<item, sub>>

ReadyCommit(c) ==
  /\ c.op = "ready"
  /\ Row(IF order.status = c.status /\ order.phase = "preparing"
           THEN [order EXCEPT !.phase = ReadyPhase, !.code = TRUE,
                              !.confirmed = order.confirmed \/ order.auto]
           ELSE order)
  /\ Return(c)
  /\ UNCHANGED <<item, sub>>

-----------------------------------------------------------------------------
(* Cancels of an order the kitchen works on. *)

\* cancelPreparing, which then closes the offers of a live round.
CancelPreparing ==
  /\ order.status \in Searching /\ order.rider = NoRider
  /\ order.phase = "preparing" /\ ~order.wallet
  /\ Row([CancelledRow EXCEPT !.round = 0])
  /\ Start([by |-> Shop, op |-> "quiet", keep |-> NoRider])
  /\ UNCHANGED <<item, sub>>

\* noRiderHeld
NoRiderHeld == At("ready_for_pickup") /\ order.hold /\ order.rider = NoRider

UnconfirmedAuto == order.auto /\ ~order.confirmed /\ order.phase = "preparing"
RoundOpen == order.phase = "preparing" /\ sub # {}

\* cancelUnpaid: free while the kitchen has not started, while the customer is
\* asked about swaps, and in the no-rider hold.
LeaveStart ==
  /\ scope.leaves
  /\ \/ order.phase \in {"awaiting_accept", "awaiting_item_approval", "awaiting_payment"}
     \/ UnconfirmedAuto
     \/ RoundOpen
     \/ NoRiderHeld
  /\ Start([by |-> Customer, op |-> "leave", phase |-> order.phase,
            unconfirmed |-> UnconfirmedAuto /\ ~RoundOpen, held |-> NoRiderHeld])
  /\ UNCHANGED kitchenVars

LeaveMay(c) ==
  /\ At(c.phase)
  /\ c.unconfirmed => ~order.confirmed
  /\ c.held => order.hold /\ order.rider = NoRider

LeaveCommit(c) ==
  /\ c.op = "leave"
  /\ IF LeaveMay(c)
       THEN Row(CancelledRow) /\ GoOn(c, [by |-> Customer, op |-> "settle"])
       ELSE Row(order) /\ Return(c)
  /\ UNCHANGED <<item, sub>>

\* The customer's cancel of a live order (orders/order-lifecycle.service): it
\* leaves the kitchen's phase and the round on the row. The console's clears both.
CustomerCancel ==
  /\ order.status \in {"open_for_offers", "assigned", "picked_up"}
  /\ Row([order EXCEPT !.status = "cancelled"])
  /\ UNCHANGED <<item, sub, calls>>

AdminCancel ==
  /\ order.status \notin {"none", "cancelled"}
  /\ Row([CancelledRow EXCEPT !.round = 0])
  /\ UNCHANGED <<item, sub, calls>>

\* confirmPickup with the counter's code; confirmCollected without one, at an
\* auto-accept restaurant.
Collect ==
  /\ order.status = "assigned"
  /\ order.code \/ order.auto
  /\ Row([order EXCEPT !.status = "picked_up", !.phase = "none"])
  /\ UNCHANGED <<item, sub, calls>>

-----------------------------------------------------------------------------
KitchenNext ==
  \/ \E wallet \in scope.wallets, auto \in scope.autos, ceiling \in scope.ceilings :
       PlaceOrder(wallet, auto, ceiling)
  \/ AcceptOrder \/ CancelWaiting \/ CancelUnconfirmed \/ ConfirmKitchen \/ ConfirmPayment
  \/ \E gone \in SUBSET On, swaps \in SUBSET scope.swaps : Propose(gone, swaps)
  \/ \E accepted \in SUBSET sub : Resolve(accepted)
  \/ CloseEndedRound \/ ApproveItems \/ DeclineItems
  \/ \E missing \in SUBSET On : AcceptPartStart(missing)
  \/ \E kept \in SUBSET Known : EditStart(kept)
  \/ \E who \in {Shop, Clock} : ReadyStart(who)
  \/ CancelPreparing \/ LeaveStart \/ CustomerCancel \/ AdminCancel \/ Collect
  \/ \E c \in calls : \/ MarkAvailable(c) \/ AcceptPartCommit(c) \/ SettleRound(c)
                      \/ EditCommit(c) \/ ReadyCommit(c) \/ LeaveCommit(c)
=============================================================================
