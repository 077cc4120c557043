---------------------------- MODULE KitchenTable ----------------------------
(***************************************************************************)
(* What a food order may do: its status, the kitchen's phase and its       *)
(* rider, as the merchant rows of the declarative table and the table of   *)
(* merchant phases (orders/order-lifecycle.transitions.ts) declare them.   *)
(* No service consumes the tables; FoodDispatch, which models the          *)
(* services, is shown to implement them.                                   *)
(*                                                                         *)
(* The tables list no order placed straight into the kitchen and no cancel *)
(* of one being cooked; the services have both, and the two parameters     *)
(* StartPhases and CookingCancels say so. Nor do they list the console's.  *)
(***************************************************************************)
CONSTANTS Riders, NoRider,
  StartPhases,      \* the phases an order may be placed in
  CookingCancels    \* the statuses in which a cooking order may be called off

VARIABLES status, phase, rider

kitchenTableVars == <<status, phase, rider>>

Waiting == {"awaiting_accept", "awaiting_item_approval", "awaiting_payment"}

\* The phases a search may run in: the food is ready, or nearly.
Findable == {"preparing", "ready_for_pickup"}

Place ==
  /\ status = "none"
  /\ status' = "requested" /\ phase' \in StartPhases

\* accept_full, accept_partial and approve_items: where it goes to depends on
\* how the order is paid.
Settled ==
  /\ status = "requested"
  /\ \/ phase \in {"awaiting_accept", "awaiting_item_approval"}
        /\ phase' \in {"awaiting_payment", "preparing"}
     \/ phase = "awaiting_accept" /\ phase' = "awaiting_item_approval"
  /\ UNCHANGED status

ConfirmedPayment ==
  /\ status = "requested" /\ phase = "awaiting_payment"
  /\ phase' = "preparing"
  /\ UNCHANGED status

\* mark_ready: the phase clears once a rider holds the order.
MarkedReady ==
  /\ phase = "preparing"
  /\ \/ status \in {"requested", "open_for_offers"} /\ phase' = "ready_for_pickup"
     \/ status = "assigned" /\ phase' = "none"
  /\ UNCHANGED status

\* dispatch_offer, dispatch_expire and dispatch_decline.
Rung ==
  /\ phase \in Findable
  /\ <<status, status'>> \in {<<"requested", "open_for_offers">>, <<"open_for_offers", "requested">>}
  /\ UNCHANGED phase

\* confirm_pickup
PickedUp ==
  /\ status = "assigned" /\ phase \in {"none", "preparing"}
  /\ status' = "picked_up" /\ phase' = "none"

\* reject, expire_accept, decline_items, cancel_unpaid, release_unpaid,
\* expire_end_of_day, dispatch_cancel_no_rider.
CalledOff ==
  /\ \/ status = "requested" /\ phase \in Waiting \cup {"ready_for_pickup"}
     \/ status \in CookingCancels /\ phase = "preparing"
  /\ status' = "cancelled" /\ phase' = "none"

\* cancel_customer leaves the phase; the console's cancel does not.
CancelledLive ==
  /\ status \in {"open_for_offers", "assigned", "picked_up"}
  /\ status' = "cancelled" /\ phase' \in {phase, "none"}

\* dispatch_accept: of an order with no rider. One still cooking keeps its phase.
Accepted(r) ==
  /\ status = "open_for_offers" /\ rider = NoRider
  /\ status' = "assigned" /\ rider' = r
  /\ phase' = IF phase = "preparing" THEN "preparing" ELSE "none"

\* dispatch_drop: the same order is searched for again.
Dropped ==
  /\ status = "assigned" /\ rider # NoRider
  /\ status' = "requested" /\ rider' = NoRider
  /\ phase' = IF phase = "preparing" THEN "preparing" ELSE "ready_for_pickup"

KitchenTableInit == status = "none" /\ phase = "none" /\ rider = NoRider

KitchenTableNext ==
  \/ /\ \/ Place \/ Settled \/ ConfirmedPayment \/ MarkedReady
        \/ Rung \/ PickedUp \/ CalledOff \/ CancelledLive
     /\ UNCHANGED rider
  \/ \E r \in Riders : Accepted(r)
  \/ Dropped

KitchenTableSpec == KitchenTableInit /\ [][KitchenTableNext]_kitchenTableVars
=============================================================================
