----------------------------- MODULE FleetTable -----------------------------
(***************************************************************************)
(* What a "My bikers" booking may do: its status, its rider and whether it *)
(* is still tagged to the business's fleet, as the fleet rows of the       *)
(* declared transition table (orders/order-lifecycle.transitions.ts) and   *)
(* the parcel rows it joins have them. No service consumes the table;      *)
(* Fleet, which models the services, is shown to implement it.             *)
(*                                                                         *)
(* The three statuses before the pickup are one here, and so are the two   *)
(* after it. The console's edges, which the table leaves out, are given.   *)
(***************************************************************************)
CONSTANTS Bikers, NoBiker, ConsoleEdges

VARIABLES status, tag, rider

fleetTableVars == <<status, tag, rider>>

Unheld == rider = NoBiker

\* fleet_book
Booked ==
  /\ status = "none"
  /\ status' = "fleet_searching" /\ tag' = TRUE
  /\ UNCHANGED rider

\* fleet_accept, and select_offer of a booking that joined the public board.
Taken(r) ==
  /\ Unheld
  /\ \/ status = "fleet_searching" /\ tag
     \/ status = "open_for_offers" /\ ~tag
  /\ status' = "assigned" /\ rider' = r
  /\ UNCHANGED tag

\* fleet_convert: the same order.
Converted ==
  /\ status = "fleet_searching" /\ Unheld
  /\ status' = "open_for_offers" /\ tag' = FALSE
  /\ UNCHANGED rider

\* fleet_drop: back to the business's bikers, tag and all.
GivenBack ==
  /\ status = "assigned" /\ tag
  /\ status' = "fleet_searching" /\ rider' = NoBiker
  /\ UNCHANGED tag

\* fleet_expire, expire_offers, cancel_customer and cancel_rider.
Edges ==
  {<<"fleet_searching", "expired">>, <<"open_for_offers", "expired">>,
   <<"assigned", "picked_up">>, <<"picked_up", "delivered">>,
   <<"picked_up", "undelivered">>, <<"delivered", "completed">>}
  \cup {"fleet_searching", "open_for_offers", "assigned"} \X {"cancelled"}

Moved ==
  /\ <<status, status'>> \in Edges \cup ConsoleEdges
  /\ UNCHANGED <<tag, rider>>

FleetTableInit == status = "none" /\ tag = FALSE /\ rider = NoBiker

FleetTableNext ==
  \/ Booked \/ Converted \/ GivenBack \/ Moved
  \/ \E r \in Bikers : Taken(r)

FleetTableSpec == FleetTableInit /\ [][FleetTableNext]_fleetTableVars
=============================================================================
