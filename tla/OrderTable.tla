----------------------------- MODULE OrderTable ----------------------------
(***************************************************************************)
(* What an order's status may do: the parcel rows of the declarative       *)
(* transition table (orders/order-lifecycle.transitions.ts). The table is  *)
(* a verification artifact that no service consumes; Trip, which models    *)
(* the services, is shown to implement it.                                 *)
(*                                                                         *)
(* The table names no console action on an order's status, and the console *)
(* has some: ConsoleEdges are the edges added to it.                       *)
(***************************************************************************)
CONSTANTS Orders, Riders, NoRider, ConsoleEdges

VARIABLES status, rider

tableVars == <<status, rider>>

\* The statuses a rider's one active ride is in.
RideStatuses ==
  {"assigned", "confirmed", "en_route_pickup", "picked_up", "en_route_dropoff"}

PrePickup == {"assigned", "confirmed", "en_route_pickup"}

\* The rows that move one order: <<from, to>>.
Rows ==
  {<<"open_for_offers", "expired">>,
   <<"assigned", "confirmed">>, <<"confirmed", "en_route_pickup">>,
   <<"en_route_pickup", "picked_up">>, <<"picked_up", "en_route_dropoff">>,
   <<"en_route_dropoff", "delivered">>, <<"delivered", "completed">>,
   <<"picked_up", "undelivered">>, <<"en_route_dropoff", "undelivered">>}
  \cup (RideStatuses \cup {"open_for_offers"}) \X {"cancelled"}

TableInit ==
  /\ status = [o \in Orders |-> "none"]
  /\ rider = [o \in Orders |-> NoRider]

\* create, and the rebroadcast a resend asks for.
Born(o) ==
  /\ status[o] = "none"
  /\ status' = [status EXCEPT ![o] = "open_for_offers"]
  /\ UNCHANGED rider

\* select_offer: the rider is on no other ride.
Selected(o, r) ==
  /\ status[o] = "open_for_offers"
  /\ \A p \in Orders : ~(status[p] \in RideStatuses /\ rider[p] = r)
  /\ status' = [status EXCEPT ![o] = "assigned"]
  /\ rider' = [rider EXCEPT ![o] = r]

Moved(o, to) ==
  /\ <<status[o], to>> \in Rows \cup ConsoleEdges
  /\ status' = [status EXCEPT ![o] = to]
  /\ UNCHANGED rider

\* cancel_rider and its rebroadcast are one event: the job is never lost.
Bailed(o, clone) ==
  /\ status[o] \in PrePickup
  /\ status[clone] = "none"
  /\ status' = [status EXCEPT ![o] = "cancelled", ![clone] = "open_for_offers"]
  /\ UNCHANGED rider

TableNext ==
  \/ \E o \in Orders : Born(o)
  \/ \E o \in Orders, r \in Riders : Selected(o, r)
  \/ \E o \in Orders : \E to \in {edge[2] : edge \in Rows \cup ConsoleEdges} : Moved(o, to)
  \/ \E o, clone \in Orders : Bailed(o, clone)

TableSpec == TableInit /\ [][TableNext]_tableVars
=============================================================================
