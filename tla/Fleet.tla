-------------------------------- MODULE Fleet --------------------------------
(***************************************************************************)
(* A "My bikers" booking and the business's own bikers: the rounds that    *)
(* ring them, who takes the job, what the business and the console may do  *)
(* meanwhile, who belongs to the fleet, and the ride's bill.               *)
(*                                                                         *)
(* One booking and one owner. A search runs in ticks: the sweep has one at *)
(* a time and a booking, a retry or the last pass of a round kicks another *)
(* one off. A tick reads the booking, closes the offers of the round that  *)
(* ended, looks for bikers and writes under a compare-and-swap; a biker's  *)
(* answer reads and then writes; a console sweep lists and then cancels.   *)
(* Any of them may die with its process between two steps.                 *)
(*                                                                         *)
(* A moment is a timestamp of which only two things matter: whether it is  *)
(* the one that was read, and whether it has passed.                       *)
(*                                                                         *)
(* Not here: the public board (a converted booking is picked or expires),  *)
(* the app orders that own bikers carry, a biker's other jobs, standing    *)
(* and debts (they are what makes a biker free, or an accept refused).     *)
(***************************************************************************)
EXTENDS Integers, FiniteSets

CONSTANTS
  Bikers,
  NoBiker,     \* order.riderId IS NULL
  Sweep,       \* the ticks of the sweep
  Kicks,       \* and the ones kicked off
  Moments,     \* the timestamps in use at one time
  Scopes       \* the bounds of a behaviour, one of these

Tickers == {Sweep} \cup Kicks

ScopeType ==
  [bikers : SUBSET Bikers,   \* the fleet to begin with
   moves : SUBSET {"links", "shifts"},   \* whether bikers join and leave, come and go
   rounds : Nat \ {0},       \* FLEET_DISPATCH.rounds
   kicks : Nat,              \* kicks waiting at once
   business : SUBSET {"retry", "convert", "cancel"},   \* what the business may do
   console : BOOLEAN,        \* whether the console pauses, disables or cancels
   faults : Nat]             \* calls that stopped processes lose

ASSUME BikerAssumption == NoBiker \notin Bikers
ASSUME FleetAssumption ==
  /\ Moments \subseteq Nat \ {0}
  /\ Scopes \subseteq ScopeType

VARIABLES
  status,     \* orders.status, the trip in three: assigned, picked_up, delivered
  tag,        \* orders.fleet_merchant_id IS NOT NULL
  rider,      \* orders.rider_id
  collected,  \* orders.collected_at IS NOT NULL
  bill,       \* the order's charges in merchant_fleet_ledger
  hold,       \* orders.no_rider_hold_at: none, fresh, or older than holdExpireMs
  attempt,    \* orders.dispatch_attempt
  until,      \* orders.dispatch_offer_expires_at: 0 = NULL, m = the moment m, -m once it passed
  check,      \* orders.dispatch_next_check_at: 0 = NULL or passed
  excluded,   \* orders.dispatch_excluded_rider_ids
  rows,       \* food_dispatch_attempts of the booking, a row for each biker
  own,        \* the bikers with riders.fleet_owner_profile_id set
  free,       \* the bikers online, in standing, on no other job, owing nothing elsewhere
  fleet,      \* owner_fleets: on, paused or off (not enabled)
  booking,    \* a createFleet is past its gates
  kicks,      \* kicks not yet begun
  tick,       \* the tick of each ticker
  answer,     \* each biker's accept or decline under way
  closers,    \* the closeOffers still to run after a commit, by the winner they spare
  cancels,    \* what pause or disable still has to do: "list", "cancel" or "none"
  dissolving, \* the bikers dissolveDisabledFleets read
  faults,     \* calls lost so far
  scope       \* the bounds of this behaviour; never changes

rideVars == <<status, tag, rider, collected, bill>>
searchVars == <<hold, attempt, until, check, excluded>>
fleetVars == <<own, free, fleet>>
tickVars == <<kicks, tick>>
callVars == <<booking, answer, closers, cancels, dissolving>>
bounds == <<scope, faults>>
vars == <<rideVars, searchVars, rows, fleetVars, tickVars, callVars, bounds>>

Statuses == {"none", "fleet_searching", "open_for_offers", "assigned", "picked_up",
             "delivered", "completed", "undelivered", "cancelled", "expired"}
Ended == {"completed", "undelivered", "cancelled", "expired"}
Riding == {"assigned", "picked_up"}

Searching == status = "fleet_searching" /\ rider = NoBiker
Carries(r) == status \in Riding /\ rider = r

-----------------------------------------------------------------------------
(***************************************************************************)
(* Moments                                                                 *)
(***************************************************************************)
Moment(u) == IF u < 0 THEN -u ELSE u

InUse ==
  {Moment(until), check} \cup {rows[r].until : r \in Bikers}
    \cup {answer[r].until : r \in Bikers}

\* The moment a call is about to write.
Fresh(m) == m \notin InUse /\ \A n \in Moments \ InUse : m <= n

\* The moment m passes.
Passes(m) ==
  /\ m \in {until, check} \cup {rows[r].until : r \in Bikers}
  /\ until' = IF until = m THEN -m ELSE until
  /\ check' = IF check = m THEN 0 ELSE check
  /\ rows' = [r \in Bikers |-> IF rows[r].until = m THEN [rows[r] EXCEPT !.until = 0] ELSE rows[r]]
  /\ UNCHANGED <<rideVars, hold, attempt, excluded, fleetVars, tickVars, callVars, bounds>>

-----------------------------------------------------------------------------
NoRow == [outcome |-> "none", until |-> 0]
Idle == [stage |-> "idle", attempt |-> 0, excluded |-> {}, rung |-> {}]
NoAnswer == [kind |-> "none", until |-> 0]

Init ==
  /\ scope \in Scopes
  /\ status = "none" /\ tag = FALSE /\ rider = NoBiker /\ collected = FALSE /\ bill = 0
  /\ hold = "none" /\ attempt = 0 /\ until = 0 /\ check = 0 /\ excluded = {}
  /\ rows = [r \in Bikers |-> NoRow]
  /\ own = scope.bikers /\ free = scope.bikers /\ fleet = "on"
  /\ booking = FALSE /\ kicks = 0 /\ tick = [w \in Tickers |-> Idle]
  /\ answer = [r \in Bikers |-> NoAnswer]
  /\ closers = {} /\ cancels = "none" /\ dissolving = {} /\ faults = 0

\* A kick is best effort: past the bound it is left to the sweep.
Kicked == IF kicks < scope.kicks THEN kicks + 1 ELSE kicks

\* closeOffers: every pending offer of the booking but the spared biker's.
Closed(spared) ==
  [r \in Bikers |-> IF rows[r].outcome = "pending" /\ r # spared
                    THEN [rows[r] EXCEPT !.outcome = "expired"] ELSE rows[r]]

\* The dispatch columns of a search that starts over, or is over.
Restarted == hold' = "none" /\ attempt' = 0 /\ until' = 0 /\ check' = 0

-----------------------------------------------------------------------------
(***************************************************************************)
(* createFleet                                                             *)
(***************************************************************************)
BookStart ==
  /\ status = "none" /\ ~booking /\ fleet = "on"
  /\ booking' = TRUE
  /\ UNCHANGED <<rideVars, searchVars, rows, fleetVars, tickVars,
                 answer, closers, cancels, dissolving, bounds>>

Book ==
  /\ booking
  /\ booking' = FALSE
  /\ status' = "fleet_searching" /\ tag' = TRUE
  /\ kicks' = Kicked
  /\ UNCHANGED <<rider, collected, bill, searchVars, rows, fleetVars, tick,
                 answer, closers, cancels, dissolving, bounds>>

-----------------------------------------------------------------------------
(***************************************************************************)
(* tick: one step of the search                                            *)
(***************************************************************************)
\* What a tick asks of the booking before anything else.
Tickable == Searching /\ tag /\ hold = "none" /\ until <= 0

\* A tick begins. The sweep's takes a booking whose next check has come.
TickStart(w) ==
  /\ tick[w].stage = "idle"
  /\ IF w = Sweep THEN check = 0 /\ Tickable /\ kicks' = kicks
                  ELSE kicks > 0 /\ kicks' = kicks - 1
  /\ tick' = IF Tickable
             THEN [tick EXCEPT ![w] = [stage |-> IF until = 0 THEN "look" ELSE "close",
                                       attempt |-> attempt, excluded |-> excluded, rung |-> {}]]
             ELSE tick
  /\ UNCHANGED <<rideVars, searchVars, rows, fleetVars, callVars, bounds>>

\* The offers of the round that ended, on nothing that was read.
TickClose(w) ==
  /\ tick[w].stage = "close"
  /\ rows' = Closed(NoBiker)
  /\ tick' = [tick EXCEPT ![w].stage = "look"]
  /\ UNCHANGED <<rideVars, searchVars, fleetVars, kicks, callVars, bounds>>

\* The bikers a round of this tick would ring.
Candidates(w) ==
  IF fleet # "on" THEN {}
  ELSE {r \in own \cap free : r \notin tick[w].excluded /\ rows[r].outcome # "declined"}

\* Faulty variant of TickLook: the number of rounds is not looked at.
TickLookOn(w) ==
  /\ tick[w].stage = "look"
  /\ tick' = [tick EXCEPT ![w].stage = "write", ![w].rung = Candidates(w)]
  /\ UNCHANGED <<rideVars, searchVars, rows, fleetVars, kicks, callVars, bounds>>

TickLook(w) ==
  /\ tick[w].stage = "look"
  /\ tick' = [tick EXCEPT ![w].stage = "write",
                          ![w].rung = IF tick[w].attempt = scope.rounds THEN {} ELSE Candidates(w)]
  /\ UNCHANGED <<rideVars, searchVars, rows, fleetVars, kicks, callVars, bounds>>

\* Faulty variant of TickMay: the hold is not pinned.
TickMayHeld(w) == Searching /\ tag /\ attempt = tick[w].attempt

\* The compare-and-swap of a tick's write.
TickMay(w) == Searching /\ tag /\ hold = "none" /\ attempt = tick[w].attempt

\* The next round rings.
TickRing(w) ==
  /\ tick[w].stage = "write" /\ TickMay(w)
  /\ tick[w].rung # {}
  /\ \E m \in Moments :
       /\ Fresh(m)
       /\ attempt' = attempt + 1 /\ until' = m /\ check' = m
       /\ rows' = [r \in Bikers |-> IF r \in tick[w].rung
                                    THEN [outcome |-> "pending", until |-> m] ELSE rows[r]]
  /\ tick' = [tick EXCEPT ![w] = Idle]
  /\ UNCHANGED <<rideVars, hold, excluded, fleetVars, kicks, callVars, bounds>>

\* Faulty variant of TickWait: the empty round is not counted.
TickWaitUncounted(w) ==
  /\ tick[w].stage = "write" /\ TickMay(w)
  /\ tick[w].rung = {} /\ tick[w].attempt \in 1..(scope.rounds - 1)
  /\ \E m \in Moments : Fresh(m) /\ check' = m
  /\ until' = 0
  /\ tick' = [tick EXCEPT ![w] = Idle]
  /\ UNCHANGED <<rideVars, hold, attempt, excluded, rows, fleetVars, kicks, callVars, bounds>>

\* Nobody can be rung in a later round: it is waited out.
TickWait(w) ==
  /\ tick[w].stage = "write" /\ TickMay(w)
  /\ tick[w].rung = {} /\ tick[w].attempt \in 1..(scope.rounds - 1)
  /\ \E m \in Moments : Fresh(m) /\ check' = m
  /\ attempt' = attempt + 1 /\ until' = 0
  /\ tick' = [tick EXCEPT ![w] = Idle]
  /\ UNCHANGED <<rideVars, hold, excluded, rows, fleetVars, kicks, callVars, bounds>>

\* hold: the rounds ran out, or nobody is online as the search starts.
TickHold(w) ==
  /\ tick[w].stage = "write" /\ TickMay(w)
  /\ tick[w].rung = {} /\ tick[w].attempt \in {0, scope.rounds}
  /\ hold' = "fresh" /\ until' = 0 /\ check' = 0
  /\ tick' = [tick EXCEPT ![w] = Idle]
  /\ UNCHANGED <<rideVars, attempt, excluded, rows, fleetVars, kicks, callVars, bounds>>

TickSkip(w) ==
  /\ tick[w].stage = "write" /\ ~TickMay(w)
  /\ tick' = [tick EXCEPT ![w] = Idle]
  /\ UNCHANGED <<rideVars, searchVars, rows, fleetVars, kicks, callVars, bounds>>

TickStep(w) ==
  TickClose(w) \/ TickLook(w) \/ TickRing(w) \/ TickWait(w) \/ TickHold(w) \/ TickSkip(w)

-----------------------------------------------------------------------------
(***************************************************************************)
(* A biker's answer                                                        *)
(***************************************************************************)
\* liveOffer
Offered(r) ==
  /\ Searching /\ tag /\ until # 0
  /\ rows[r].outcome = "pending" /\ rows[r].until > 0

AcceptStart(r) ==
  /\ answer[r] = NoAnswer /\ Offered(r) /\ r \in own
  /\ answer' = [answer EXCEPT ![r] = [kind |-> "accept", until |-> Moment(until)]]
  /\ UNCHANGED <<rideVars, searchVars, rows, fleetVars, tickVars,
                 booking, closers, cancels, dissolving, bounds>>

\* The round the answer was read from is the booking's.
SameRound(r) == Moment(until) = answer[r].until

\* Faulty variant of InFleet: no check at the commit.
InFleetAsRead(r) == TRUE

\* orders_fleet_scope, at the commit: the biker is the branch's owner's.
InFleet(r) == r \in own

AcceptCommit(r) ==
  /\ answer[r].kind = "accept"
  /\ Searching /\ tag /\ SameRound(r) /\ InFleet(r)
  /\ status' = "assigned" /\ rider' = r
  /\ until' = 0 /\ check' = 0
  /\ rows' = IF rows[r].outcome = "pending" THEN [rows EXCEPT ![r].outcome = "accepted"] ELSE rows
  /\ closers' = closers \cup {r}
  /\ answer' = [answer EXCEPT ![r] = NoAnswer]
  /\ UNCHANGED <<tag, collected, bill, hold, attempt, excluded, fleetVars, tickVars,
                 booking, cancels, dissolving, bounds>>

\* The round is over, the biker is not theirs any more, is on a hold, owes
\* another business cash or is on another job.
AcceptRefused(r) ==
  /\ answer[r].kind = "accept"
  /\ answer' = [answer EXCEPT ![r] = NoAnswer]
  /\ UNCHANGED <<rideVars, searchVars, rows, fleetVars, tickVars,
                 booking, closers, cancels, dissolving, bounds>>

DeclineStart(r) ==
  /\ answer[r] = NoAnswer /\ Offered(r)
  /\ answer' = [answer EXCEPT ![r] = [kind |-> "decline", until |-> Moment(until)]]
  /\ UNCHANGED <<rideVars, searchVars, rows, fleetVars, tickVars,
                 booking, closers, cancels, dissolving, bounds>>

DeclineMark(r) ==
  /\ answer[r].kind = "decline"
  /\ IF rows[r].outcome = "pending"
     THEN /\ rows' = [rows EXCEPT ![r].outcome = "declined"]
          /\ answer' = [answer EXCEPT ![r].kind = "declined"]
     ELSE answer' = [answer EXCEPT ![r] = NoAnswer] /\ UNCHANGED rows
  /\ UNCHANGED <<rideVars, searchVars, fleetVars, tickVars,
                 booking, closers, cancels, dissolving, bounds>>

Deciding == {r \in Bikers : rows[r].outcome = "pending" /\ rows[r].until > 0}

\* The last of the round to decide ends it and kicks the next one off.
DeclineEnd(r) ==
  /\ answer[r].kind = "declined"
  /\ answer' = [answer EXCEPT ![r] = NoAnswer]
  /\ IF Deciding = {} /\ Searching /\ SameRound(r)
     THEN /\ \E m \in Moments : Fresh(m) /\ until' = -m
          /\ check' = 0 /\ kicks' = Kicked
     ELSE UNCHANGED <<until, check, kicks>>
  /\ UNCHANGED <<rideVars, hold, attempt, excluded, rows, fleetVars, tick,
                 booking, closers, cancels, dissolving, bounds>>

\* The closeOffers that follows a commit.
CloseAfter(spared) ==
  /\ spared \in closers
  /\ rows' = Closed(spared)
  /\ closers' = closers \ {spared}
  /\ UNCHANGED <<rideVars, searchVars, fleetVars, tickVars,
                 booking, answer, cancels, dissolving, bounds>>

-----------------------------------------------------------------------------
(***************************************************************************)
(* The business                                                            *)
(***************************************************************************)
Retry ==
  /\ "retry" \in scope.business
  /\ Searching /\ tag /\ hold # "none"
  /\ Restarted
  /\ rows' = [r \in Bikers |-> IF rows[r].outcome = "declined"
                               THEN [rows[r] EXCEPT !.outcome = "expired"] ELSE rows[r]]
  /\ kicks' = Kicked
  /\ UNCHANGED <<rideVars, excluded, fleetVars, tick, callVars, bounds>>

\* Faulty variant of ConvertMay: the job may have been taken.
ConvertMayTaken == status \in {"fleet_searching", "assigned"} /\ tag

ConvertMay == Searching /\ tag

Convert ==
  /\ "convert" \in scope.business
  /\ ConvertMay
  /\ status' = "open_for_offers" /\ tag' = FALSE
  /\ Restarted
  /\ closers' = closers \cup {NoBiker}
  /\ UNCHANGED <<rider, collected, bill, excluded, rows, fleetVars, tickVars,
                 booking, answer, cancels, dissolving, bounds>>

\* The booking is cancelled before the pickup.
ShopCancel ==
  /\ "cancel" \in scope.business
  /\ status \in {"fleet_searching", "open_for_offers", "assigned"}
  /\ status' = "cancelled"
  /\ closers' = IF tag THEN closers \cup {NoBiker} ELSE closers
  /\ UNCHANGED <<tag, rider, collected, bill, searchVars, rows, fleetVars, tickVars,
                 booking, answer, cancels, dissolving, bounds>>

-----------------------------------------------------------------------------
(***************************************************************************)
(* The ride                                                                *)
(***************************************************************************)
\* Faulty variant of Charged: a second charge.
ChargedAgain == IF tag /\ rider # NoBiker THEN bill + 1 ELSE bill

\* recordFleetRide, of a billable status: at most one charge for an order.
Charged == IF tag /\ rider # NoBiker /\ bill = 0 THEN bill + 1 ELSE bill

Ride(from, to, charge) ==
  /\ status = from
  /\ status' = to
  /\ bill' = charge
  /\ UNCHANGED <<tag, rider, searchVars, rows, fleetVars, tickVars, callVars, bounds>>

PickUp == Ride("assigned", "picked_up", bill) /\ collected' = TRUE
Deliver == Ride("picked_up", "delivered", bill) /\ UNCHANGED collected
Undelivered == Ride("picked_up", "undelivered", Charged) /\ UNCHANGED collected
Complete == Ride("delivered", "completed", Charged) /\ UNCHANGED collected
AdjudicateDelivered == Ride("undelivered", "completed", Charged) /\ UNCHANGED collected

\* The console's cancelOrder, of an order not in a terminal status.
AdminCancel ==
  /\ scope.console
  /\ \E from \in Statuses \ (Ended \cup {"none"}) :
    Ride(from, "cancelled", IF collected THEN Charged ELSE bill) /\ UNCHANGED collected

\* The rider cancels before the pickup: a fleet job goes back to the search.
Drop ==
  /\ status = "assigned"
  /\ IF tag
     THEN /\ status' = "fleet_searching" /\ rider' = NoBiker
          /\ excluded' = excluded \cup {rider} /\ Restarted
     ELSE status' = "cancelled" /\ UNCHANGED <<rider, searchVars>>
  /\ UNCHANGED <<tag, collected, bill, rows, fleetVars, tickVars, callVars, bounds>>

\* selectOffer on the public board: orders_fleet_scope wants a public biker.
PublicPick(r) ==
  /\ status = "open_for_offers" /\ r \notin own
  /\ status' = "assigned" /\ rider' = r
  /\ UNCHANGED <<tag, collected, bill, searchVars, rows, fleetVars, tickVars, callVars, bounds>>

BoardExpires ==
  Ride("open_for_offers", "expired", bill) /\ UNCHANGED collected

-----------------------------------------------------------------------------
(***************************************************************************)
(* The fleet's bikers. riders_fleet_link refuses a change of the link that *)
(* would leave a live job out of its scope.                                *)
(***************************************************************************)
MayUnlink(r) == ~(Carries(r) /\ tag)
MayLink(r) == ~(Carries(r) /\ ~tag)

Relinked(team) ==
  /\ own' = team
  /\ UNCHANGED <<rideVars, searchVars, rows, free, fleet, tickVars,
                 booking, answer, closers, cancels, bounds>>

\* A disabled fleet has no open invite.
Join(r) ==
  /\ r \in scope.bikers /\ "links" \in scope.moves
  /\ fleet # "off" /\ r \notin own /\ MayLink(r)
  /\ Relinked(own \cup {r}) /\ UNCHANGED dissolving

\* leave, and the owner's removeBiker.
Leave(r) ==
  /\ "links" \in scope.moves
  /\ r \in own /\ MayUnlink(r)
  /\ Relinked(own \ {r}) /\ UNCHANGED dissolving

\* The biker comes online or becomes free, goes offline or gets a job.
Toggle(r) ==
  /\ r \in scope.bikers /\ "shifts" \in scope.moves
  /\ free' = IF r \in free THEN free \ {r} ELSE free \cup {r}
  /\ UNCHANGED <<rideVars, searchVars, rows, own, fleet, tickVars, callVars, bounds>>

\* Faulty variant of Busy: whoever had the ride, finished or not.
BusyEver(r) == rider = r

Busy(r) == Carries(r)

\* dissolveDisabledFleets: the list of idle bikers, and each of them.
DissolveList ==
  /\ fleet = "off" /\ dissolving = {} /\ own # {}
  /\ dissolving' = {r \in own : ~Busy(r)}
  /\ UNCHANGED <<rideVars, searchVars, rows, fleetVars, tickVars,
                 booking, answer, closers, cancels, bounds>>

Dissolve(r) ==
  /\ r \in dissolving
  /\ dissolving' = dissolving \ {r}
  /\ Relinked(IF MayUnlink(r) THEN own \ {r} ELSE own)

-----------------------------------------------------------------------------
(***************************************************************************)
(* The console and the sweeps                                              *)
(***************************************************************************)
SetFleet(to) ==
  /\ scope.console
  /\ fleet' = to
  /\ UNCHANGED <<rideVars, searchVars, rows, own, free, tickVars,
                 booking, answer, closers, dissolving, bounds>>

\* One of these at a time.
Pause ==
  /\ cancels = "none" /\ cancels' = "list"
  /\ SetFleet(IF fleet = "off" THEN "off" ELSE "paused")

Disable == cancels = "none" /\ cancels' = "list" /\ SetFleet("off")

\* enable, and unpause.
Enable == fleet # "on" /\ SetFleet("on") /\ UNCHANGED cancels

\* cancelRingingBookings: the booking is on the list, and then cancelled.
CancelList ==
  /\ cancels = "list"
  /\ cancels' = IF Searching /\ tag THEN "cancel" ELSE "none"
  /\ UNCHANGED <<rideVars, searchVars, rows, fleetVars, tickVars,
                 booking, answer, closers, dissolving, bounds>>

CancelRinging ==
  /\ cancels = "cancel"
  /\ cancels' = "none"
  /\ IF Searching
     THEN /\ status' = "cancelled" /\ until' = 0 /\ check' = 0
          /\ closers' = closers \cup {NoBiker}
     ELSE UNCHANGED <<status, until, check, closers>>
  /\ UNCHANGED <<tag, rider, collected, bill, hold, attempt, excluded, rows, fleetVars,
                 tickVars, booking, answer, dissolving, bounds>>

\* A hold grows older than holdExpireMs.
HoldAges ==
  /\ hold = "fresh"
  /\ hold' = "stale"
  /\ UNCHANGED <<rideVars, attempt, until, check, excluded, rows, fleetVars,
                 tickVars, callVars, bounds>>

\* sweepStaleHolds
ExpireHold ==
  /\ Searching /\ hold = "stale"
  /\ status' = "expired" /\ check' = 0
  /\ UNCHANGED <<tag, rider, collected, bill, hold, attempt, until, excluded, rows,
                 fleetVars, tickVars, callVars, bounds>>

\* Faulty variant of Orphans: those of a cancelled booking only.
OrphansCancelled ==
  IF status # "cancelled" THEN {}
  ELSE {r \in Bikers : rows[r].outcome = "pending" /\ rows[r].until = 0 /\ r # rider}

\* The lapsed offers of a booking that left the search, the rider's excepted.
Orphans ==
  IF status = "fleet_searching" THEN {}
  ELSE {r \in Bikers : rows[r].outcome = "pending" /\ rows[r].until = 0 /\ r # rider}

\* sweepOrphanedOffers
CloseOrphans ==
  /\ Orphans # {}
  /\ rows' = [r \in Bikers |-> IF r \in Orphans THEN [rows[r] EXCEPT !.outcome = "expired"] ELSE rows[r]]
  /\ UNCHANGED <<rideVars, searchVars, fleetVars, tickVars, callVars, bounds>>

-----------------------------------------------------------------------------
(***************************************************************************)
(* A process stops: the calls it had under way go no further.              *)
(***************************************************************************)
Lost == faults < scope.faults /\ faults' = faults + 1 /\ UNCHANGED scope

LoseTick(w) ==
  /\ Lost /\ tick[w].stage # "idle"
  /\ tick' = [tick EXCEPT ![w] = Idle]
  /\ UNCHANGED <<rideVars, searchVars, rows, fleetVars, kicks, callVars>>

LoseKick ==
  /\ Lost /\ kicks > 0
  /\ kicks' = kicks - 1
  /\ UNCHANGED <<rideVars, searchVars, rows, fleetVars, tick, callVars>>

LoseAnswer(r) ==
  /\ Lost /\ answer[r] # NoAnswer
  /\ answer' = [answer EXCEPT ![r] = NoAnswer]
  /\ UNCHANGED <<rideVars, searchVars, rows, fleetVars, tickVars,
                 booking, closers, cancels, dissolving>>

LoseClose(spared) ==
  /\ Lost /\ spared \in closers
  /\ closers' = closers \ {spared}
  /\ UNCHANGED <<rideVars, searchVars, rows, fleetVars, tickVars,
                 booking, answer, cancels, dissolving>>

LoseCancels ==
  /\ Lost /\ cancels # "none"
  /\ cancels' = "none"
  /\ UNCHANGED <<rideVars, searchVars, rows, fleetVars, tickVars,
                 booking, answer, closers, dissolving>>

Next ==
  \/ \E m \in Moments : Passes(m)
  \/ BookStart
  \/ Book
  \/ \E w \in Tickers : TickStart(w)
  \/ \E w \in Tickers : TickStep(w)
  \/ \E r \in Bikers : AcceptStart(r)
  \/ \E r \in Bikers : AcceptCommit(r)
  \/ \E r \in Bikers : AcceptRefused(r)
  \/ \E r \in Bikers : DeclineStart(r)
  \/ \E r \in Bikers : DeclineMark(r)
  \/ \E r \in Bikers : DeclineEnd(r)
  \/ \E r \in Bikers \cup {NoBiker} : CloseAfter(r)
  \/ Retry
  \/ Convert
  \/ ShopCancel
  \/ PickUp
  \/ Deliver
  \/ Undelivered
  \/ Complete
  \/ AdjudicateDelivered
  \/ AdminCancel
  \/ Drop
  \/ \E r \in Bikers : PublicPick(r)
  \/ BoardExpires
  \/ \E r \in Bikers : Join(r)
  \/ \E r \in Bikers : Leave(r)
  \/ \E r \in Bikers : Toggle(r)
  \/ DissolveList
  \/ \E r \in Bikers : Dissolve(r)
  \/ Pause
  \/ Disable
  \/ Enable
  \/ CancelList
  \/ CancelRinging
  \/ HoldAges
  \/ ExpireHold
  \/ CloseOrphans
  \/ \E w \in Tickers : LoseTick(w)
  \/ LoseKick
  \/ \E r \in Bikers : LoseAnswer(r)
  \/ \E r \in Bikers \cup {NoBiker} : LoseClose(r)
  \/ LoseCancels

Spec == Init /\ [][Next]_vars

\* Time goes on and the sweep comes round every sweepIntervalMs: it takes the
\* bookings that are due, expires old holds, dissolves disabled fleets and
\* closes orphaned offers. Nothing is asked of the kicks, the bikers, the
\* business, or the calls that run after a commit.
FairSpec ==
  /\ Spec
  /\ WF_vars(\E m \in Moments : Passes(m))
  /\ WF_vars(TickStart(Sweep)) /\ WF_vars(TickStep(Sweep))
  /\ WF_vars(HoldAges) /\ WF_vars(ExpireHold)
  /\ WF_vars(DissolveList) /\ WF_vars(\E r \in Bikers : Dissolve(r))
  /\ WF_vars(CloseOrphans)

-----------------------------------------------------------------------------
(***************************************************************************)
(* Properties                                                              *)
(***************************************************************************)
RowSet == [outcome : {"none", "pending", "accepted", "declined", "expired"},
           until : Moments \cup {0}]
Ticks == [stage : {"idle", "close", "look", "write"}, attempt : 0..scope.rounds,
          excluded : SUBSET Bikers, rung : SUBSET Bikers]
Answers == [kind : {"none", "accept", "decline", "declined"}, until : Moments \cup {0}]

\* Every column and call is of the shape the schema and the handlers give it; in
\* particular no ring, wait or stale tick takes a search past its last round.
TypeOK ==
  /\ scope \in Scopes
  /\ status \in Statuses /\ tag \in BOOLEAN /\ rider \in Bikers \cup {NoBiker}
  /\ collected \in BOOLEAN /\ bill \in Nat
  /\ hold \in {"none", "fresh", "stale"} /\ attempt \in 0..scope.rounds
  /\ until \in Int /\ Moment(until) \in Moments \cup {0} /\ check \in Moments \cup {0}
  /\ excluded \subseteq Bikers
  /\ rows \in [Bikers -> RowSet]
  /\ own \subseteq Bikers /\ free \subseteq Bikers /\ fleet \in {"on", "paused", "off"}
  /\ booking \in BOOLEAN /\ kicks \in Nat
  /\ tick \in [Tickers -> Ticks] /\ answer \in [Bikers -> Answers]
  /\ closers \subseteq Bikers \cup {NoBiker} /\ cancels \in {"none", "list", "cancel"}
  /\ dissolving \subseteq Bikers /\ faults \in Nat

\* "An Own biker only ever carries their owner's jobs, and a public biker never
\* carries a fleet job": whoever has the booking is of the fleet exactly if the
\* booking is, however joins, leaves, the dissolving of the fleet and a
\* conversion race the accept.
InScope == \A r \in Bikers : Carries(r) => (r \in own <=> tag)

\* A booking that waits for the business rings nobody, and no stale tick starts
\* a round under it: what a biker could accept while the business is told that
\* nobody took it.
HeldRingsNobody == Searching /\ hold # "none" => until = 0 /\ check = 0

\* A ride the fleet made is billed once, whichever way it ended; one that was
\* not made, was dropped or went to the public board is never billed.
RideBilledOnce ==
  LET made == status \in {"completed", "undelivered"} \/ (status = "cancelled" /\ collected)
  IN  bill = IF tag /\ made THEN 1 ELSE 0

\* The console's own edges.
ConsoleEdges ==
  {"picked_up", "delivered"} \X {"cancelled"} \cup {<<"undelivered", "completed">>}

Table == INSTANCE FleetTable
           WITH status <- status, tag <- tag, rider <- rider, ConsoleEdges <- ConsoleEdges

\* The services move a booking only along the declared transition table and the
\* console's edges: an accept, a conversion, a cancel and an expiry never both
\* take it, and a drop keeps it the fleet's.
ImplementsFleetTable == Table!FleetTableSpec

\* A search always comes to an end: a biker has the job, the business is asked,
\* or the booking is over, and a business that does not answer is not waited
\* for. Rounds may be empty, ended by passes, interrupted by drops and closed by
\* stale ticks, and calls may be lost.
SearchSettles ==
  /\ (Searching /\ hold = "none") ~> ~(Searching /\ hold = "none")
  /\ (Searching /\ hold # "none") ~> ~(Searching /\ hold # "none")

\* No biker but the one who has it is left with an offer of a booking that is
\* over, although the call that closes the offers after a cancel, a conversion or
\* an accept is lost.
OffersEnd ==
  status \in Ended ~> \A r \in Bikers : rows[r].outcome = "pending" => r = rider

\* A fleet that stays disabled lets every biker go, once and for all, who is not
\* on one of its rides for ever: also the ones a list left out, and the ones
\* that took a ride between the list and their turn.
DisabledDissolves ==
  \A r \in Bikers : <>[](fleet = "off" /\ ~(Carries(r) /\ tag)) => <>[](r \notin own)

\* "Every write is a CAS on what was read": while a round is on, what a biker
\* was rung with in it stays open until that biker answers.
LiveRoundStands ==
  Searching /\ until > 0 =>
    \A r \in Bikers : rows[r].until = until => rows[r].outcome \in {"pending", "declined"}
=============================================================================
