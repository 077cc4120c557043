----------------------------- MODULE TripProofs -----------------------------
(***************************************************************************)
(* What the trip guarantees for any orders, riders, fares and rates, any   *)
(* weights of the reliability policy and any number of calls under way:    *)
(* the types, the money of a ride, the rider's standing, and that the      *)
(* services follow the declared transition table.                          *)
(*                                                                         *)
(* Orders and riders meet in few places, so a step is first taken apart    *)
(* (lemma StepParts): what it does to the order rows is one of six moves   *)
(* (OrderStep), what it does to a rider row either keeps the row's         *)
(* promises (Keeps) or is a clear-hold.                                    *)
(***************************************************************************)
EXTENDS Trip, FiniteSetTheorems, TLAPS

-----------------------------------------------------------------------------
(***************************************************************************)
(* The moves of an order                                                   *)
(***************************************************************************)
money == <<rider, fare, rated, credit, bill, trips>>

MoveEdges ==
  {<<"none", "open_for_offers">>, <<"open_for_offers", "expired">>,
   <<"en_route_dropoff", "delivered">>, <<"delivered", "cancelled">>}
  \cup Forward
  \cup PostPickup \X {"undelivered"}
  \cup CustomerCancellable \X {"cancelled"}

Moves(o, to) ==
  /\ <<status[o], to>> \in MoveEdges
  /\ status' = [status EXCEPT ![o] = to]
  /\ UNCHANGED money

Bails(o, clone) ==
  /\ status[o] \in RiderCancellable /\ status[clone] = "none"
  /\ status' = [status EXCEPT ![o] = "cancelled", ![clone] = "open_for_offers"]
  /\ UNCHANGED money

Taken(o, r, f) ==
  /\ status[o] = "open_for_offers" /\ ~OnJob(r)
  /\ status' = [status EXCEPT ![o] = "assigned"]
  /\ rider' = [rider EXCEPT ![o] = r]
  /\ fare' = [fare EXCEPT ![o] = f]
  /\ UNCHANGED <<rated, credit, bill, trips>>

Completes(o) ==
  /\ status[o] \in {"delivered", "undelivered"}
  /\ status' = [status EXCEPT ![o] = "completed"]
  /\ trips' = [trips EXCEPT ![rider[o]] = @ + 1]
  /\ bill' = [bill EXCEPT ![o] = Charge(JobOrdinal(rider[o]), fare[o], rate)]
  /\ \/ rated' = [rated EXCEPT ![o] = TRUE] /\ credit' = credit
     \/ rated' = rated /\ \E c \in Nat : credit' = [credit EXCEPT ![o] = c]
     \/ rated' = rated /\ credit' = credit
  /\ UNCHANGED <<rider, fare>>

RatedLate(o) ==
  /\ status[o] = "completed"
  /\ rated' = [rated EXCEPT ![o] = TRUE]
  /\ credit' = [credit EXCEPT ![o] = NoCredit]
  /\ UNCHANGED <<status, rider, fare, bill, trips>>

Corrected(o, f) ==
  /\ fare[o] # NoFare
  /\ fare' = [fare EXCEPT ![o] = f]
  /\ bill' = IF status[o] = "completed" /\ bill[o].kind = "ride_commission"
             THEN [bill EXCEPT ![o].amount = @ + Correction(fare[o], f, bill[o].rate)]
             ELSE bill
  /\ UNCHANGED <<status, rider, rated, credit, trips>>

OrderStep ==
  \/ UNCHANGED <<status, money>>
  \/ \E o \in Orders, to \in Statuses : Moves(o, to)
  \/ \E o, clone \in Orders : Bails(o, clone)
  \/ \E o \in Orders, r \in Riders, f \in Fares : Taken(o, r, f)
  \/ \E o \in Orders : Completes(o)
  \/ \E o \in Orders : RatedLate(o)
  \/ \E o \in Orders, f \in Fares : Corrected(o, f)

(***************************************************************************)
(* The moves of a rider row                                                *)
(***************************************************************************)
\* While penalties apply: who may not ride is offline, and a low score is held.
Fit(st) ==
  /\ st.hold # "none" \/ st.cooling \/ st.account # "active" => ~st.online
  /\ st.score < HoldBelow => st.hold # "none"

Keeps(st, after) ==
  /\ after \in Standings
  /\ st.account = "banned" => after.account = "banned"
  /\ st.hold = "velocity" => after.hold = "velocity"
  /\ ~suspended /\ Fit(st) => Fit(after)

\* What ClearCommit does to the rider row, and to the call.
ClearsHold(q) ==
  /\ q \in clears /\ clears' = clears \ {q}
  /\ standing[q.rider].account = q.account
  /\ standing' = [standing EXCEPT ![q.rider].account = "active", ![q.rider].hold = "none",
                     ![q.rider].score = IF @ < ClearAt THEN ClearAt ELSE @]

StandingStep ==
  \/ standing' = standing
  \/ \E r \in Riders, st \in Standings :
       Keeps(standing[r], st) /\ standing' = [standing EXCEPT ![r] = st]
  \/ \E q \in clears : ClearsHold(q)

(***************************************************************************)
(* The invariant                                                           *)
(***************************************************************************)
RowsOK ==
  /\ status \in [Orders -> Statuses]
  /\ rider \in [Orders -> Riders \cup {NoRider}]
  /\ fare \in [Orders -> Fares \cup {NoFare}]
  /\ rated \in [Orders -> BOOLEAN]
  /\ credit \in [Orders -> Nat \cup {NoCredit}]
  /\ bill \in [Orders -> Bills]
  /\ trips \in [Riders -> Nat]

ParentsOK == parent \in [Orders -> Orders \cup {NoOrder}]

StandingOK == standing \in [Riders -> Standings]

CallsOK ==
  /\ suspended \in Suspensions /\ suspended \in BOOLEAN /\ rate \in 0..100
  /\ picks \subseteq Picks /\ rates \subseteq Rates /\ adjusts \subseteq Adjusts
  /\ verdicts \subseteq Verdicts /\ resends \subseteq Resends /\ clears \subseteq Clears

\* The statuses of an order a rider was given.
Ridden == Active \cup {"delivered", "completed", "undelivered"}

\* An order on the road has its rider and its fare; only a completed one is
\* rated or billed.
OrderFacts ==
  \A o \in Orders :
    /\ status[o] \in Ridden => rider[o] \in Riders /\ fare[o] \in Fares
    /\ rated[o] => status[o] = "completed"
    /\ bill[o].kind # "none" => status[o] = "completed"

IInv ==
  TypeOK /\ suspended \in Suspensions /\ OrderFacts /\ BillMatchesFare /\ RatingReplacesCredit

\* The type invariant, by the tables it is about.
LEMMA TypeParts ==
  TypeOK /\ suspended \in Suspensions <=> RowsOK /\ ParentsOK /\ StandingOK /\ CallsOK
BY DEF TypeOK, RowsOK, ParentsOK, StandingOK, CallsOK

-----------------------------------------------------------------------------
(***************************************************************************)
(* Operators                                                               *)
(***************************************************************************)
\* An agreed fare is an amount, and not NULL.
LEMMA FareIsNat == \A f \in Fares : f \in Nat /\ f # NoFare
BY TripAssumption DEF NoFare

\* A commission is an amount, on any fare and rate.
LEMMA CommissionIsNat ==
  ASSUME NEW f \in Nat, NEW p \in Nat
  PROVE  CommissionOn(f, p) \in Nat
<1>1. Basis(f) \in Nat
  BY CommissionAssumption DEF Basis
<1>2. Basis(f) * p \in Nat
  BY <1>1
<1>3. QED
  BY <1>2 DEF CommissionOn

\* A completion's bill is a bill, and a ride's commission is that of its fare.
LEMMA ChargeType ==
  ASSUME NEW n, NEW f \in Nat, NEW p \in Nat
  PROVE  /\ Charge(n, f, p) \in Bills
         /\ Charge(n, f, p).kind = "ride_commission" =>
              /\ Charge(n, f, p).rate = p
              /\ Charge(n, f, p).amount = CommissionOn(f, p)
<1> DEFINE c == CommissionOn(f, p)
<1>1. c \in Nat
  BY CommissionIsNat
<1> HIDE DEF c
<1>2. Charge(n, f, p) = IF c = 0 THEN NoBill
         ELSE IF IsFreeJob(n) THEN [kind |-> "free_job", rate |-> p, amount |-> 0]
         ELSE [kind |-> "ride_commission", rate |-> p, amount |-> c]
  BY DEF Charge, c
<1>3. QED
  BY <1>1, <1>2 DEF Bills, NoBill, c

\* A delta moves the score and perhaps the hold: a fraud hold stays, and a hold
\* it applies is for a low score.
LEMMA ApplyDeltaFacts ==
  ASSUME NEW st \in Standings, NEW delta \in Int, NEW susp \in BOOLEAN,
         NEW after, after = ApplyDelta(st, delta, susp)
  PROVE  /\ after \in Standings
         /\ after.account = st.account /\ after.online = st.online
         /\ after.cooling = st.cooling /\ after.strikes = st.strikes
         /\ st.hold = "velocity" => after.hold = "velocity"
         /\ ~susp /\ after.score < HoldBelow => after.hold # "none"
         /\ st.hold = "none" /\ after.hold # "none" => after.score < HoldBelow
         /\ delta >= 0 => st.score <= after.score
<1> DEFINE score == Clamp(st.score + delta)
<1>1. score \in 0..MaxScore /\ (delta >= 0 => st.score <= score)
  BY ReliabilityAssumption DEF Standings, Clamp
<1> HIDE DEF score
<1>2. after = [st EXCEPT !.score = score, !.hold = HoldAfter(st.hold, score, susp)]
  BY DEF ApplyDelta, score, Standings
<1>3. st.hold \in Holds
  BY DEF Standings
<1>4. /\ HoldAfter(st.hold, score, susp) \in Holds
      /\ st.hold = "velocity" => HoldAfter(st.hold, score, susp) = "velocity"
      /\ ~susp /\ score < HoldBelow => HoldAfter(st.hold, score, susp) # "none"
      /\ st.hold = "none" /\ HoldAfter(st.hold, score, susp) # "none" => score < HoldBelow
  BY <1>1, <1>3, ReliabilityAssumption DEF HoldAfter, Holds
<1>5. QED
  BY <1>1, <1>2, <1>4 DEF Standings

\* Demote keeps the promises of the row it starts from, whatever hold and score
\* the trip has left.
LEMMA DemoteKeeps ==
  ASSUME NEW st \in Standings, NEW after \in Standings,
         after.account = st.account, after.online = st.online, after.cooling = st.cooling,
         st.hold = "velocity" => after.hold = "velocity",
         ~suspended /\ after.score < HoldBelow => after.hold # "none"
  PROVE  Keeps(st, Demote(st, after))
BY DEF Keeps, Demote, Fit, Standings

\* So does a completion's credit, which takes nobody offline.
LEMMA RecoverKeeps ==
  ASSUME NEW st \in Standings, suspended \in BOOLEAN
  PROVE  /\ Keeps(st, ApplyDelta(st, Recover, suspended))
         /\ ApplyDelta(st, Recover, suspended).score - st.score \in Nat
<1> DEFINE after == ApplyDelta(st, Recover, suspended)
<1>1. Recover \in Nat
  BY ReliabilityAssumption
<1>2. /\ after \in Standings
      /\ after.account = st.account /\ after.online = st.online /\ after.cooling = st.cooling
      /\ st.hold = "velocity" => after.hold = "velocity"
      /\ ~suspended /\ after.score < HoldBelow => after.hold # "none"
      /\ st.hold = "none" /\ after.hold # "none" => after.score < HoldBelow
      /\ st.score <= after.score
  BY <1>1, ApplyDeltaFacts
<1>3. st.score \in Nat /\ after.score \in Nat /\ HoldBelow \in Nat
  BY <1>2, ReliabilityAssumption DEF Standings
<1> HIDE DEF after
<1>4. Keeps(st, after) /\ after.score - st.score \in Nat
  BY <1>2, <1>3 DEF Keeps, Fit
<1>5. QED
  BY <1>4 DEF after

\* A rating, whatever its effect.
LEMMA MovedKeeps ==
  ASSUME NEW st \in Standings, NEW delta \in Int, suspended \in BOOLEAN
  PROVE  Keeps(st, Moved(st, delta))
<1>1. CASE delta = 0
  BY <1>1 DEF Moved, Keeps
<1>2. CASE delta # 0
  <2> DEFINE after == ApplyDelta(st, delta, suspended)
  <2>1. /\ after \in Standings
        /\ after.account = st.account /\ after.online = st.online /\ after.cooling = st.cooling
        /\ st.hold = "velocity" => after.hold = "velocity"
        /\ ~suspended /\ after.score < HoldBelow => after.hold # "none"
    BY ApplyDeltaFacts
  <2> HIDE DEF after
  <2>2. Keeps(st, Demote(st, after))
    BY <2>1, DemoteKeeps
  <2>3. QED
    BY <1>2, <2>2 DEF Moved, after
<1>3. QED
  BY <1>1, <1>2

\* A failed hand-off: its penalty and perhaps the fraud hold.
LEMMA UndeliveredKeeps ==
  ASSUME NEW st \in Standings, NEW penalty \in UndeliveredPenalties, NEW flagged \in BOOLEAN,
         suspended \in BOOLEAN, NEW scored, scored = ApplyDelta(st, -penalty, suspended),
         NEW after, after = IF flagged THEN [scored EXCEPT !.hold = "velocity"] ELSE scored
  PROVE  Keeps(st, Demote(st, after))
<1>1. -penalty \in Int
  BY ReliabilityAssumption
<1>2. /\ scored \in Standings
      /\ scored.account = st.account /\ scored.online = st.online /\ scored.cooling = st.cooling
      /\ st.hold = "velocity" => scored.hold = "velocity"
      /\ ~suspended /\ scored.score < HoldBelow => scored.hold # "none"
  BY <1>1, ApplyDeltaFacts
<1>3. /\ after \in Standings
      /\ after.account = st.account /\ after.online = st.online /\ after.cooling = st.cooling
      /\ st.hold = "velocity" => after.hold = "velocity"
      /\ ~suspended /\ after.score < HoldBelow => after.hold # "none"
  BY <1>2 DEF Standings, Holds
<1>4. QED
  BY <1>3, DemoteKeeps

\* A rider's own cancel: the penalty, and a strike or a new cycle.
LEMMA BailKeeps ==
  ASSUME NEW st \in Standings, suspended \in BOOLEAN
  PROVE  Keeps(st, Bail(st))
<1> DEFINE scored == ApplyDelta(st, -PrePickupCancel, suspended)
           limit == StrikeLimit <= st.strikes + 1
<1>1. -PrePickupCancel \in Int
  BY ReliabilityAssumption
<1>2. /\ scored \in Standings
      /\ scored.account = st.account /\ scored.online = st.online /\ scored.cooling = st.cooling
      /\ st.hold = "velocity" => scored.hold = "velocity"
      /\ ~suspended /\ scored.score < HoldBelow => scored.hold # "none"
  BY <1>1, ApplyDeltaFacts
<1>3. Bail(st) = CASE limit /\ suspended -> [scored EXCEPT !.strikes = 0]
                   [] limit /\ ~suspended ->
                        [scored EXCEPT !.strikes = 0, !.cooling = TRUE, !.online = FALSE]
                   [] OTHER -> Demote(st, [scored EXCEPT !.strikes = @ + 1])
  BY DEF Bail
<1> HIDE DEF scored, limit
<1>4. CASE limit /\ suspended
  <2>1. Bail(st) = [scored EXCEPT !.strikes = 0]
    BY <1>3, <1>4
  <2>2. QED
    BY <1>2, <1>4, <2>1 DEF Keeps, Standings
<1>5. CASE limit /\ ~suspended
  <2> DEFINE after == [scored EXCEPT !.strikes = 0, !.cooling = TRUE, !.online = FALSE]
  <2>1. Bail(st) = after
    BY <1>3, <1>5
  <2>2. /\ after \in Standings /\ after.account = st.account /\ after.online = FALSE
        /\ after.hold = scored.hold /\ after.score = scored.score
    BY <1>2 DEF Standings
  <2> HIDE DEF after
  <2>3. Keeps(st, after)
    BY <1>2, <2>2 DEF Keeps, Fit
  <2>4. QED
    BY <2>1, <2>3
<1>6. CASE ~limit
  <2> DEFINE after == [scored EXCEPT !.strikes = @ + 1]
  <2>1. Bail(st) = Demote(st, after)
    BY <1>3, <1>6
  <2>2. /\ after \in Standings
        /\ after.account = st.account /\ after.online = st.online /\ after.cooling = st.cooling
        /\ st.hold = "velocity" => after.hold = "velocity"
        /\ ~suspended /\ after.score < HoldBelow => after.hold # "none"
    BY <1>2 DEF Standings
  <2> HIDE DEF after
  <2>3. QED
    BY <2>1, <2>2, DemoteKeeps
<1>7. QED
  BY <1>4, <1>5, <1>6

-----------------------------------------------------------------------------
(***************************************************************************)
(* The parts of a step                                                     *)
(***************************************************************************)
Parts == OrderStep /\ StandingStep /\ CallsOK' /\ ParentsOK'

CallSetsOK ==
  /\ picks \subseteq Picks /\ rates \subseteq Rates /\ adjusts \subseteq Adjusts
  /\ verdicts \subseteq Verdicts /\ resends \subseteq Resends /\ clears \subseteq Clears

\* What the provers need of the invariant in a step of one order.
LEMMA RowFacts ==
  ASSUME IInv, NEW o \in Orders
  PROVE  /\ RowsOK /\ ParentsOK /\ StandingOK /\ CallsOK
         /\ status[o] \in Statuses
         /\ status[o] \in Ridden =>
              rider[o] \in Riders /\ fare[o] \in Fares /\ standing[rider[o]] \in Standings
         /\ suspended \in BOOLEAN
BY TypeParts DEF IInv, OrderFacts, RowsOK, StandingOK, CallsOK

\* A call that only reads, or is refused, files or drops itself.
LEMMA ReadParts ==
  ASSUME IInv, UNCHANGED <<orderRows, riderRows, policy>>, CallSetsOK'
  PROVE  Parts
<1>1. CallsOK' /\ ParentsOK'
  BY TypeParts DEF IInv, CallsOK, CallSetsOK, ParentsOK, orderRows, policy
<1>2. OrderStep /\ StandingStep
  BY DEF OrderStep, StandingStep, orderRows, riderRows, money
<1>3. QED
  BY <1>1, <1>2 DEF Parts

\* A step on rider rows alone.
LEMMA RiderParts ==
  ASSUME IInv, UNCHANGED <<orderRows, trips, policy>>, StandingStep, CallSetsOK'
  PROVE  Parts
<1>1. CallsOK' /\ ParentsOK'
  BY TypeParts DEF IInv, CallsOK, CallSetsOK, ParentsOK, orderRows, policy
<1>2. OrderStep
  BY DEF OrderStep, orderRows, money
<1>3. QED
  BY <1>1, <1>2 DEF Parts

\* A status change along one edge.
LEMMA SetStatusParts ==
  ASSUME IInv, NEW o \in Orders, NEW to \in Statuses, SetStatus(o, to),
         <<status[o], to>> \in MoveEdges
  PROVE  Parts
<1>1. Moves(o, to)
  BY DEF SetStatus, Moves, money, riderRows
<1>2. CallsOK' /\ ParentsOK'
  BY TypeParts DEF IInv, SetStatus, CallsOK, ParentsOK, calls, policy
<1>3. OrderStep /\ StandingStep
  BY <1>1 DEF OrderStep, StandingStep, SetStatus, riderRows
<1>4. QED
  BY <1>2, <1>3 DEF Parts

\* One rider row written with a standing that keeps its promises.
LEMMA KeepsStep ==
  ASSUME NEW r \in Riders, NEW st, Keeps(standing[r], st),
         standing' = [standing EXCEPT ![r] = st]
  PROVE  StandingStep
BY DEF StandingStep, Keeps

\* The call sets, as long as none grows.
LEMMA FewerCalls ==
  ASSUME IInv, picks' \subseteq picks, rates' \subseteq rates, adjusts' \subseteq adjusts,
         verdicts' \subseteq verdicts, resends' \subseteq resends, clears' \subseteq clears
  PROVE  CallSetsOK /\ CallSetsOK'
BY TypeParts DEF IInv, CallsOK, CallSetsOK

\* A completion, by any of the three ways, charges the fare of the row.
LEMMA CompleteParts ==
  ASSUME IInv, NEW o \in Orders, status[o] \in {"delivered", "undelivered"},
         Complete(o, fare[o]), StandingStep, CallSetsOK',
         \/ rated' = [rated EXCEPT ![o] = TRUE] /\ credit' = credit
         \/ rated' = rated /\ \E c \in Nat : credit' = [credit EXCEPT ![o] = c]
         \/ rated' = rated /\ credit' = credit
  PROVE  Parts
<1>1. Completes(o)
  BY DEF Complete, Completes
<1>2. CallsOK' /\ ParentsOK'
  BY TypeParts DEF IInv, Complete, CallsOK, CallSetsOK, ParentsOK, policy
<1>3. QED
  BY <1>1, <1>2 DEF Parts, OrderStep

\* Every step is a move of the orders and a move of a rider row.
LEMMA StepParts == IInv /\ Next => Parts
<1> SUFFICES ASSUME IInv, Next PROVE Parts
  OBVIOUS
<1>0. RowsOK /\ ParentsOK /\ StandingOK /\ CallsOK /\ CallSetsOK
  BY TypeParts DEF IInv, CallsOK, CallSetsOK
<1>1. CASE \E o \in Orders : Create(o)
  BY <1>1, SetStatusParts DEF Create, MoveEdges, Statuses
<1>2. CASE \E o \in Orders : Expire(o)
  BY <1>2, SetStatusParts DEF Expire, MoveEdges, Statuses
<1>3. CASE \E o \in Orders, r \in Riders, f \in Fares : PickRead(o, r, f)
  BY <1>0, <1>3, ReadParts DEF PickRead, CallSetsOK, Picks
<1>4. CASE \E q \in picks : Assign(q)
  <2> PICK q \in picks : Assign(q)
    BY <1>4
  <2>1. q.order \in Orders /\ q.rider \in Riders /\ q.fare \in Fares
    BY <1>0 DEF CallSetsOK, Picks
  <2>2. Taken(q.order, q.rider, q.fare)
    BY DEF Assign, PickLands, Taken, riderRows
  <2>3. CallsOK' /\ ParentsOK'
    BY <1>0 DEF Assign, CallsOK, ParentsOK, policy
  <2>4. OrderStep /\ StandingStep
    BY <2>1, <2>2 DEF OrderStep, StandingStep, Assign, riderRows
  <2>5. QED
    BY <2>3, <2>4 DEF Parts
<1>5. CASE \E q \in picks : PickRefused(q)
  BY <1>0, <1>5, ReadParts DEF PickRefused, CallSetsOK
<1>6. CASE \E o \in Orders, to \in Active : Advance(o, to)
  BY <1>6, SetStatusParts DEF Advance, MoveEdges, Statuses, Active
<1>7. CASE \E o \in Orders : ConfirmDelivery(o)
  BY <1>7, SetStatusParts DEF ConfirmDelivery, MoveEdges, Statuses
<1>8. CASE \E o \in Orders, p \in UndeliveredPenalties : MarkUndelivered(o, p)
  <2> PICK o \in Orders, p \in UndeliveredPenalties : MarkUndelivered(o, p)
    BY <1>8
  <2> DEFINE r == rider[o]
             scored == ApplyDelta(standing[r], -p, suspended)
             flagged == FlagsVelocity(Cardinality(Of(r, "undelivered")) + 1,
                                      Cardinality(Of(r, "completed")), suspended)
             after == IF flagged THEN [scored EXCEPT !.hold = "velocity"] ELSE scored
  <2>1. /\ status[o] \in PostPickup
        /\ status' = [status EXCEPT ![o] = "undelivered"]
        /\ standing' = [standing EXCEPT ![r] = Demote(standing[r], after)]
        /\ UNCHANGED <<parent, rider, fare, rated, credit, bill, trips, policy, calls>>
    BY DEF MarkUndelivered
  <2>2. r \in Riders /\ standing[r] \in Standings /\ suspended \in BOOLEAN
    BY <2>1, RowFacts DEF PostPickup, Ridden, Active
  <2>3. flagged \in BOOLEAN
    BY DEF FlagsVelocity
  <2> HIDE DEF flagged, r
  <2>4. Keeps(standing[r], Demote(standing[r], after))
    BY <2>2, <2>3, UndeliveredKeeps
  <2>5. Moves(o, "undelivered")
    BY <2>1 DEF Moves, MoveEdges, money
  <2>6. OrderStep
    BY <2>5 DEF OrderStep, Statuses
  <2>7. StandingStep
    BY <2>1, <2>2, <2>4, KeepsStep
  <2>8. CallsOK' /\ ParentsOK'
    BY <1>0, <2>1 DEF CallsOK, ParentsOK, calls, policy
  <2>9. QED
    BY <2>6, <2>7, <2>8 DEF Parts
<1>9. CASE \E o \in Orders : CustomerCancel(o)
  BY <1>9, SetStatusParts DEF CustomerCancel, MoveEdges, Statuses
<1>10. CASE \E o \in Orders : AdminCancel(o)
  <2> PICK o \in Orders : AdminCancel(o)
    BY <1>10
  <2>1. status[o] \in CustomerCancellable \cup {"delivered"}
    BY RowFacts DEF AdminCancel, Statuses, Terminal, CustomerCancellable, Active
  <2>2. <<status[o], "cancelled">> \in MoveEdges
    BY <2>1 DEF MoveEdges
  <2>3. QED
    BY <2>2, SetStatusParts DEF AdminCancel, Statuses
<1>11. CASE \E o, clone \in Orders : RiderCancel(o, clone)
  <2> PICK o \in Orders, clone \in Orders : RiderCancel(o, clone)
    BY <1>11
  <2> DEFINE r == rider[o]
  <2>1. /\ status[o] \in RiderCancellable /\ status[clone] = "none"
        /\ status' = [status EXCEPT ![o] = "cancelled", ![clone] = "open_for_offers"]
        /\ parent' = [parent EXCEPT ![clone] = o]
        /\ standing' = [standing EXCEPT ![r] = Bail(standing[r])]
        /\ UNCHANGED <<rider, fare, rated, credit, bill, trips, policy, calls>>
    BY DEF RiderCancel
  <2>2. r \in Riders /\ standing[r] \in Standings /\ suspended \in BOOLEAN
    BY <2>1, RowFacts DEF RiderCancellable, Ridden, Active
  <2>3. Bails(o, clone)
    BY <2>1 DEF Bails, money
  <2>4. StandingStep
    BY <2>1, <2>2, BailKeeps, KeepsStep
  <2>5. CallsOK' /\ ParentsOK'
    BY <1>0, <2>1 DEF CallsOK, ParentsOK, calls, policy
  <2>6. QED
    BY <2>3, <2>4, <2>5 DEF Parts, OrderStep
<1>12. CASE \E o \in Orders : RateRead(o)
  <2> PICK o \in Orders : RateRead(o)
    BY <1>12
  <2>1. fare[o] \in Fares
    BY RowFacts DEF RateRead, Ridden
  <2>2. CallSetsOK'
    <3> DEFINE late == status[o] = "completed"
    <3>1. late \in BOOLEAN /\ rates' = rates \cup {[order |-> o, late |-> late, fare |-> fare[o]]}
      BY DEF RateRead
    <3> HIDE DEF late
    <3>2. [order |-> o, late |-> late, fare |-> fare[o]] \in Rates
      BY <2>1, <3>1, Zenon DEF Rates
    <3>3. QED
      BY <1>0, <3>1, <3>2 DEF RateRead, CallSetsOK
  <2>3. QED
    BY <2>2, ReadParts DEF RateRead
<1>13. CASE \E q \in rates, e \in RatingEffects : RateOnTime(q, e)
  <2> PICK q \in rates, e \in RatingEffects : RateOnTime(q, e)
    BY <1>13
  <2> DEFINE o == q.order
             r == rider[o]
  <2>1. o \in Orders /\ e \in Int
    BY <1>0, ReliabilityAssumption DEF CallSetsOK, Rates, RatingEffects
  <2>2. /\ status[o] = "delivered" /\ Complete(o, fare[o])
        /\ rated' = [rated EXCEPT ![o] = TRUE]
        /\ standing' = [standing EXCEPT ![r] = Moved(standing[r], e)]
        /\ rates' = rates \ {q}
        /\ UNCHANGED <<credit, picks, adjusts, verdicts, resends, clears>>
    BY DEF RateOnTime, ChargedFare
  <2>3. r \in Riders /\ standing[r] \in Standings /\ suspended \in BOOLEAN
    BY <2>1, <2>2, RowFacts DEF Ridden
  <2>4. StandingStep
    BY <2>1, <2>2, <2>3, MovedKeeps, KeepsStep
  <2>5. CallSetsOK'
    BY <2>2, FewerCalls
  <2>6. QED
    BY <2>1, <2>2, <2>4, <2>5, CompleteParts
<1>14. CASE \E q \in rates, e \in RatingEffects : RateLate(q, e)
  <2> PICK q \in rates, e \in RatingEffects : RateLate(q, e)
    BY <1>14
  <2> DEFINE o == q.order
             r == rider[o]
             delta == LateDelta(o, e)
  <2>1. o \in Orders /\ e \in Int
    BY <1>0, ReliabilityAssumption DEF CallSetsOK, Rates, RatingEffects
  <2>2. /\ status[o] = "completed"
        /\ rated' = [rated EXCEPT ![o] = TRUE]
        /\ credit' = [credit EXCEPT ![o] = NoCredit]
        /\ standing' = [standing EXCEPT ![r] = Moved(standing[r], delta)]
        /\ rates' = rates \ {q}
        /\ UNCHANGED <<status, parent, rider, fare, bill, trips, policy,
                       picks, adjusts, verdicts, resends, clears>>
    BY DEF RateLate, CreditAfterRating
  <2>3. r \in Riders /\ standing[r] \in Standings /\ suspended \in BOOLEAN
    BY <2>1, <2>2, RowFacts DEF Ridden
  <2>4. delta \in Int
    BY <1>0, <2>1 DEF LateDelta, RowsOK, NoCredit
  <2> HIDE DEF delta
  <2>5. StandingStep
    BY <2>2, <2>3, <2>4, MovedKeeps, KeepsStep
  <2>6. RatedLate(o)
    BY <2>2 DEF RatedLate
  <2>7. OrderStep
    BY <2>1, <2>6 DEF OrderStep
  <2>8. CallSetsOK'
    BY <2>2, FewerCalls
  <2>9. CallsOK' /\ ParentsOK'
    BY <1>0, <2>2, <2>8 DEF CallsOK, CallSetsOK, ParentsOK, policy
  <2>10. QED
    BY <2>5, <2>7, <2>9 DEF Parts
<1>15. CASE \E q \in rates : RateRefused(q)
  BY <1>0, <1>15, ReadParts DEF RateRefused, CallSetsOK
<1>16. CASE \E o \in Orders : AutoClose(o)
  <2> PICK o \in Orders : AutoClose(o)
    BY <1>16
  <2> DEFINE r == rider[o]
             after == ApplyDelta(standing[r], Recover, suspended)
             c == after.score - standing[r].score
  <2>1. /\ status[o] = "delivered" /\ Complete(o, fare[o])
        /\ standing' = [standing EXCEPT ![r] = after]
        /\ credit' = [credit EXCEPT ![o] = c]
        /\ UNCHANGED <<rated, calls>>
    BY DEF AutoClose
  <2>2. r \in Riders /\ standing[r] \in Standings /\ suspended \in BOOLEAN
    BY <2>1, RowFacts DEF Ridden
  <2>3. Keeps(standing[r], after) /\ c \in Nat
    BY <2>2, RecoverKeeps
  <2> HIDE DEF after, c
  <2>4. StandingStep
    BY <2>1, <2>2, <2>3, KeepsStep
  <2>5. CallSetsOK'
    BY <1>0, <2>1 DEF CallSetsOK, calls
  <2>6. QED
    BY <2>1, <2>3, <2>4, <2>5, CompleteParts
<1>17. CASE \E o \in Orders : VerdictRead(o)
  <2> PICK o \in Orders : VerdictRead(o)
    BY <1>17
  <2>1. fare[o] \in Fares
    BY RowFacts DEF VerdictRead, Ridden
  <2>2. CallSetsOK'
    BY <1>0, <2>1 DEF VerdictRead, CallSetsOK, Verdicts
  <2>3. QED
    BY <2>2, ReadParts DEF VerdictRead
<1>18. CASE \E q \in verdicts : VerdictCommit(q)
  <2> PICK q \in verdicts : VerdictCommit(q)
    BY <1>18
  <2> DEFINE o == q.order
             r == rider[o]
             after == ApplyDelta(standing[r], Recover, suspended)
  <2>1. o \in Orders
    BY <1>0 DEF CallSetsOK, Verdicts
  <2>2. /\ status[o] = "undelivered" /\ Complete(o, fare[o])
        /\ standing' = [standing EXCEPT ![r] = after]
        /\ verdicts' = verdicts \ {q}
        /\ UNCHANGED <<rated, credit, picks, rates, adjusts, resends, clears>>
    BY DEF VerdictCommit, ChargedFare
  <2>3. r \in Riders /\ standing[r] \in Standings /\ suspended \in BOOLEAN
    BY <2>1, <2>2, RowFacts DEF Ridden
  <2>4. Keeps(standing[r], after)
    BY <2>3, RecoverKeeps
  <2> HIDE DEF after
  <2>5. StandingStep
    BY <2>2, <2>3, <2>4, KeepsStep
  <2>6. CallSetsOK'
    BY <2>2, FewerCalls
  <2>7. QED
    BY <2>1, <2>2, <2>5, <2>6, CompleteParts
<1>19. CASE \E q \in verdicts : VerdictRefused(q)
  BY <1>0, <1>19, ReadParts DEF VerdictRefused, CallSetsOK
<1>20. CASE \E o \in Orders, f \in Fares : AdjustRead(o, f)
  <2> PICK o \in Orders, f \in Fares : AdjustRead(o, f)
    BY <1>20
  <2>1. fare[o] \in Fares /\ status[o] \in Statuses
    BY <1>0 DEF AdjustRead, RowsOK
  <2>2. CallSetsOK'
    BY <1>0, <2>1 DEF AdjustRead, CallSetsOK, Adjusts
  <2>3. QED
    BY <2>2, ReadParts DEF AdjustRead
<1>21. CASE \E q \in adjusts : AdjustCommit(q)
  <2> PICK q \in adjusts : AdjustCommit(q)
    BY <1>21
  <2>1. q.order \in Orders /\ q.from \in Fares /\ q.to \in Fares
    BY <1>0 DEF CallSetsOK, Adjusts
  <2>2. /\ fare[q.order] = q.from
        /\ fare' = [fare EXCEPT ![q.order] = q.to]
        /\ bill' = IF status[q.order] = "completed" /\ bill[q.order].kind = "ride_commission"
                   THEN [bill EXCEPT ![q.order].amount =
                           @ + Correction(q.from, q.to, bill[q.order].rate)]
                   ELSE bill
        /\ adjusts' = adjusts \ {q}
        /\ UNCHANGED <<status, parent, rider, rated, credit, riderRows, policy,
                       picks, rates, verdicts, resends, clears>>
    BY DEF AdjustCommit, Reconciles
  <2>3. Corrected(q.order, q.to)
    BY <2>1, <2>2, FareIsNat DEF Corrected, riderRows
  <2>4. OrderStep
    BY <2>1, <2>3 DEF OrderStep
  <2>5. CallSetsOK'
    BY <2>2, FewerCalls
  <2>6. CallsOK' /\ ParentsOK'
    BY <1>0, <2>2, <2>5 DEF CallsOK, CallSetsOK, ParentsOK, policy
  <2>7. StandingStep
    BY <2>2 DEF StandingStep, riderRows
  <2>8. QED
    BY <2>4, <2>6, <2>7 DEF Parts
<1>22. CASE \E q \in adjusts : AdjustRefused(q)
  BY <1>0, <1>22, ReadParts DEF AdjustRefused, CallSetsOK
<1>23. CASE \E o \in Orders : ResendRead(o)
  BY <1>0, <1>23, ReadParts DEF ResendRead, CallSetsOK, Resends
<1>24. CASE \E q \in resends : ResendLock(q)
  <2> PICK q \in resends : ResendLock(q)
    BY <1>24
  <2>1. PICK found \in IF OnBoard(q.order) = {} THEN {NoOrder} ELSE OnBoard(q.order) :
          resends' = (resends \ {q}) \cup {[order |-> q.order, stage |-> "locked", found |-> found]}
    BY DEF ResendLock
  <2>2. q.order \in Orders /\ found \in Orders \cup {NoOrder}
    BY <1>0, <2>1 DEF CallSetsOK, Resends, OnBoard, Lineage
  <2>3. CallSetsOK'
    BY <1>0, <2>1, <2>2 DEF ResendLock, CallSetsOK, Resends
  <2>4. QED
    BY <2>3, ReadParts DEF ResendLock
<1>25. CASE \E q \in resends, clone \in Orders : ResendClone(q, clone)
  <2> PICK q \in resends, clone \in Orders : ResendClone(q, clone)
    BY <1>25
  <2>1. q.order \in Orders
    BY <1>0 DEF CallSetsOK, Resends
  <2>2. Moves(clone, "open_for_offers")
    BY DEF ResendClone, Moves, MoveEdges, money, riderRows
  <2>3. CallsOK' /\ ParentsOK'
    BY <1>0, <2>1 DEF ResendClone, CallsOK, ParentsOK, policy
  <2>4. OrderStep /\ StandingStep
    BY <2>2 DEF OrderStep, StandingStep, ResendClone, riderRows, Statuses
  <2>5. QED
    BY <2>3, <2>4 DEF Parts
<1>26. CASE \E q \in resends : ResendEnds(q)
  BY <1>0, <1>26, ReadParts DEF ResendEnds, CallSetsOK
<1>27. CASE \E r \in Riders, to \in AccountStops : StopAccount(r, to)
  <2> PICK r \in Riders, to \in AccountStops : StopAccount(r, to)
    BY <1>27
  <2> DEFINE st == [standing[r] EXCEPT !.account = to, !.online = FALSE]
  <2>1. standing[r] \in Standings /\ to \in {"suspended", "banned"}
    BY <1>0, TripAssumption DEF StandingOK
  <2>2. standing[r].account # "banned"
    BY DEF StopAccount
  <2>3. Keeps(standing[r], st)
    BY <2>1, <2>2 DEF Keeps, Fit, Standings, Accounts
  <2>4. standing' = [standing EXCEPT ![r] = st]
    BY DEF StopAccount
  <2> HIDE DEF st
  <2>5. StandingStep
    BY <2>3, <2>4, KeepsStep
  <2>6. CallSetsOK'
    BY <1>0 DEF StopAccount, CallSetsOK, calls
  <2>7. QED
    BY <2>5, <2>6, RiderParts DEF StopAccount
<1>28. CASE \E r \in Riders : ClearRead(r)
  <2> PICK r \in Riders : ClearRead(r)
    BY <1>28
  <2>1. AsRead(r) \in Clears
    BY <1>0 DEF ClearRead, AsRead, Clears, StandingOK, Standings
  <2>2. CallSetsOK'
    BY <1>0, <2>1 DEF ClearRead, CallSetsOK
  <2>3. QED
    BY <2>2, ReadParts DEF ClearRead
<1>29. CASE \E q \in clears : ClearCommit(q)
  <2> PICK q \in clears : ClearCommit(q)
    BY <1>29
  <2>1. ClearsHold(q)
    BY DEF ClearCommit, ClearLands, ClearsHold
  <2>2. StandingStep
    BY <2>1 DEF StandingStep
  <2>3. CallSetsOK'
    BY FewerCalls DEF ClearCommit
  <2>4. QED
    BY <2>2, <2>3, RiderParts DEF ClearCommit
<1>30. CASE \E q \in clears : ClearRefused(q)
  BY <1>0, <1>30, ReadParts DEF ClearRefused, CallSetsOK
<1>31. CASE \E r \in Riders : GoOnline(r)
  <2> PICK r \in Riders : GoOnline(r)
    BY <1>31
  <2> DEFINE st == [standing[r] EXCEPT !.online = TRUE]
  <2>1. standing[r] \in Standings
    BY <1>0 DEF StandingOK
  <2>2. Keeps(standing[r], st)
    BY <2>1 DEF GoOnline, MayGoOnline, Keeps, Fit, Standings
  <2>3. standing' = [standing EXCEPT ![r] = st]
    BY DEF GoOnline
  <2> HIDE DEF st
  <2>4. StandingStep
    BY <2>2, <2>3, KeepsStep
  <2>5. CallSetsOK'
    BY <1>0 DEF GoOnline, CallSetsOK, calls
  <2>6. QED
    BY <2>4, <2>5, RiderParts DEF GoOnline
<1>32. CASE \E r \in Riders : GoOffline(r)
  <2> PICK r \in Riders : GoOffline(r)
    BY <1>32
  <2> DEFINE st == [standing[r] EXCEPT !.online = FALSE]
  <2>1. standing[r] \in Standings
    BY <1>0 DEF StandingOK
  <2>2. Keeps(standing[r], st)
    BY <2>1 DEF Keeps, Fit, Standings
  <2>3. standing' = [standing EXCEPT ![r] = st]
    BY DEF GoOffline
  <2> HIDE DEF st
  <2>4. StandingStep
    BY <2>2, <2>3, KeepsStep
  <2>5. CallSetsOK'
    BY <1>0 DEF GoOffline, CallSetsOK, calls
  <2>6. QED
    BY <2>4, <2>5, RiderParts DEF GoOffline
<1>33. CASE \E r \in Riders : CooldownEnds(r)
  <2> PICK r \in Riders : CooldownEnds(r)
    BY <1>33
  <2> DEFINE st == [standing[r] EXCEPT !.cooling = FALSE]
  <2>1. standing[r] \in Standings
    BY <1>0 DEF StandingOK
  <2>2. Keeps(standing[r], st)
    BY <2>1 DEF Keeps, Fit, Standings
  <2>3. standing' = [standing EXCEPT ![r] = st]
    BY DEF CooldownEnds
  <2> HIDE DEF st
  <2>4. StandingStep
    BY <2>2, <2>3, KeepsStep
  <2>5. CallSetsOK'
    BY <1>0 DEF CooldownEnds, CallSetsOK, calls
  <2>6. QED
    BY <2>4, <2>5, RiderParts DEF CooldownEnds
<1>34. CASE \E susp \in Suspensions, pct \in RatePcts : Redeploy(susp, pct)
  <2>1. suspended' \in BOOLEAN /\ rate' \in 0..100
    BY <1>34, TripAssumption DEF Redeploy
  <2>2. CallsOK' /\ ParentsOK'
    BY <1>0, <1>34, <2>1 DEF Redeploy, CallsOK, ParentsOK, orderRows, calls
  <2>3. OrderStep /\ StandingStep
    BY <1>34 DEF Redeploy, OrderStep, StandingStep, orderRows, riderRows, money
  <2>4. QED
    BY <2>2, <2>3 DEF Parts
<1>35. QED
  BY <1>1, <1>2, <1>3, <1>4, <1>5, <1>6, <1>7, <1>8, <1>9, <1>10, <1>11, <1>12, <1>13,
     <1>14, <1>15, <1>16, <1>17, <1>18, <1>19, <1>20, <1>21, <1>22, <1>23, <1>24, <1>25,
     <1>26, <1>27, <1>28, <1>29, <1>30, <1>31, <1>32, <1>33, <1>34 DEF Next

-----------------------------------------------------------------------------
(***************************************************************************)
(* The invariant is kept                                                   *)
(***************************************************************************)
RowInv == RowsOK /\ OrderFacts /\ BillMatchesFare /\ RatingReplacesCredit

\* A change of status that bills nobody, and does not touch a completed order.
LEMMA StatusOnly ==
  ASSUME RowInv, UNCHANGED money, status' \in [Orders -> Statuses],
         \A o \in Orders : status[o] = "completed" <=> status'[o] = "completed",
         \A o \in Orders : status'[o] \in Ridden => status[o] \in Ridden
  PROVE  RowInv'
BY DEF RowInv, RowsOK, OrderFacts, BillMatchesFare, RatingReplacesCredit, money

\* Every move of an order keeps its rows, its bill and its credit in order.
LEMMA OrderStepKeeps == RowInv /\ rate \in 0..100 /\ OrderStep => RowInv'
<1> SUFFICES ASSUME RowInv, rate \in 0..100, OrderStep PROVE RowInv'
  OBVIOUS
<1>0. RowsOK /\ OrderFacts /\ BillMatchesFare /\ RatingReplacesCredit
  BY DEF RowInv
<1>1. CASE UNCHANGED <<status, money>>
  BY <1>0, <1>1, StatusOnly DEF RowsOK
<1>2. CASE \E o \in Orders, to \in Statuses : Moves(o, to)
  <2> PICK o \in Orders, to \in Statuses : Moves(o, to)
    BY <1>2
  <2>1. /\ status[o] # "completed" /\ to # "completed"
        /\ to \in Ridden => status[o] \in Ridden
    BY DEF Moves, MoveEdges, Forward, PostPickup, CustomerCancellable, Active, Ridden
  <2>2. status' = [status EXCEPT ![o] = to] /\ UNCHANGED money
    BY DEF Moves
  <2>3. QED
    BY <1>0, <2>1, <2>2, StatusOnly DEF RowsOK
<1>3. CASE \E o, clone \in Orders : Bails(o, clone)
  <2> PICK o \in Orders, clone \in Orders : Bails(o, clone)
    BY <1>3
  <2>1. /\ status[o] \notin {"completed", "none"} /\ status[clone] = "none"
        /\ status' = [status EXCEPT ![o] = "cancelled", ![clone] = "open_for_offers"]
        /\ UNCHANGED money
    BY DEF Bails, RiderCancellable
  <2>2. status' \in [Orders -> Statuses]
    BY <1>0, <2>1 DEF RowsOK, Statuses
  <2>3. /\ \A p \in Orders : status[p] = "completed" <=> status'[p] = "completed"
        /\ \A p \in Orders : status'[p] \in Ridden => status[p] \in Ridden
    BY <1>0, <2>1 DEF RowsOK, Ridden, Active
  <2>4. QED
    BY <2>1, <2>2, <2>3, StatusOnly
<1>4. CASE \E o \in Orders, r \in Riders, f \in Fares : Taken(o, r, f)
  <2> PICK o \in Orders, r \in Riders, f \in Fares : Taken(o, r, f)
    BY <1>4
  <2>1. /\ status[o] = "open_for_offers"
        /\ status' = [status EXCEPT ![o] = "assigned"]
        /\ rider' = [rider EXCEPT ![o] = r] /\ fare' = [fare EXCEPT ![o] = f]
        /\ UNCHANGED <<rated, credit, bill, trips>>
    BY DEF Taken
  <2>2. RowsOK'
    BY <1>0, <2>1 DEF RowsOK, Statuses
  <2>3. OrderFacts'
    BY <1>0, <2>1 DEF RowsOK, OrderFacts
  <2>4. bill[o].kind # "ride_commission"
    BY <1>0, <2>1 DEF BillMatchesFare
  <2>5. BillMatchesFare' /\ RatingReplacesCredit'
    BY <1>0, <2>1, <2>4 DEF RowsOK, BillMatchesFare, RatingReplacesCredit
  <2>6. QED
    BY <2>2, <2>3, <2>5 DEF RowInv
<1>5. CASE \E o \in Orders : Completes(o)
  <2> PICK o \in Orders : Completes(o)
    BY <1>5
  <2> DEFINE due == Charge(JobOrdinal(rider[o]), fare[o], rate)
  <2>1. /\ status[o] \in {"delivered", "undelivered"}
        /\ status' = [status EXCEPT ![o] = "completed"]
        /\ trips' = [trips EXCEPT ![rider[o]] = @ + 1]
        /\ bill' = [bill EXCEPT ![o] = due]
        /\ UNCHANGED <<rider, fare>>
    BY DEF Completes
  <2>2. rider[o] \in Riders /\ fare[o] \in Fares /\ rated[o] = FALSE
    BY <1>0, <2>1 DEF RowsOK, OrderFacts, Ridden
  <2>3. fare[o] \in Nat /\ rate \in Nat
    BY <2>2, FareIsNat
  <2>4. /\ due \in Bills
        /\ due.kind = "ride_commission" =>
             due.rate = rate /\ due.amount = CommissionOn(fare[o], rate)
    BY <2>3, ChargeType
  <2> HIDE DEF due
  <2>5. credit[o] = NoCredit
    BY <1>0, <2>1 DEF RatingReplacesCredit
  <2>6. /\ rated' \in [Orders -> BOOLEAN] /\ credit' \in [Orders -> Nat \cup {NoCredit}]
        /\ \A p \in Orders : p # o => rated'[p] = rated[p] /\ credit'[p] = credit[p]
        /\ credit'[o] # NoCredit => ~rated'[o]
    BY <1>0, <2>2, <2>5 DEF Completes, RowsOK
  <2>7. RowsOK'
    <3>1. status' \in [Orders -> Statuses] /\ bill' \in [Orders -> Bills]
      BY <1>0, <2>1, <2>4 DEF RowsOK, Statuses
    <3>2. trips' \in [Riders -> Nat]
      BY <1>0, <2>1, <2>2 DEF RowsOK
    <3>3. QED
      BY <1>0, <2>1, <2>6, <3>1, <3>2 DEF RowsOK
  <2>8. OrderFacts'
    BY <1>0, <2>1, <2>2, <2>6 DEF RowsOK, OrderFacts
  <2>9. BillMatchesFare'
    BY <1>0, <2>1, <2>4 DEF RowsOK, BillMatchesFare
  <2>10. RatingReplacesCredit'
    BY <1>0, <2>1, <2>6 DEF RowsOK, RatingReplacesCredit
  <2>11. QED
    BY <2>7, <2>8, <2>9, <2>10 DEF RowInv
<1>6. CASE \E o \in Orders : RatedLate(o)
  BY <1>0, <1>6 DEF RatedLate, RowInv, RowsOK, OrderFacts, BillMatchesFare, RatingReplacesCredit
<1>7. CASE \E o \in Orders, f \in Fares : Corrected(o, f)
  <2> PICK o \in Orders, f \in Fares : Corrected(o, f)
    BY <1>7
  <2>1. /\ fare' = [fare EXCEPT ![o] = f]
        /\ UNCHANGED <<status, rider, rated, credit, trips>>
    BY DEF Corrected
  <2>2. fare[o] \in Nat /\ f \in Nat /\ bill[o] \in Bills
    BY <1>0, FareIsNat DEF RowsOK, NoFare
  <2>3. CASE status[o] = "completed" /\ bill[o].kind = "ride_commission"
    <3> DEFINE p == bill[o].rate
    <3>1. bill' = [bill EXCEPT ![o].amount = @ + Correction(fare[o], f, p)]
      BY <2>3 DEF Corrected
    <3>2. bill[o].amount = CommissionOn(fare[o], p)
      BY <1>0, <2>3 DEF BillMatchesFare
    <3>3. p \in Nat
      BY <2>2 DEF Bills
    <3>4. CommissionOn(fare[o], p) \in Nat /\ CommissionOn(f, p) \in Nat
      BY <2>2, <3>3, CommissionIsNat
    <3>5. bill[o].amount + Correction(fare[o], f, p) = CommissionOn(f, p)
      BY <3>2, <3>4 DEF Correction
    <3>6. bill' = [bill EXCEPT ![o] = [bill[o] EXCEPT !.amount = CommissionOn(f, p)]]
      BY <1>0, <3>1, <3>5 DEF RowsOK
    <3> DEFINE new == [bill[o] EXCEPT !.amount = CommissionOn(f, p)]
    <3>7. /\ new \in Bills /\ new.kind = bill[o].kind /\ new.rate = p
          /\ new.amount = CommissionOn(f, p)
      BY <2>2, <3>4 DEF Bills
    <3> HIDE DEF new, p
    <3>8. RowsOK'
      BY <1>0, <2>1, <3>6, <3>7 DEF RowsOK, new
    <3>9. OrderFacts'
      BY <1>0, <2>1, <2>3, <3>6, <3>7 DEF RowsOK, OrderFacts, new
    <3>10. BillMatchesFare'
      BY <1>0, <2>1, <2>3, <3>6, <3>7 DEF RowsOK, BillMatchesFare, new
    <3>11. RatingReplacesCredit'
      BY <1>0, <2>1 DEF RatingReplacesCredit
    <3>12. QED
      BY <3>8, <3>9, <3>10, <3>11 DEF RowInv
  <2>4. CASE ~(status[o] = "completed" /\ bill[o].kind = "ride_commission")
    <3>1. bill' = bill
      BY <2>4 DEF Corrected
    <3>2. bill[o].kind # "ride_commission"
      BY <1>0, <2>4 DEF BillMatchesFare
    <3>3. RowsOK' /\ OrderFacts' /\ RatingReplacesCredit'
      BY <1>0, <2>1, <3>1 DEF RowsOK, OrderFacts, RatingReplacesCredit
    <3>4. BillMatchesFare'
      BY <1>0, <2>1, <3>1, <3>2 DEF RowsOK, BillMatchesFare
    <3>5. QED
      BY <3>3, <3>4 DEF RowInv
  <2>5. QED
    BY <2>3, <2>4
<1>8. QED
  BY <1>1, <1>2, <1>3, <1>4, <1>5, <1>6, <1>7 DEF OrderStep

\* What a clear-hold leaves is a standing.
LEMMA ClearedStanding ==
  ASSUME NEW st \in Standings
  PROVE  [st EXCEPT !.account = "active", !.hold = "none",
                    !.score = IF @ < ClearAt THEN ClearAt ELSE @] \in Standings
<1> DEFINE score == IF st.score < ClearAt THEN ClearAt ELSE st.score
<1>1. score \in 0..MaxScore
  BY ReliabilityAssumption DEF Standings
<1> HIDE DEF score
<1>2. [st EXCEPT !.account = "active", !.hold = "none", !.score = score] \in Standings
  BY <1>1 DEF Standings, Holds, Accounts
<1>3. QED
  BY <1>2 DEF score, Standings

\* The rider of a clear-hold is a rider.
LEMMA ClearsRider ==
  ASSUME CallsOK, NEW q, ClearsHold(q)
  PROVE  q.rider \in Riders /\ q.account \in {"active", "suspended"}
BY DEF CallsOK, ClearsHold, Clears

\* Every move of a rider row leaves a standing.
LEMMA StandingStepKeeps == StandingOK /\ CallsOK /\ StandingStep => StandingOK'
<1> SUFFICES ASSUME StandingOK, CallsOK, StandingStep PROVE StandingOK'
  OBVIOUS
<1>1. CASE standing' = standing
  BY <1>1 DEF StandingOK
<1>2. CASE \E r \in Riders, st \in Standings :
             Keeps(standing[r], st) /\ standing' = [standing EXCEPT ![r] = st]
  BY <1>2 DEF StandingOK
<1>3. CASE \E q \in clears : ClearsHold(q)
  <2> PICK q \in clears : ClearsHold(q)
    BY <1>3
  <2> DEFINE r == q.rider
             st == [standing[r] EXCEPT !.account = "active", !.hold = "none",
                      !.score = IF @ < ClearAt THEN ClearAt ELSE @]
  <2>1. r \in Riders
    BY ClearsRider
  <2>2. standing' = [standing EXCEPT ![r] = st]
    BY <2>1 DEF ClearsHold, StandingOK
  <2>3. st \in Standings
    BY <2>1, ClearedStanding DEF StandingOK
  <2> HIDE DEF st
  <2>4. QED
    BY <2>2, <2>3 DEF StandingOK
<1>4. QED
  BY <1>1, <1>2, <1>3 DEF StandingStep

\* An empty database satisfies the invariant.
LEMMA InitIInv == Init => IInv
<1> SUFFICES ASSUME Init PROVE IInv
  OBVIOUS
<1>1. Fresh \in Standings
  BY ReliabilityAssumption DEF Fresh, Standings, Holds, Accounts
<1>2. StandingOK
  BY <1>1 DEF Init, StandingOK
<1>3. RowsOK
  BY DEF Init, RowsOK, Statuses, Bills, NoBill
<1>4. CallsOK /\ ParentsOK
  BY TripAssumption DEF Init, CallsOK, ParentsOK
<1>5. OrderFacts /\ BillMatchesFare /\ RatingReplacesCredit
  BY DEF Init, OrderFacts, BillMatchesFare, RatingReplacesCredit, NoBill, NoCredit, Ridden, Active
<1>6. QED
  BY <1>2, <1>3, <1>4, <1>5, TypeParts DEF IInv

\* Every step keeps it.
LEMMA NextIInv == IInv /\ [Next]_vars => IInv'
<1> SUFFICES ASSUME IInv, [Next]_vars PROVE IInv'
  OBVIOUS
<1>0. RowInv /\ StandingOK /\ CallsOK /\ rate \in 0..100
  BY TypeParts DEF IInv, RowInv, CallsOK
<1>1. CASE Next
  <2>1. OrderStep /\ StandingStep /\ CallsOK' /\ ParentsOK'
    BY <1>1, StepParts DEF Parts
  <2>2. RowInv' /\ StandingOK'
    BY <1>0, <2>1, OrderStepKeeps, StandingStepKeeps
  <2>3. TypeOK'
    BY <2>1, <2>2, TypeParts DEF RowInv, TypeOK, RowsOK, ParentsOK, StandingOK, CallsOK
  <2>4. (suspended \in Suspensions)'
    BY <2>1 DEF CallsOK
  <2>5. QED
    BY <2>2, <2>3, <2>4 DEF IInv, RowInv
<1>2. CASE UNCHANGED vars
  BY <1>2 DEF vars, orderRows, riderRows, policy, calls, IInv, TypeOK, OrderFacts,
              BillMatchesFare, RatingReplacesCredit
<1>3. QED
  BY <1>1, <1>2

\* The inductive invariant holds in every behaviour.
LEMMA Invariance == Spec => []IInv
<1>1. QED
  BY InitIInv, NextIInv, PTL DEF Spec

-----------------------------------------------------------------------------
(***************************************************************************)
(* The theorems                                                            *)
(***************************************************************************)
\* Every row, call and setting keeps the shape the schema and the handlers give
\* it; no trip drives a score out of its range, and no fare correction takes a
\* commission below zero (applyReliabilityDelta, adjustFare).
THEOREM TypeCorrect == Spec => []TypeOK
<1>1. IInv => TypeOK
  BY DEF IInv
<1>2. QED
  BY <1>1, Invariance, PTL

\* A ride's commission, corrections included, is to the cent that of its present
\* fare at the rate it was charged at, however corrections race the rating, the
\* auto-close or the verdict that completes it.
THEOREM BillFits == Spec => []BillMatchesFare
<1>1. IInv => BillMatchesFare
  BY DEF IInv
<1>2. QED
  BY <1>1, Invariance, PTL

\* A rating takes the place of the auto-close's credit, whichever comes first.
THEOREM CreditReplaced == Spec => []RatingReplacesCredit
<1>1. IInv => RatingReplacesCredit
  BY DEF IInv
<1>2. QED
  BY <1>1, Invariance, PTL

\* No lift and no clear-hold, whenever it was decided, undoes a ban.
THEOREM BanStays == Spec => BanIsFinal
<1>1. IInv /\ [Next]_vars =>
        [\A r \in Riders : standing[r].account = "banned" => standing'[r].account = "banned"]_vars
  <2> SUFFICES ASSUME IInv, Next, NEW r \in Riders, standing[r].account = "banned"
               PROVE  standing'[r].account = "banned"
    BY DEF vars
  <2>0. StandingOK /\ CallsOK /\ StandingStep
    BY StepParts, TypeParts DEF IInv, Parts
  <2>1. CASE standing' = standing
    BY <2>1
  <2>2. CASE \E s \in Riders, st \in Standings :
               Keeps(standing[s], st) /\ standing' = [standing EXCEPT ![s] = st]
    BY <2>0, <2>2 DEF Keeps, StandingOK
  <2>3. CASE \E q \in clears : ClearsHold(q)
    <3> PICK q \in clears : ClearsHold(q)
      BY <2>3
    <3>1. q.account # "banned" /\ standing[q.rider].account = q.account
      BY <2>0, ClearsRider DEF ClearsHold
    <3>2. QED
      BY <2>0, <3>1 DEF ClearsHold, StandingOK
  <2>4. QED
    BY <2>0, <2>1, <2>2, <2>3 DEF StandingStep
<1>2. QED
  BY <1>1, Invariance, PTL DEF Spec, BanIsFinal

\* A fraud hold ends only by a clear-hold or a lift that was asked for that
\* rider: no completion, rating, penalty or strike lifts or downgrades it.
THEOREM FraudHoldStays == Spec => VelocityHoldSticks
<1> DEFINE Sticks ==
      \A r \in Riders :
        standing[r].hold = "velocity" /\ standing'[r].hold # "velocity" =>
          standing'[r].hold = "none" /\ \E q \in clears \ clears' : q.rider = r
<1>1. IInv /\ [Next]_vars => [Sticks]_vars
  <2> SUFFICES ASSUME IInv, Next, NEW r \in Riders,
                      standing[r].hold = "velocity", standing'[r].hold # "velocity"
               PROVE  standing'[r].hold = "none" /\ \E q \in clears \ clears' : q.rider = r
    BY DEF vars
  <2>0. StandingOK /\ CallsOK /\ StandingStep
    BY StepParts, TypeParts DEF IInv, Parts
  <2>1. CASE standing' = standing
    BY <2>1
  <2>2. CASE \E s \in Riders, st \in Standings :
               Keeps(standing[s], st) /\ standing' = [standing EXCEPT ![s] = st]
    BY <2>0, <2>2 DEF Keeps, StandingOK
  <2>3. CASE \E q \in clears : ClearsHold(q)
    <3> PICK q \in clears : ClearsHold(q)
      BY <2>3
    <3>1. q \in clears \ clears'
      BY DEF ClearsHold
    <3>2. q.rider = r /\ standing'[r].hold = "none"
      BY <2>0 DEF ClearsHold, StandingOK, Standings
    <3>3. QED
      BY <3>1, <3>2
  <2>4. QED
    BY <2>0, <2>1, <2>2, <2>3 DEF StandingStep
<1>2. QED
  BY <1>1, Invariance, PTL DEF Spec, VelocityHoldSticks

\* While penalties apply (PENALTIES_SUSPENDED is off for good), every rider row
\* is fit: a rider who may not ride is offline and a low score is held.
AllFit == ~suspended /\ \A r \in Riders : Fit(standing[r])

\* It starts so, and every handler keeps it so.
LEMMA FitInvariance ==
  ASSUME Suspensions = {FALSE}
  PROVE  Spec => []AllFit
<1>1. Init => AllFit
  BY ReliabilityAssumption DEF Init, AllFit, Fit, Fresh
<1>2. IInv /\ AllFit /\ [Next]_vars => AllFit'
  <2> SUFFICES ASSUME IInv, AllFit, [Next]_vars PROVE AllFit'
    OBVIOUS
  <2>1. CASE UNCHANGED vars
    BY <2>1 DEF vars, riderRows, policy, AllFit, Fit
  <2>2. CASE Next
    <3>0. StandingOK /\ CallsOK /\ StandingStep
      BY <2>2, StepParts, TypeParts DEF IInv, Parts
    <3>1. suspended' = FALSE
      BY <2>2, StepParts DEF Parts, CallsOK
    <3>2. \A r \in Riders : Fit(standing[r]) /\ standing[r] \in Standings
      BY <3>0 DEF AllFit, StandingOK
    <3>3. CASE standing' = standing
      BY <3>1, <3>2, <3>3 DEF AllFit
    <3>4. CASE \E r \in Riders, st \in Standings :
                 Keeps(standing[r], st) /\ standing' = [standing EXCEPT ![r] = st]
      <4> PICK r \in Riders, st \in Standings :
                 Keeps(standing[r], st) /\ standing' = [standing EXCEPT ![r] = st]
        BY <3>4
      <4>1. Fit(st)
        BY <3>2 DEF Keeps, AllFit
      <4>2. \A s \in Riders : standing'[s] = IF s = r THEN st ELSE standing[s]
        BY <3>0 DEF StandingOK
      <4>3. \A s \in Riders : Fit(standing'[s])
        BY <3>2, <4>1, <4>2
      <4>4. QED
        BY <3>1, <4>3 DEF AllFit
    <3>5. CASE \E q \in clears : ClearsHold(q)
      <4> PICK q \in clears : ClearsHold(q)
        BY <3>5
      <4> DEFINE r == q.rider
                 st == [standing[r] EXCEPT !.account = "active", !.hold = "none",
                          !.score = IF @ < ClearAt THEN ClearAt ELSE @]
      <4>1. r \in Riders
        BY <3>0, ClearsRider
      <4>2. \A s \in Riders : standing'[s] = IF s = r THEN st ELSE standing[s]
        BY <3>0, <4>1 DEF ClearsHold, StandingOK
      <4>3. Fit(st)
        BY <3>2, <4>1, ReliabilityAssumption DEF Fit, Standings
      <4> HIDE DEF st
      <4>4. \A s \in Riders : Fit(standing'[s])
        BY <3>2, <4>2, <4>3
      <4>5. QED
        BY <3>1, <4>4 DEF AllFit
    <3>6. QED
      BY <3>0, <3>3, <3>4, <3>5 DEF StandingStep
  <2>3. QED
    BY <2>1, <2>2
<1>3. QED
  BY <1>1, <1>2, Invariance, PTL DEF Spec

\* While penalties apply, a rider on hold or on cooldown, suspended or banned is
\* never online, whichever handler put them there and whatever raced it.
THEOREM HeldOffline ==
  ASSUME Suspensions = {FALSE}
  PROVE  Spec => []HeldRidersOffline
<1>1. AllFit => HeldRidersOffline
  BY DEF AllFit, Fit, HeldRidersOffline
<1>2. QED
  BY <1>1, FitInvariance, PTL

\* While penalties apply, a score below the threshold has its hold, after any
\* series of trips, ratings, verdicts and clear-holds.
THEOREM LowHeld ==
  ASSUME Suspensions = {FALSE}
  PROVE  Spec => []LowScoreHeld
<1>1. AllFit => LowScoreHeld
  BY DEF AllFit, Fit, LowScoreHeld
<1>2. QED
  BY <1>1, FitInvariance, PTL

-----------------------------------------------------------------------------
(***************************************************************************)
(* Free jobs: the jobs of a rider, counted                                 *)
(***************************************************************************)
Done(r) == Of(r, "completed")
Free(r) == Billed(r, "free_job")
Paid(r) == Billed(r, "ride_commission")

\* Who has no new job keeps the count.
LEMMA NoJobCounts ==
  ASSUME IInv, NEW r \in Riders, UNCHANGED trips,
         \A o \in Orders : status[o] = "completed" <=> status'[o] = "completed",
         \A o \in Orders : status[o] = "completed" => rider'[o] = rider[o],
         \A o \in Orders : bill'[o].kind = bill[o].kind
  PROVE  Done(r)' = Done(r) /\ Free(r)' = Free(r) /\ Paid(r)' = Paid(r)
<1>1. \A o \in Orders : bill[o].kind # "none" => status[o] = "completed"
  BY DEF IInv, OrderFacts
<1>2. \A o \in Orders : status'[o] = "completed" => rider'[o] = rider[o]
  OBVIOUS
<1>3. \A o \in Orders : bill[o].kind # "none" => rider'[o] = rider[o]
  BY <1>1
<1>4. Done(r)' = Done(r)
  BY <1>2 DEF Done, Of
<1>5. Free(r)' = Free(r) /\ Paid(r)' = Paid(r)
  BY <1>3 DEF Free, Paid, Billed
<1>6. QED
  BY <1>4, <1>5

\* A step that completes no order counts for nobody.
LEMMA OtherMoves ==
  ASSUME IInv, OrderStep, ~ \E o \in Orders : Completes(o), NEW r \in Riders
  PROVE  trips' = trips /\ Done(r)' = Done(r) /\ Free(r)' = Free(r) /\ Paid(r)' = Paid(r)
<1> DEFINE Quiet ==
      /\ UNCHANGED trips
      /\ \A o \in Orders : status[o] = "completed" <=> status'[o] = "completed"
      /\ \A o \in Orders : status[o] = "completed" => rider'[o] = rider[o]
      /\ \A o \in Orders : bill'[o].kind = bill[o].kind
<1> SUFFICES Quiet
  BY NoJobCounts
<1>0. RowsOK
  BY TypeParts DEF IInv
<1>1. CASE UNCHANGED <<status, money>>
  BY <1>1 DEF money
<1>2. CASE \E o \in Orders, to \in Statuses : Moves(o, to)
  <2> PICK o \in Orders, to \in Statuses : Moves(o, to)
    BY <1>2
  <2>1. status[o] # "completed" /\ to # "completed"
    BY DEF Moves, MoveEdges, Forward, PostPickup, CustomerCancellable, Active
  <2>2. QED
    BY <1>0, <2>1 DEF Moves, money, RowsOK
<1>3. CASE \E o, clone \in Orders : Bails(o, clone)
  <2> PICK o \in Orders, clone \in Orders : Bails(o, clone)
    BY <1>3
  <2>1. status[o] # "completed" /\ status[clone] # "completed"
    BY DEF Bails, RiderCancellable
  <2>2. QED
    BY <1>0, <2>1 DEF Bails, money, RowsOK
<1>4. CASE \E o \in Orders, s \in Riders, f \in Fares : Taken(o, s, f)
  BY <1>0, <1>4 DEF Taken, RowsOK
<1>5. CASE \E o \in Orders : RatedLate(o)
  BY <1>5 DEF RatedLate
<1>6. CASE \E o \in Orders, f \in Fares : Corrected(o, f)
  <2> PICK o \in Orders, f \in Fares : Corrected(o, f)
    BY <1>6
  <2>1. \A p \in Orders : bill'[p].kind = bill[p].kind
    BY <1>0 DEF Corrected, RowsOK, Bills
  <2>2. QED
    BY <2>1 DEF Corrected
<1>7. QED
  BY <1>1, <1>2, <1>3, <1>4, <1>5, <1>6 DEF OrderStep

\* A completion is one more job of its rider, and one more bill of its kind.
LEMMA CompletesCounts ==
  ASSUME IInv, NEW o \in Orders, Completes(o), NEW r \in Riders,
         NEW kind, kind = Charge(JobOrdinal(rider[o]), fare[o], rate).kind
  PROVE  /\ rider[o] \in Riders /\ o \notin Done(r) \cup Free(r) \cup Paid(r)
         /\ trips'[r] = IF r = rider[o] THEN trips[r] + 1 ELSE trips[r]
         /\ Done(r)' = IF r = rider[o] THEN Done(r) \cup {o} ELSE Done(r)
         /\ Free(r)' = IF r = rider[o] /\ kind = "free_job" THEN Free(r) \cup {o} ELSE Free(r)
         /\ Paid(r)' = IF r = rider[o] /\ kind = "ride_commission" THEN Paid(r) \cup {o}
                       ELSE Paid(r)
<1> DEFINE due == Charge(JobOrdinal(rider[o]), fare[o], rate)
<1>1. /\ status[o] \in {"delivered", "undelivered"}
      /\ status' = [status EXCEPT ![o] = "completed"]
      /\ trips' = [trips EXCEPT ![rider[o]] = @ + 1]
      /\ bill' = [bill EXCEPT ![o] = due]
      /\ rider' = rider /\ kind = due.kind
  BY DEF Completes
<1> HIDE DEF due
<1>2. RowsOK /\ rider[o] \in Riders /\ bill[o].kind = "none"
  BY <1>1, TypeParts DEF IInv, OrderFacts, Ridden, RowsOK, Bills
<1>3. o \notin Done(r) \cup Free(r) \cup Paid(r)
  BY <1>1, <1>2 DEF Done, Free, Paid, Of, Billed
<1>4. trips'[r] = IF r = rider[o] THEN trips[r] + 1 ELSE trips[r]
  BY <1>1, <1>2 DEF RowsOK
<1>5. \A p \in Orders : /\ status'[p] = IF p = o THEN "completed" ELSE status[p]
                        /\ bill'[p] = IF p = o THEN due ELSE bill[p]
  BY <1>1, <1>2 DEF RowsOK
<1>6. Done(r)' = IF r = rider[o] THEN Done(r) \cup {o} ELSE Done(r)
  BY <1>1, <1>2, <1>5 DEF Done, Of
<1>7. Free(r)' = IF r = rider[o] /\ kind = "free_job" THEN Free(r) \cup {o} ELSE Free(r)
  BY <1>1, <1>2, <1>5 DEF Free, Billed
<1>8. Paid(r)' = IF r = rider[o] /\ kind = "ride_commission" THEN Paid(r) \cup {o} ELSE Paid(r)
  BY <1>1, <1>2, <1>5 DEF Paid, Billed
<1>9. QED
  BY <1>2, <1>3, <1>4, <1>6, <1>7, <1>8

\* A job is free or not by its ordinal.
LEMMA KindByOrdinal ==
  ASSUME NEW n \in Nat, NEW f \in Nat, NEW p \in Nat
  PROVE  /\ Charge(n, f, p).kind = "free_job" => n <= FreeJobs
         /\ Charge(n, f, p).kind = "ride_commission" => n = 0 \/ FreeJobs < n
<1> DEFINE c == CommissionOn(f, p)
<1>1. c \in Nat /\ FreeJobs \in Nat
  BY CommissionIsNat, CommissionAssumption
<1> HIDE DEF c
<1>2. Charge(n, f, p) = IF c = 0 THEN NoBill
         ELSE IF IsFreeJob(n) THEN [kind |-> "free_job", rate |-> p, amount |-> 0]
         ELSE [kind |-> "ride_commission", rate |-> p, amount |-> c]
  BY DEF Charge, c
<1>3. QED
  BY <1>1, <1>2 DEF IsFreeJob, NoBill

\* A rider pays nothing for the first FreeJobs completions and is given no
\* more than that, whichever way completes each job (chargeCommission counts the
\* rider's trips after its own increment). The rows are finitely many.
THEOREM FreeJobsCounted ==
  ASSUME IsFiniteSet(Orders)
  PROVE  Spec => []FreeJobsHonoured
<1>0. FreeJobs \in Nat
  BY CommissionAssumption
<1>1. Init => FreeJobsHonoured
  <2> SUFFICES ASSUME Init, NEW r \in Riders
               PROVE  Of(r, "completed") = {} /\ Billed(r, "free_job") = {}
                      /\ Billed(r, "ride_commission") = {} /\ trips[r] = 0
    BY <1>0, FS_EmptySet DEF FreeJobsHonoured
  <2>1. QED
    BY DEF Init, Of, Billed, NoBill
<1>2. IInv /\ FreeJobsHonoured /\ [Next]_vars => FreeJobsHonoured'
  <2> SUFFICES ASSUME IInv, FreeJobsHonoured, [Next]_vars PROVE FreeJobsHonoured'
    OBVIOUS
  <2>1. CASE UNCHANGED vars
    BY <2>1 DEF vars, orderRows, riderRows, FreeJobsHonoured, Of, Billed
  <2>2. CASE Next
    <3>0. OrderStep /\ RowsOK /\ rate \in Nat
      BY <2>2, StepParts, TypeParts DEF IInv, Parts, CallsOK
    <3>1. CASE ~ \E o \in Orders : Completes(o)
      <4>1. \A r \in Riders :
              trips' = trips /\ Done(r)' = Done(r) /\ Free(r)' = Free(r) /\ Paid(r)' = Paid(r)
        BY <3>0, <3>1, OtherMoves
      <4>2. QED
        BY <4>1 DEF FreeJobsHonoured, Done, Free, Paid
    <3>2. CASE \E o \in Orders : Completes(o)
      <4> PICK o \in Orders : Completes(o)
        BY <3>2
      <4> DEFINE kind == Charge(JobOrdinal(rider[o]), fare[o], rate).kind
      <4>1. SUFFICES ASSUME NEW r \in Riders
                     PROVE  /\ trips'[r] = Cardinality(Done(r)')
                            /\ Cardinality(Free(r)') <= FreeJobs
                            /\ Cardinality(Paid(r)') <=
                                 (IF trips'[r] < FreeJobs THEN 0 ELSE trips'[r] - FreeJobs)
        BY DEF FreeJobsHonoured, Done, Free, Paid
      <4>2. /\ trips[r] = Cardinality(Done(r)) /\ trips[r] \in Nat
            /\ Cardinality(Free(r)) <= FreeJobs
            /\ Cardinality(Paid(r)) <= (IF trips[r] < FreeJobs THEN 0 ELSE trips[r] - FreeJobs)
        BY <3>0 DEF FreeJobsHonoured, Done, Free, Paid, RowsOK
      <4>3. /\ rider[o] \in Riders /\ o \notin Done(r) /\ o \notin Free(r) /\ o \notin Paid(r)
            /\ trips'[r] = IF r = rider[o] THEN trips[r] + 1 ELSE trips[r]
            /\ Done(r)' = IF r = rider[o] THEN Done(r) \cup {o} ELSE Done(r)
            /\ Free(r)' = IF r = rider[o] /\ kind = "free_job" THEN Free(r) \cup {o} ELSE Free(r)
            /\ Paid(r)' = IF r = rider[o] /\ kind = "ride_commission" THEN Paid(r) \cup {o}
                          ELSE Paid(r)
        BY CompletesCounts
      <4>4. /\ IsFiniteSet(Done(r)) /\ IsFiniteSet(Free(r)) /\ IsFiniteSet(Paid(r))
            /\ Cardinality(Free(r)) \in Nat /\ Cardinality(Paid(r)) \in Nat
        <5>1. Done(r) \in SUBSET Orders /\ Free(r) \in SUBSET Orders /\ Paid(r) \in SUBSET Orders
          BY DEF Done, Free, Paid, Of, Billed
        <5>2. IsFiniteSet(Done(r)) /\ IsFiniteSet(Free(r)) /\ IsFiniteSet(Paid(r))
          BY <5>1, FS_Subset
        <5>3. QED
          BY <5>2, FS_CardinalityType
      <4>5. Cardinality(Free(r)) <= trips[r]
        <5>1. Free(r) \in SUBSET Done(r)
          BY DEF IInv, OrderFacts, Free, Done, Billed, Of
        <5>2. QED
          BY <4>2, <4>4, <5>1, FS_Subset
      <4>6. CASE r # rider[o]
        BY <4>2, <4>3, <4>6
      <4>7. CASE r = rider[o]
        <5>1. /\ Cardinality(Done(r) \cup {o}) = trips[r] + 1
              /\ Cardinality(Free(r) \cup {o}) = Cardinality(Free(r)) + 1
              /\ Cardinality(Paid(r) \cup {o}) = Cardinality(Paid(r)) + 1
          BY <4>2, <4>3, <4>4, FS_AddElement
        <5>2. fare[o] \in Nat /\ trips[r] + 1 \in Nat
          BY <3>0, <4>2, FareIsNat DEF RowsOK, NoFare
        <5>3. /\ kind = "free_job" => trips[r] + 1 <= FreeJobs
              /\ kind = "ride_commission" => FreeJobs < trips[r] + 1
          BY <3>0, <4>2, <4>7, <5>2, KindByOrdinal DEF JobOrdinal
        <5> HIDE DEF kind
        <5>4. CASE kind = "free_job"
          BY <1>0, <4>2, <4>3, <4>4, <4>5, <4>7, <5>1, <5>3, <5>4
        <5>5. CASE kind = "ride_commission"
          BY <1>0, <4>2, <4>3, <4>4, <4>7, <5>1, <5>3, <5>5
        <5>6. CASE kind \notin {"free_job", "ride_commission"}
          BY <1>0, <4>2, <4>3, <4>4, <4>7, <5>1, <5>6
        <5>7. QED
          BY <5>4, <5>5, <5>6
      <4>8. QED
        BY <4>6, <4>7
    <3>3. QED
      BY <3>1, <3>2
  <2>3. QED
    BY <2>1, <2>2
<1>3. QED
  BY <1>1, <1>2, Invariance, PTL DEF Spec

-----------------------------------------------------------------------------
(***************************************************************************)
(* The declared transition table                                           *)
(***************************************************************************)
\* Every move of an order is a row of the table, a console edge or a stutter.
LEMMA OrderStepInTable ==
  ASSUME OrderStep PROVE [Table!TableNext]_(Table!tableVars)
<1> DEFINE Edges == Table!Rows \cup ConsoleEdges
<1>1. CASE UNCHANGED <<status, money>>
  BY <1>1 DEF money, Table!tableVars
<1>2. CASE \E o \in Orders, to \in Statuses : Moves(o, to)
  <2> PICK o \in Orders, to \in Statuses : Moves(o, to)
    BY <1>2
  <2>1. CASE status[o] = "none"
    <3>1. to = "open_for_offers"
      BY <2>1 DEF Moves, MoveEdges, Forward, PostPickup, CustomerCancellable, Active
    <3>2. Table!Born(o)
      BY <2>1, <3>1 DEF Moves, money, Table!Born
    <3>3. QED
      BY <3>2 DEF Table!TableNext
  <2>2. CASE status[o] # "none"
    <3>1. <<status[o], to>> \in Edges
      BY <2>2 DEF Moves, MoveEdges, Forward, PostPickup, CustomerCancellable, Active,
                  Table!Rows, Table!RideStatuses, ConsoleEdges
    <3>2. Table!Moved(o, to)
      BY <3>1 DEF Moves, money, Table!Moved
    <3>3. to \in {edge[2] : edge \in Edges}
      BY <3>1
    <3>4. QED
      BY <3>2, <3>3 DEF Table!TableNext
  <2>3. QED
    BY <2>1, <2>2
<1>3. CASE \E o, clone \in Orders : Bails(o, clone)
  <2> PICK o \in Orders, clone \in Orders : Bails(o, clone)
    BY <1>3
  <2>1. Table!Bailed(o, clone)
    BY DEF Bails, money, RiderCancellable, Table!Bailed, Table!PrePickup
  <2>2. QED
    BY <2>1 DEF Table!TableNext
<1>4. CASE \E o \in Orders, r \in Riders, f \in Fares : Taken(o, r, f)
  <2> PICK o \in Orders, r \in Riders, f \in Fares : Taken(o, r, f)
    BY <1>4
  <2>1. Table!Selected(o, r)
    BY DEF Taken, OnJob, Active, Table!Selected, Table!RideStatuses
  <2>2. QED
    BY <2>1 DEF Table!TableNext
<1>5. CASE \E o \in Orders : Completes(o)
  <2> PICK o \in Orders : Completes(o)
    BY <1>5
  <2>1. <<status[o], "completed">> \in Edges
    BY DEF Completes, Table!Rows, ConsoleEdges
  <2>2. Table!Moved(o, "completed")
    BY <2>1 DEF Completes, Table!Moved
  <2>3. "completed" \in {edge[2] : edge \in Edges}
    BY <2>1
  <2>4. QED
    BY <2>2, <2>3 DEF Table!TableNext
<1>6. CASE \E o \in Orders : RatedLate(o)
  BY <1>6 DEF RatedLate, Table!tableVars
<1>7. CASE \E o \in Orders, f \in Fares : Corrected(o, f)
  BY <1>7 DEF Corrected, Table!tableVars
<1>8. QED
  BY <1>1, <1>2, <1>3, <1>4, <1>5, <1>6, <1>7 DEF OrderStep

\* The services move an order only along the declared transition table and the
\* console's edges; a bail and its re-broadcast are one step, and no pick gives
\* a rider a second ride.
THEOREM TableImplemented == Spec => ImplementsTable
<1>1. Init => Table!TableInit
  BY DEF Init, Table!TableInit
<1>2. IInv /\ [Next]_vars => [Table!TableNext]_(Table!tableVars)
  <2>1. CASE Next
    BY <2>1, StepParts, OrderStepInTable DEF Parts
  <2>2. CASE UNCHANGED vars
    BY <2>2 DEF vars, orderRows, Table!tableVars
  <2>3. QED
    BY <2>1, <2>2
<1>3. QED
  BY <1>1, <1>2, Invariance, PTL DEF Spec, ImplementsTable, Table!TableSpec
=============================================================================
