---------------------------- MODULE FleetProofs ----------------------------
(***************************************************************************)
(* What a booking of a fleet keeps to for any bikers, ticks, moments and   *)
(* scopes.                                                                 *)
(***************************************************************************)
EXTENDS Fleet, TLAPS

\* A status fits its rider, its tag and what it was reached from.
Placed ==
  /\ booking => status = "none"
  /\ status = "none" => ~tag /\ hold = "none" /\ until = 0 /\ check = 0
  /\ status \in {"none", "fleet_searching", "open_for_offers"} => rider = NoBiker
  /\ status \in {"assigned", "picked_up", "delivered", "completed", "undelivered"} => rider \in Bikers
  /\ status = "open_for_offers" => ~tag
  /\ status \in {"none", "fleet_searching", "open_for_offers", "assigned"} => ~collected
  /\ collected => rider \in Bikers

\* An answer was read from a round.
AnswersRead == \A r \in Bikers : answer[r].kind # "none" => answer[r].until \in Moments

\* A tick that found somebody has a round left.
RoundLeft ==
  \A w \in Tickers :
    tick[w].stage = "write" /\ tick[w].rung # {} => tick[w].attempt < scope.rounds

\* The steps by whose they are: a tick's, a biker's answer's, the booking's (the
\* business, the console and the sweeps), the ride's, and all the others.
TickSteps(w) == TickStart(w) \/ TickStep(w)

AnswerSteps(r) ==
  \/ AcceptStart(r) \/ AcceptCommit(r) \/ AcceptRefused(r)
  \/ DeclineStart(r) \/ DeclineMark(r) \/ DeclineEnd(r) \/ LoseAnswer(r)

BookingSteps ==
  \/ BookStart \/ Book \/ Retry \/ Convert \/ ShopCancel \/ Drop
  \/ (\E r \in Bikers : PublicPick(r)) \/ CancelList \/ CancelRinging
  \/ HoldAges \/ ExpireHold \/ Pause \/ Disable \/ Enable

RideSteps ==
  \/ PickUp \/ Deliver \/ Undelivered \/ Complete \/ AdjudicateDelivered
  \/ AdminCancel \/ BoardExpires

OtherSteps ==
  \/ (\E m \in Moments : Passes(m))
  \/ (\E r \in Bikers \cup {NoBiker} : CloseAfter(r) \/ LoseClose(r))
  \/ (\E r \in Bikers : Join(r) \/ Leave(r) \/ Toggle(r) \/ Dissolve(r))
  \/ DissolveList \/ CloseOrphans
  \/ (\E w \in Tickers : LoseTick(w)) \/ LoseKick \/ LoseCancels

\* There are no others.
LEMMA StepsAre ==
  ASSUME Next
  PROVE  \/ (\E w \in Tickers : TickSteps(w)) \/ (\E r \in Bikers : AnswerSteps(r))
         \/ BookingSteps \/ RideSteps \/ OtherSteps
BY DEF Next, TickSteps, AnswerSteps, BookingSteps, RideSteps, OtherSteps

\* The bounds of a behaviour.
LEMMA ScopeTyped ==
  ASSUME scope \in Scopes
  PROVE  /\ scope.bikers \subseteq Bikers /\ scope.rounds \in Nat \ {0}
         /\ scope.kicks \in Nat /\ scope.faults \in Nat
BY FleetAssumption DEF ScopeType

\* Closing offers keeps the rows' type, whoever is spared,
LEMMA ClosedTyped ==
  ASSUME rows \in [Bikers -> RowSet], NEW spared
  PROVE  Closed(spared) \in [Bikers -> RowSet]
BY DEF Closed, RowSet

\* ... and so does another outcome of one of them.
LEMMA OutcomeTyped ==
  ASSUME rows \in [Bikers -> RowSet], NEW r \in Bikers,
         NEW o \in {"accepted", "declined", "expired"}
  PROVE  /\ [rows EXCEPT ![r].outcome = o] \in [Bikers -> RowSet]
         /\ [rows[r] EXCEPT !.outcome = o] \in RowSet
BY DEF RowSet

\* A tick that goes idle.
LEMMA IdleTyped ==
  ASSUME TypeOK, NEW w \in Tickers
  PROVE  [tick EXCEPT ![w] = Idle] \in [Tickers -> Ticks]
BY ScopeTyped DEF TypeOK, Ticks, Idle

\* An answer that is over, and one read from a round.
LEMMA AnswerTyped ==
  ASSUME TypeOK, NEW r \in Bikers
  PROVE  /\ [answer EXCEPT ![r] = NoAnswer] \in [Bikers -> Answers]
         /\ [answer EXCEPT ![r] = [kind |-> "accept", until |-> Moment(until)]] \in [Bikers -> Answers]
         /\ [answer EXCEPT ![r] = [kind |-> "decline", until |-> Moment(until)]] \in [Bikers -> Answers]
         /\ [answer EXCEPT ![r].kind = "declined"] \in [Bikers -> Answers]
BY DEF TypeOK, Answers, NoAnswer

\* The columns and calls after a step of a tick.
LEMMA TickTyped ==
  ASSUME TypeOK, RoundLeft, NEW w \in Tickers, TickSteps(w)
  PROVE  TypeOK'
<1> USE DEF rideVars, searchVars, fleetVars, tickVars, callVars, bounds
<1>s. scope \in Scopes /\ scope.rounds \in Nat \ {0}
  BY ScopeTyped DEF TypeOK
<1>1. CASE TickStart(w)
  <2>1. tick' \in [Tickers -> Ticks]
    BY <1>1, <1>s DEF TickStart, TypeOK, Ticks, Moment
  <2>2. kicks' \in Nat
    BY <1>1 DEF TickStart, TypeOK
  <2> QED BY <1>1, <2>1, <2>2 DEF TickStart, TypeOK, Ticks, Moment
<1>2. CASE TickClose(w)
  <2>1. rows' \in [Bikers -> RowSet] /\ tick' \in [Tickers -> Ticks]
    BY <1>2, <1>s, ClosedTyped DEF TickClose, TypeOK, Ticks, Moment
  <2> QED BY <1>2, <2>1 DEF TickClose, TypeOK, Ticks, Moment
<1>3. CASE TickLook(w)
  <2>1. Candidates(w) \subseteq Bikers
    BY DEF Candidates, TypeOK
  <2> DEFINE found == IF tick[w].attempt = scope.rounds THEN {} ELSE Candidates(w)
  <2>2. [tick[w] EXCEPT !.stage = "write", !.rung = found] \in Ticks
    <3>1. found \subseteq Bikers
      BY <2>1
    <3> HIDE DEF found
    <3> QED BY <3>1, <1>s DEF TypeOK, Ticks
  <2>3. tick' = [tick EXCEPT ![w] = [tick[w] EXCEPT !.stage = "write", !.rung = found]]
    <3>1. tick[w] \in Ticks
      BY DEF TypeOK
    <3> QED BY <1>3, <3>1 DEF TickLook, TypeOK, Ticks
  <2>4. tick' \in [Tickers -> Ticks]
    BY <2>2, <2>3 DEF TypeOK, Ticks, TickLook
  <2> QED BY <1>3, <2>4 DEF TickLook, TypeOK, Ticks, Moment
<1>4. CASE TickRing(w)
  <2> PICK m \in Moments :
        /\ attempt' = attempt + 1 /\ until' = m /\ check' = m
        /\ rows' = [r \in Bikers |-> IF r \in tick[w].rung
                                     THEN [outcome |-> "pending", until |-> m] ELSE rows[r]]
    BY <1>4 DEF TickRing
  <2>1. attempt' \in 0..scope.rounds
    BY <1>4, <1>s DEF TickRing, TickMay, RoundLeft, TypeOK
  <2>2. until' \in Int /\ Moment(until') \in Moments \cup {0} /\ check' \in Moments \cup {0}
    BY FleetAssumption DEF Moment
  <2>3. rows' \in [Bikers -> RowSet]
    BY DEF TypeOK, RowSet
  <2>4. tick' \in [Tickers -> Ticks]
    BY <1>4, IdleTyped DEF TickRing
  <2> QED BY <1>4, <2>1, <2>2, <2>3, <2>4 DEF TickRing, TypeOK, Ticks, Moment
<1>5. CASE TickWait(w)
  <2>1. attempt' \in 0..scope.rounds /\ check' \in Moments /\ until' = 0
    BY <1>5, <1>s DEF TickWait, TickMay, TypeOK
  <2>2. tick' \in [Tickers -> Ticks]
    BY <1>5, IdleTyped DEF TickWait
  <2> QED BY <1>5, <2>1, <2>2 DEF TickWait, TypeOK, Ticks, Moment
<1>6. CASE TickHold(w)
  <2>1. tick' \in [Tickers -> Ticks]
    BY <1>6, IdleTyped DEF TickHold
  <2> QED BY <1>6, <2>1 DEF TickHold, TypeOK, Ticks, Moment
<1>7. CASE TickSkip(w)
  <2>1. tick' \in [Tickers -> Ticks]
    BY <1>7, IdleTyped DEF TickSkip
  <2> QED BY <1>7, <2>1 DEF TickSkip, TypeOK, Ticks, Moment
<1> QED BY <1>1, <1>2, <1>3, <1>4, <1>5, <1>6, <1>7 DEF TickSteps, TickStep

\* ... after a step of a biker's answer,
LEMMA AnswerStepTyped ==
  ASSUME TypeOK, NEW r \in Bikers, AnswerSteps(r)
  PROVE  TypeOK'
<1> USE DEF rideVars, searchVars, fleetVars, tickVars, callVars, bounds
<1>1. CASE AcceptStart(r)
  <2>1. answer' \in [Bikers -> Answers]
    BY <1>1, AnswerTyped DEF AcceptStart
  <2> QED BY <1>1, <2>1 DEF AcceptStart, TypeOK, Ticks, Moment
<1>2. CASE AcceptCommit(r)
  <2>1. rows' \in [Bikers -> RowSet]
    BY <1>2, OutcomeTyped DEF AcceptCommit, TypeOK
  <2>2. answer' \in [Bikers -> Answers]
    BY <1>2, AnswerTyped DEF AcceptCommit
  <2> QED BY <1>2, <2>1, <2>2 DEF AcceptCommit, TypeOK, Ticks, Moment, Statuses
<1>3. CASE AcceptRefused(r)
  <2>1. answer' \in [Bikers -> Answers]
    BY <1>3, AnswerTyped DEF AcceptRefused
  <2> QED BY <1>3, <2>1 DEF AcceptRefused, TypeOK, Ticks, Moment
<1>4. CASE DeclineStart(r)
  <2>1. answer' \in [Bikers -> Answers]
    BY <1>4, AnswerTyped DEF DeclineStart
  <2> QED BY <1>4, <2>1 DEF DeclineStart, TypeOK, Ticks, Moment
<1>5. CASE DeclineMark(r)
  <2>1. rows' \in [Bikers -> RowSet]
    BY <1>5, OutcomeTyped DEF DeclineMark, TypeOK
  <2>2. answer' \in [Bikers -> Answers]
    BY <1>5, AnswerTyped DEF DeclineMark
  <2> QED BY <1>5, <2>1, <2>2 DEF DeclineMark, TypeOK, Ticks, Moment
<1>6. CASE DeclineEnd(r)
  <2>1. /\ until' \in Int /\ Moment(until') \in Moments \cup {0}
        /\ check' \in Moments \cup {0} /\ kicks' \in Nat
    BY <1>6, FleetAssumption, ScopeTyped DEF DeclineEnd, TypeOK, Moment, Kicked
  <2>2. answer' \in [Bikers -> Answers]
    BY <1>6, AnswerTyped DEF DeclineEnd
  <2> QED BY <1>6, <2>1, <2>2 DEF DeclineEnd, TypeOK, Ticks, Moment
<1>7. CASE LoseAnswer(r)
  <2>1. answer' \in [Bikers -> Answers]
    BY <1>7, AnswerTyped DEF LoseAnswer
  <2> QED BY <1>7, <2>1 DEF LoseAnswer, Lost, TypeOK, Ticks, Moment
<1> QED BY <1>1, <1>2, <1>3, <1>4, <1>5, <1>6, <1>7 DEF AnswerSteps

\* Every step of the ride is from one status to another, with or without a charge.
LEMMA RideIs ==
  ASSUME RideSteps
  PROVE  \E from, to \in Statuses : \E charge \in {bill, Charged} :
           Ride(from, to, charge) /\ collected' \in {collected, TRUE}
BY DEF RideSteps, PickUp, Deliver, Undelivered, Complete, AdjudicateDelivered, AdminCancel,
       BoardExpires, Statuses, Ended

\* ... after a step of the ride,
LEMMA RideTyped ==
  ASSUME TypeOK, RideSteps
  PROVE  TypeOK'
<1> USE DEF rideVars, searchVars, fleetVars, tickVars, callVars, bounds
<1> PICK from \in Statuses, to \in Statuses, charge \in {bill, Charged} :
      Ride(from, to, charge) /\ collected' \in {collected, TRUE}
  BY RideIs
<1>1. charge \in Nat
  BY DEF Charged, TypeOK
<1>2. collected' \in BOOLEAN
  BY Zenon DEF TypeOK
<1> QED BY <1>1, <1>2 DEF Ride, TypeOK, Ticks, Moment

\* ... after what the business, the console or a sweep does to the booking,
LEMMA BookingStepTyped ==
  ASSUME TypeOK, Placed, BookingSteps
  PROVE  TypeOK'
<1> USE DEF rideVars, searchVars, fleetVars, tickVars, callVars, bounds
<1>k. Kicked \in Nat /\ 0 \in 0..scope.rounds
  BY ScopeTyped DEF Kicked, TypeOK
<1>1. CASE BookStart
  BY <1>1 DEF BookStart, TypeOK, Ticks, Moment
<1>2. CASE Book
  BY <1>2, <1>k DEF Book, Statuses, TypeOK, Ticks, Moment
<1>3. CASE Retry
  <2>1. rows' \in [Bikers -> RowSet]
    BY <1>3 DEF Retry, TypeOK, RowSet
  <2> QED BY <1>3, <1>k, <2>1 DEF Retry, Restarted, TypeOK, Ticks, Moment
<1>4. CASE Convert
  <2>1. status' \in Statuses /\ tag' \in BOOLEAN /\ closers' \subseteq Bikers \cup {NoBiker}
    BY <1>4 DEF Convert, Statuses, TypeOK
  <2>2. attempt' \in 0..scope.rounds /\ hold' = "none" /\ until' = 0 /\ check' = 0
    BY <1>4, <1>k DEF Convert, Restarted
  <2> QED BY <1>4, <2>1, <2>2 DEF Convert, TypeOK, Ticks, Moment
<1>5. CASE ShopCancel
  BY <1>5 DEF ShopCancel, Statuses, TypeOK, Ticks, Moment
<1>6. CASE Drop
  <2>1. status' \in Statuses /\ rider' \in Bikers \cup {NoBiker} /\ excluded' \subseteq Bikers
    BY <1>6 DEF Drop, Statuses, Placed, TypeOK
  <2>2. /\ attempt' \in 0..scope.rounds /\ hold' \in {"none", "fresh", "stale"}
        /\ check' \in Moments \cup {0}
    BY <1>6, <1>k DEF Drop, Restarted, TypeOK
  <2>3. until' \in Int /\ Moment(until)' \in Moments \cup {0}
    <3>1. until' = until \/ until' = 0
      BY <1>6 DEF Drop, Restarted
    <3>2. QED
      BY <3>1 DEF TypeOK, Moment
  <2>4. UNCHANGED <<tag, collected, bill, rows, fleetVars, tickVars, callVars, bounds>>
    BY <1>6 DEF Drop
  <2> HIDE DEF Moment
  <2> QED BY <2>1, <2>2, <2>3, <2>4 DEF TypeOK, Ticks
<1>7. CASE \E r \in Bikers : PublicPick(r)
  BY <1>7 DEF PublicPick, Statuses, TypeOK, Ticks, Moment
<1>8. CASE CancelList
  BY <1>8 DEF CancelList, TypeOK, Ticks, Moment
<1>9. CASE CancelRinging
  BY <1>9 DEF CancelRinging, Statuses, TypeOK, Ticks, Moment
<1>10. CASE HoldAges
  BY <1>10 DEF HoldAges, TypeOK, Ticks, Moment
<1>11. CASE ExpireHold
  BY <1>11 DEF ExpireHold, Statuses, TypeOK, Ticks, Moment
<1>12. CASE Pause
  BY <1>12 DEF Pause, SetFleet, TypeOK, Ticks, Moment
<1>13. CASE Disable
  BY <1>13 DEF Disable, SetFleet, TypeOK, Ticks, Moment
<1>14. CASE Enable
  BY <1>14 DEF Enable, SetFleet, TypeOK, Ticks, Moment
<1> QED BY <1>1, <1>2, <1>3, <1>4, <1>5, <1>6, <1>7, <1>8, <1>9, <1>10, <1>11, <1>12, <1>13, <1>14
    DEF BookingSteps

\* ... and after a step of time, of the fleet's bikers, of a sweep of the offers, or a loss.
LEMMA OtherStepTyped ==
  ASSUME TypeOK, OtherSteps
  PROVE  TypeOK'
<1> USE DEF rideVars, searchVars, fleetVars, tickVars, callVars, bounds
<1>1. CASE \E m \in Moments : Passes(m)
  <2> PICK m \in Moments : Passes(m)
    BY <1>1
  <2>1. /\ until' \in Int /\ Moment(until') \in Moments \cup {0}
        /\ check' \in Moments \cup {0}
    BY FleetAssumption DEF Passes, TypeOK, Moment
  <2>2. rows' \in [Bikers -> RowSet]
    BY DEF Passes, TypeOK, RowSet
  <2> QED BY <2>1, <2>2 DEF Passes, TypeOK, Ticks, Moment
<1>2. CASE \E r \in Bikers \cup {NoBiker} : CloseAfter(r)
  <2>1. rows' \in [Bikers -> RowSet]
    BY <1>2, ClosedTyped DEF CloseAfter, TypeOK
  <2> QED BY <1>2, <2>1 DEF CloseAfter, TypeOK, Ticks, Moment
<1>3. CASE \E r \in Bikers \cup {NoBiker} : LoseClose(r)
  BY <1>3 DEF LoseClose, Lost, TypeOK, Ticks, Moment
<1>4. CASE \E r \in Bikers : Join(r) \/ Leave(r) \/ Dissolve(r)
  BY <1>4 DEF Join, Leave, Dissolve, Relinked, TypeOK, Ticks, Moment
<1>5. CASE \E r \in Bikers : Toggle(r)
  BY <1>5 DEF Toggle, TypeOK, Ticks, Moment
<1>6. CASE DissolveList
  BY <1>6 DEF DissolveList, TypeOK, Ticks, Moment
<1>7. CASE CloseOrphans
  <2>1. rows' \in [Bikers -> RowSet]
    BY <1>7 DEF CloseOrphans, TypeOK, RowSet
  <2> QED BY <1>7, <2>1 DEF CloseOrphans, TypeOK, Ticks, Moment
<1>8. CASE \E w \in Tickers : LoseTick(w)
  <2>1. tick' \in [Tickers -> Ticks]
    BY <1>8, IdleTyped DEF LoseTick
  <2> QED BY <1>8, <2>1 DEF LoseTick, Lost, TypeOK, Ticks, Moment
<1>9. CASE LoseKick
  BY <1>9 DEF LoseKick, Lost, TypeOK, Ticks, Moment
<1>10. CASE LoseCancels
  BY <1>10 DEF LoseCancels, Lost, TypeOK, Ticks, Moment
<1> QED BY <1>1, <1>2, <1>3, <1>4, <1>5, <1>6, <1>7, <1>8, <1>9, <1>10 DEF OtherSteps

\* A tick and an answer touch the ride only in an accept; a tick's write finds a
\* search under way.
LEMMA TickFrame ==
  ASSUME NEW w \in Tickers, TickSteps(w)
  PROVE  /\ UNCHANGED <<rideVars, fleetVars, callVars, bounds>>
         /\ UNCHANGED <<hold, until, check>> \/ (Searching /\ hold = "none")
         /\ hold' = "none" \/ UNCHANGED <<hold, until, check>> \/ (until' = 0 /\ check' = 0)
<1> USE DEF rideVars, fleetVars, callVars, bounds, searchVars
<1>1. CASE TickStart(w)
  BY <1>1 DEF TickStart
<1>2. CASE TickClose(w)
  BY <1>2 DEF TickClose
<1>3. CASE TickLook(w)
  BY <1>3 DEF TickLook
<1>4. CASE TickRing(w)
  BY <1>4 DEF TickRing, TickMay
<1>5. CASE TickWait(w)
  BY <1>5 DEF TickWait, TickMay
<1>6. CASE TickHold(w)
  BY <1>6 DEF TickHold, TickMay
<1>7. CASE TickSkip(w)
  BY <1>7 DEF TickSkip
<1> QED BY <1>1, <1>2, <1>3, <1>4, <1>5, <1>6, <1>7 DEF TickSteps, TickStep

\* The invariant.
IInv ==
  /\ TypeOK /\ Placed /\ AnswersRead /\ RoundLeft
  /\ InScope /\ HeldRingsNobody /\ RideBilledOnce

\* The ride and the search, as the invariant speaks of them.
StandingVars == <<rideVars, booking, own, hold, until, check>>

\* It depends on no other column.
LEMMA StandingFrame ==
  ASSUME Placed, InScope, HeldRingsNobody, RideBilledOnce, UNCHANGED StandingVars
  PROVE  Placed' /\ InScope' /\ HeldRingsNobody' /\ RideBilledOnce'
BY
  DEF StandingVars, rideVars, Placed, InScope, HeldRingsNobody, RideBilledOnce, Carries,
      Searching

\* A tick keeps it.
LEMMA TickKeeps ==
  ASSUME IInv, NEW w \in Tickers, TickSteps(w)
  PROVE  Placed' /\ AnswersRead' /\ RoundLeft' /\ InScope' /\ HeldRingsNobody' /\ RideBilledOnce'
<1> USE DEF rideVars, fleetVars, callVars, bounds
<1>1. InScope' /\ RideBilledOnce' /\ AnswersRead'
  BY TickFrame DEF IInv, InScope, RideBilledOnce, AnswersRead, Carries
<1>2. Placed'
  BY TickFrame DEF IInv, Placed, Searching
<1>3. HeldRingsNobody'
  BY TickFrame DEF IInv, HeldRingsNobody, Searching
<1>4. RoundLeft'
  <2> SUFFICES ASSUME NEW v \in Tickers, tick'[v].stage = "write", tick'[v].rung # {}
               PROVE  tick'[v].attempt < scope'.rounds
    BY DEF RoundLeft
  <2>1. scope' = scope /\ tick \in [Tickers -> Ticks]
    BY TickFrame DEF IInv, TypeOK
  <2>2. CASE v # w
    <3>1. tick'[v] = tick[v]
      BY <2>1, <2>2
        DEF TickSteps, TickStart, TickStep, TickClose, TickLook, TickRing, TickWait,
            TickHold, TickSkip
    <3> QED BY <2>1, <3>1 DEF IInv, RoundLeft
  <2>3. CASE v = w
    <3>1. TickLook(w) \/ tick' = tick
      BY <2>1, <2>3
        DEF TickSteps, TickStart, TickStep, TickClose, TickRing, TickWait, TickHold,
            TickSkip, Idle, Ticks
    <3>2. CASE tick' = tick
      BY <2>1, <3>2 DEF IInv, RoundLeft
    <3>3. CASE TickLook(w)
      <4>1. /\ tick'[w].attempt = tick[w].attempt
            /\ tick'[w].rung = IF tick[w].attempt = scope.rounds THEN {} ELSE Candidates(w)
        BY <2>1, <3>3 DEF TickLook, Ticks
      <4>2. tick[w].attempt \in 0..scope.rounds /\ scope.rounds \in Nat
        BY <2>1, ScopeTyped DEF IInv, TypeOK, Ticks
      <4> QED BY <2>1, <2>3, <4>1, <4>2
    <3> QED BY <3>1, <3>2, <3>3
  <2> QED BY <2>2, <2>3
<1> QED BY <1>1, <1>2, <1>3, <1>4

\* An answer keeps it: the accept reads the fleet as it writes.
LEMMA AnswerKeeps ==
  ASSUME IInv, NEW r \in Bikers, AnswerSteps(r)
  PROVE  Placed' /\ AnswersRead' /\ RoundLeft' /\ InScope' /\ HeldRingsNobody' /\ RideBilledOnce'
<1> USE DEF rideVars, fleetVars, callVars, bounds, searchVars, tickVars
<1>1. RoundLeft'
  BY DEF AnswerSteps, AcceptStart, AcceptCommit, AcceptRefused, DeclineStart, DeclineMark,
         DeclineEnd, LoseAnswer, Lost, IInv, RoundLeft
<1>2. AnswersRead'
  <2> SUFFICES ASSUME NEW q \in Bikers, answer'[q].kind # "none"
               PROVE  answer'[q].until \in Moments
    BY DEF AnswersRead
  <2>1. answer \in [Bikers -> Answers]
    BY DEF IInv, TypeOK
  <2>2. CASE AcceptStart(r) \/ DeclineStart(r)
    <3>1. Moment(until) \in Moments
      BY <2>2 DEF AcceptStart, DeclineStart, Offered, IInv, TypeOK, Moment
    <3> HIDE DEF Moment
    <3>2. answer'[q] = answer[q] \/ answer'[q].until = Moment(until)
      BY <2>1, <2>2 DEF AcceptStart, DeclineStart
    <3> QED BY <3>1, <3>2 DEF IInv, AnswersRead
  <2>3. CASE DeclineMark(r)
    <3>1. /\ answer[r].kind = "decline" /\ answer'[q].until = answer[q].until
          /\ answer'[q].kind = answer[q].kind \/ q = r
      BY <2>1, <2>3 DEF DeclineMark, NoAnswer, Answers
    <3> QED BY <3>1 DEF IInv, AnswersRead
  <2>4. CASE AcceptCommit(r) \/ AcceptRefused(r) \/ DeclineEnd(r) \/ LoseAnswer(r)
    <3>1. answer' = [answer EXCEPT ![r] = NoAnswer]
      BY <2>4 DEF AcceptCommit, AcceptRefused, DeclineEnd, LoseAnswer
    <3> QED BY <2>1, <3>1 DEF IInv, AnswersRead, NoAnswer
  <2> QED BY <2>2, <2>3, <2>4 DEF AnswerSteps
<1>3. Placed' /\ InScope' /\ HeldRingsNobody' /\ RideBilledOnce'
  <2>1. CASE AcceptCommit(r)
    <3>1. /\ status = "fleet_searching" /\ rider = NoBiker /\ tag /\ r \in own
          /\ status' = "assigned" /\ rider' = r
          /\ UNCHANGED <<tag, collected, bill, own, booking>>
      BY <2>1 DEF AcceptCommit, Searching, InFleet
    <3> QED BY <3>1
        DEF IInv, Placed, InScope, HeldRingsNobody, RideBilledOnce, Carries, Riding,
            Searching
  <2>2. CASE DeclineEnd(r)
    <3>1. UNCHANGED <<rideVars, booking, own, hold>>
      BY <2>2 DEF DeclineEnd
    <3>2. CASE UNCHANGED <<until, check>>
      BY <3>1, <3>2, StandingFrame DEF StandingVars, IInv
    <3>3. CASE Searching /\ Moment(until) = answer[r].until
      <4>1. Moment(until) # 0
        BY <2>2, <3>3, FleetAssumption DEF IInv, AnswersRead, DeclineEnd
      <4>2. hold = "none"
        BY <3>3, <4>1 DEF IInv, HeldRingsNobody, Moment
      <4> QED BY <3>1, <3>3, <4>2
          DEF IInv, Placed, InScope, HeldRingsNobody, RideBilledOnce, Carries, Searching
    <3> QED BY <2>2, <3>2, <3>3 DEF DeclineEnd, SameRound
  <2>3. CASE ~(AcceptCommit(r) \/ DeclineEnd(r))
    <3>1. UNCHANGED StandingVars
      BY <2>3
        DEF AnswerSteps, AcceptStart, AcceptRefused, DeclineStart, DeclineMark, LoseAnswer,
            StandingVars
    <3> QED BY <3>1, StandingFrame DEF IInv
  <2> QED BY <2>1, <2>2, <2>3
<1> QED BY <1>1, <1>2, <1>3

\* The answers, and the ticks, of a step of the booking or of the ride.
LEMMA BookingFrame ==
  ASSUME BookingSteps \/ RideSteps
  PROVE  UNCHANGED <<answer, tick, bounds>>
<1> USE DEF rideVars, searchVars, fleetVars, callVars, tickVars, bounds
<1>1. CASE BookingSteps
  BY <1>1 DEF BookingSteps, BookStart, Book, Retry, Convert, ShopCancel, Drop, PublicPick,
     CancelList, CancelRinging, HoldAges, ExpireHold, Pause, Disable, Enable, SetFleet
<1>2. CASE RideSteps
  BY <1>2, RideIs DEF Ride
<1> QED BY <1>1, <1>2

\* The answers and ticks are all that those two parts of the invariant speak of.
LEMMA CallsFrame ==
  ASSUME AnswersRead, RoundLeft, UNCHANGED <<answer, tick, bounds>>
  PROVE  AnswersRead' /\ RoundLeft'
BY DEF AnswersRead, RoundLeft, bounds

\* The business, the console and the sweeps keep it: they write to a booking
\* that has no rider yet, or give the rider's job back.
LEMMA BookingKeeps ==
  ASSUME IInv, BookingSteps
  PROVE  Placed' /\ AnswersRead' /\ RoundLeft' /\ InScope' /\ HeldRingsNobody' /\ RideBilledOnce'
<1> USE DEF rideVars, searchVars, fleetVars, callVars
<1>1. AnswersRead' /\ RoundLeft'
  BY BookingFrame, CallsFrame DEF IInv
<1>2. Placed' /\ InScope' /\ HeldRingsNobody' /\ RideBilledOnce'
  <2>1. CASE BookStart
    BY <2>1
      DEF BookStart, IInv, Placed, InScope, HeldRingsNobody, RideBilledOnce, Carries,
          Riding, Searching
  <2>2. CASE Book
    BY <2>2
      DEF Book, IInv, Placed, InScope, HeldRingsNobody, RideBilledOnce, Carries, Riding,
          Searching
  <2>3. CASE Retry
    BY <2>3
      DEF Retry, Restarted, IInv, Placed, InScope, HeldRingsNobody, RideBilledOnce, Carries,
          Riding, Searching
  <2>4. CASE Convert
    BY <2>4
      DEF Convert, ConvertMay, Restarted, IInv, Placed, InScope, HeldRingsNobody,
          RideBilledOnce, Carries, Riding, Searching
  <2>5. CASE ShopCancel
    BY <2>5
      DEF ShopCancel, IInv, Placed, InScope, HeldRingsNobody, RideBilledOnce, Carries,
          Riding, Searching
  <2>6. CASE Drop
    BY <2>6
      DEF Drop, Restarted, IInv, Placed, InScope, HeldRingsNobody, RideBilledOnce, Carries,
          Riding, Searching
  <2>7. CASE \E r \in Bikers : PublicPick(r)
    BY <2>7
      DEF PublicPick, IInv, Placed, InScope, HeldRingsNobody, RideBilledOnce, Carries,
          Riding, Searching
  <2>8. CASE CancelRinging
    BY <2>8
      DEF CancelRinging, IInv, Placed, InScope, HeldRingsNobody, RideBilledOnce, Carries,
          Riding, Searching
  <2>9. CASE HoldAges
    BY <2>9
      DEF HoldAges, IInv, Placed, InScope, HeldRingsNobody, RideBilledOnce, Carries, Riding,
          Searching
  <2>10. CASE ExpireHold
    BY <2>10
      DEF ExpireHold, IInv, Placed, InScope, HeldRingsNobody, RideBilledOnce, Carries,
          Riding, Searching
  <2>11. CASE CancelList \/ Pause \/ Disable \/ Enable
    <3>1. UNCHANGED StandingVars
      BY <2>11 DEF CancelList, Pause, Disable, Enable, SetFleet, StandingVars
    <3> QED BY <3>1, StandingFrame DEF IInv
  <2> QED BY <2>1, <2>2, <2>3, <2>4, <2>5, <2>6, <2>7, <2>8, <2>9, <2>10, <2>11
      DEF BookingSteps
<1> QED BY <1>1, <1>2

\* The ride keeps it: what it makes it bills.
LEMMA RideKeeps ==
  ASSUME IInv, RideSteps
  PROVE  Placed' /\ AnswersRead' /\ RoundLeft' /\ InScope' /\ HeldRingsNobody' /\ RideBilledOnce'
<1>1. AnswersRead' /\ RoundLeft'
  BY BookingFrame, CallsFrame DEF IInv
<1>2. UNCHANGED <<tag, rider, booking, own, hold, until, check>>
  BY RideIs DEF Ride, searchVars, fleetVars, callVars
<1>3. NoBiker \notin Bikers
  BY BikerAssumption
<1>4. CASE PickUp
  BY <1>1, <1>2, <1>3, <1>4
    DEF PickUp, Ride, IInv, Placed, InScope, HeldRingsNobody, RideBilledOnce, Carries,
        Riding, Searching
<1>5. CASE Deliver
  BY <1>1, <1>2, <1>3, <1>5
    DEF Deliver, Ride, IInv, Placed, InScope, HeldRingsNobody, RideBilledOnce, Carries,
        Riding, Searching
<1>6. CASE Undelivered
  BY <1>1, <1>2, <1>3, <1>6
    DEF Undelivered, Ride, Charged, IInv, Placed, InScope, HeldRingsNobody, RideBilledOnce,
        Carries, Riding, Searching
<1>7. CASE Complete
  BY <1>1, <1>2, <1>3, <1>7
    DEF Complete, Ride, Charged, IInv, Placed, InScope, HeldRingsNobody, RideBilledOnce,
        Carries, Riding, Searching
<1>8. CASE AdjudicateDelivered
  BY <1>1, <1>2, <1>3, <1>8
    DEF AdjudicateDelivered, Ride, Charged, IInv, Placed, InScope, HeldRingsNobody,
        RideBilledOnce, Carries, Riding, Searching
<1>9. CASE BoardExpires
  BY <1>1, <1>2, <1>3, <1>9
    DEF BoardExpires, Ride, IInv, Placed, InScope, HeldRingsNobody, RideBilledOnce, Carries,
        Riding, Searching
<1>10. CASE AdminCancel
  <2> PICK from \in Statuses \ (Ended \cup {"none"}) :
        Ride(from, "cancelled", IF collected THEN Charged ELSE bill) /\ UNCHANGED collected
    BY <1>10 DEF AdminCancel
  <2>1. /\ status \notin Ended \cup {"none"} /\ status' = "cancelled" /\ collected' = collected
        /\ bill' = IF collected THEN Charged ELSE bill
    BY DEF Ride
  <2>2. bill = 0
    BY <2>1 DEF IInv, RideBilledOnce, Ended
  <2> QED BY <1>1, <1>2, <1>3, <2>1, <2>2
      DEF Charged, IInv, Placed, InScope, HeldRingsNobody, RideBilledOnce, Carries, Riding,
          Searching
<1> QED BY <1>4, <1>5, <1>6, <1>7, <1>8, <1>9, <1>10 DEF RideSteps

\* The others keep it: a biker changes fleets only where the job allows it.
LEMMA OtherKeeps ==
  ASSUME IInv, OtherSteps
  PROVE  Placed' /\ AnswersRead' /\ RoundLeft' /\ InScope' /\ HeldRingsNobody' /\ RideBilledOnce'
<1> USE DEF rideVars, searchVars, fleetVars, tickVars, callVars
<1>1. AnswersRead' /\ RoundLeft'
  <2>1. CASE \E w \in Tickers : LoseTick(w)
    <3>1. PICK w \in Tickers : LoseTick(w)
      BY <2>1
    <3>2. \A v \in Tickers : tick'[v] = tick[v] \/ tick'[v] = Idle
      BY <3>1 DEF LoseTick, IInv, TypeOK
    <3> QED BY <3>1, <3>2 DEF LoseTick, Lost, Idle, IInv, AnswersRead, RoundLeft
  <2>2. CASE ~ \E w \in Tickers : LoseTick(w)
    BY <2>2
      DEF OtherSteps, Passes, CloseAfter, LoseClose, Join, Leave, Relinked, Toggle,
          Dissolve,
       DissolveList, CloseOrphans, LoseKick, LoseCancels, Lost, bounds, IInv, AnswersRead, RoundLeft
  <2> QED BY <2>1, <2>2
<1>2. Placed' /\ InScope' /\ HeldRingsNobody' /\ RideBilledOnce'
  <2>1. CASE \E m \in Moments : Passes(m)
    <3>1. PICK m \in Moments : Passes(m)
      BY <2>1
    <3>2. UNCHANGED <<rideVars, booking, own, hold>>
      BY <3>1 DEF Passes
    <3>3. (until = 0 => until' = 0) /\ (check = 0 => check' = 0)
      BY <3>1, FleetAssumption DEF Passes
    <3> QED BY <3>2, <3>3
        DEF IInv, Placed, InScope, HeldRingsNobody, RideBilledOnce, Carries, Searching
  <2>2. CASE \E r \in Bikers : Join(r) \/ Leave(r) \/ Dissolve(r)
    <3>1. PICK r \in Bikers : Join(r) \/ Leave(r) \/ Dissolve(r)
      BY <2>2
    <3>2. UNCHANGED <<rideVars, booking, hold, until, check>>
      BY <3>1 DEF Join, Leave, Dissolve, Relinked
    <3>3. \A q \in Bikers : (q \in own' <=> q \in own) \/ (q = r /\ (Carries(q) => (q \in own' <=> tag)))
      BY <3>1 DEF Join, Leave, Dissolve, Relinked, MayLink, MayUnlink
    <3> QED BY <3>2, <3>3
        DEF IInv, Placed, InScope, HeldRingsNobody, RideBilledOnce, Carries, Searching
  <2>3. CASE \/ \E r \in Bikers \cup {NoBiker} : CloseAfter(r) \/ LoseClose(r)
             \/ \E r \in Bikers : Toggle(r)
             \/ DissolveList \/ CloseOrphans
             \/ (\E w \in Tickers : LoseTick(w)) \/ LoseKick \/ LoseCancels
    <3>1. UNCHANGED StandingVars
      BY <2>3 DEF CloseAfter, LoseClose, Toggle, DissolveList, CloseOrphans,
         LoseTick, LoseKick, LoseCancels, StandingVars
    <3> QED BY <3>1, StandingFrame DEF IInv
  <2> QED BY <2>1, <2>2, <2>3 DEF OtherSteps
<1> QED BY <1>1, <1>2

\* It holds of a booking that is not there yet,
LEMMA InitHolds == Init => IInv
<1> SUFFICES ASSUME Init PROVE IInv
  OBVIOUS
<1>1. 0 \in 0..scope.rounds /\ scope.bikers \subseteq Bikers
  BY ScopeTyped DEF Init
<1>2. rows \in [Bikers -> RowSet] /\ tick \in [Tickers -> Ticks] /\ answer \in [Bikers -> Answers]
  BY <1>1 DEF Init, NoRow, RowSet, Idle, Ticks, NoAnswer, Answers
<1>3. TypeOK
  <2>1. status \in Statuses /\ until = 0
    BY DEF Init, Statuses
  <2>2. /\ scope \in Scopes /\ rider \in Bikers \cup {NoBiker} /\ bill \in Nat
        /\ attempt \in 0..scope.rounds /\ Moment(until) \in Moments \cup {0}
        /\ own \subseteq Bikers /\ free \subseteq Bikers /\ kicks \in Nat /\ faults \in Nat
    BY <1>1, <2>1 DEF Init, Moment
  <2>3. tag \in BOOLEAN /\ collected \in BOOLEAN /\ booking \in BOOLEAN
    BY DEF Init
  <2>4. /\ hold \in {"none", "fresh", "stale"} /\ until \in Int /\ check \in Moments \cup {0}
        /\ excluded \subseteq Bikers /\ fleet \in {"on", "paused", "off"}
        /\ closers \subseteq Bikers \cup {NoBiker} /\ cancels \in {"none", "list", "cancel"}
        /\ dissolving \subseteq Bikers
    BY DEF Init
  <2> QED BY <1>2, <2>1, <2>2, <2>3, <2>4 DEF TypeOK
<1>4. RoundLeft /\ AnswersRead
  BY DEF Init, RoundLeft, AnswersRead, Idle, NoAnswer
<1>5. Placed /\ InScope /\ HeldRingsNobody /\ RideBilledOnce
  BY DEF Init, Placed, InScope, HeldRingsNobody, RideBilledOnce, Carries, Riding, Searching
<1> QED BY <1>3, <1>4, <1>5 DEF IInv

\* ... and every step keeps it.
LEMMA StepKeeps ==
  ASSUME IInv, [Next]_vars
  PROVE  IInv'
<1>1. CASE \E w \in Tickers : TickSteps(w)
  BY <1>1, TickTyped, TickKeeps DEF IInv
<1>2. CASE \E r \in Bikers : AnswerSteps(r)
  BY <1>2, AnswerStepTyped, AnswerKeeps DEF IInv
<1>3. CASE BookingSteps
  BY <1>3, BookingStepTyped, BookingKeeps DEF IInv
<1>4. CASE RideSteps
  BY <1>4, RideTyped, RideKeeps DEF IInv
<1>5. CASE OtherSteps
  BY <1>5, OtherStepTyped, OtherKeeps DEF IInv
<1>6. CASE UNCHANGED vars
  <2>1. TypeOK'
    BY <1>6
      DEF vars, rideVars, searchVars, fleetVars, tickVars, callVars, bounds, IInv, TypeOK,
       Ticks, Moment
  <2>2. Placed' /\ AnswersRead' /\ RoundLeft' /\ InScope' /\ HeldRingsNobody' /\ RideBilledOnce'
    BY <1>6, StandingFrame, CallsFrame
   
      DEF vars, rideVars, searchVars, fleetVars, tickVars, callVars, bounds, IInv,
          StandingVars
  <2> QED BY <2>1, <2>2 DEF IInv
<1> QED BY <1>1, <1>2, <1>3, <1>4, <1>5, <1>6, StepsAre

\* The inductive invariant holds throughout.
THEOREM Invariance == Spec => []IInv
<1>1. Init => IInv
  BY InitHolds
<1>2. IInv /\ [Next]_vars => IInv'
  BY StepKeeps
<1>3. QED
  BY <1>1, <1>2, PTL DEF Spec

\* Every column and call keeps its type, and no wait, ring or stale tick takes a
\* search past its last round (TypeOK).
THEOREM TypeCorrect == Spec => []TypeOK
<1>1. IInv => TypeOK
  BY DEF IInv
<1>2. QED
  BY <1>1, Invariance, PTL

\* Own bikers only ever carry their owner's jobs and public ones never do,
\* whoever joins, leaves, accepts and converts meanwhile.
THEOREM ScopeKept == Spec => []InScope
<1>1. IInv => InScope
  BY DEF IInv
<1>2. QED
  BY <1>1, Invariance, PTL

\* A booking the business is asked about rings nobody.
THEOREM HoldIsQuiet == Spec => []HeldRingsNobody
<1>1. IInv => HeldRingsNobody
  BY DEF IInv
<1>2. QED
  BY <1>1, Invariance, PTL

\* A fleet's ride is billed once, however it ended, and nothing else is.
THEOREM RideBilled == Spec => []RideBilledOnce
<1>1. IInv => RideBilledOnce
  BY DEF IInv
<1>2. QED
  BY <1>1, Invariance, PTL

\* A step of the services is one of the declared table, or of the console.
LEMMA TableStep ==
  ASSUME IInv, [Next]_vars
  PROVE  [Table!FleetTableNext]_(Table!fleetTableVars)
<1> USE DEF rideVars, searchVars, fleetVars, tickVars, callVars, Table!fleetTableVars
<1>1. CASE UNCHANGED <<status, tag, rider>>
  BY <1>1
<1>2. CASE \E w \in Tickers : TickSteps(w)
  BY <1>2, TickFrame
<1>3. CASE \E r \in Bikers : AnswerSteps(r)
  <2>1. PICK r \in Bikers : AnswerSteps(r)
    BY <1>3
  <2>2. CASE AcceptCommit(r)
    BY <2>2 DEF AcceptCommit, Searching, Table!FleetTableNext, Table!Taken, Table!Unheld
  <2>3. CASE ~AcceptCommit(r)
    BY <2>1, <2>3 DEF AnswerSteps, AcceptStart, AcceptRefused, DeclineStart, DeclineMark,
       DeclineEnd, LoseAnswer
  <2> QED BY <2>2, <2>3
<1>4. CASE BookingSteps
  <2>1. CASE Book
    BY <2>1 DEF Book, IInv, Placed, Table!FleetTableNext, Table!Booked
  <2>2. CASE Convert
    BY <2>2
      DEF Convert, ConvertMay, Searching, Table!FleetTableNext, Table!Converted,
          Table!Unheld
  <2>3. CASE ShopCancel
    BY <2>3 DEF ShopCancel, Table!FleetTableNext, Table!Moved, Table!Edges
  <2>4. CASE Drop
    <3>1. CASE tag
      BY <2>4, <3>1 DEF Drop, Table!FleetTableNext, Table!GivenBack
    <3>2. CASE ~tag
      BY <2>4, <3>2 DEF Drop, Table!FleetTableNext, Table!Moved, Table!Edges
    <3> QED BY <3>1, <3>2
  <2>5. CASE \E r \in Bikers : PublicPick(r)
    BY <2>5 DEF PublicPick, IInv, Placed, Table!FleetTableNext, Table!Taken, Table!Unheld
  <2>6. CASE CancelRinging
    BY <2>6 DEF CancelRinging, Searching, Table!FleetTableNext, Table!Moved, Table!Edges
  <2>7. CASE ExpireHold
    BY <2>7 DEF ExpireHold, Searching, Table!FleetTableNext, Table!Moved, Table!Edges
  <2>8. CASE BookStart \/ Retry \/ CancelList \/ HoldAges \/ Pause \/ Disable \/ Enable
    BY <2>8 DEF BookStart, Retry, CancelList, HoldAges, Pause, Disable, Enable, SetFleet
  <2> QED BY <1>4, <2>1, <2>2, <2>3, <2>4, <2>5, <2>6, <2>7, <2>8 DEF BookingSteps
<1>5. CASE RideSteps
  <2>1. CASE AdminCancel
    <3> PICK from \in Statuses \ (Ended \cup {"none"}) :
          Ride(from, "cancelled", IF collected THEN Charged ELSE bill) /\ UNCHANGED collected
      BY <2>1 DEF AdminCancel
    <3>1. <<from, "cancelled">> \in Table!Edges \cup ConsoleEdges
      BY DEF Statuses, Ended, Table!Edges, ConsoleEdges
    <3> QED BY <3>1 DEF Ride, Table!FleetTableNext, Table!Moved
  <2>2. CASE ~AdminCancel
    BY <1>5, <2>2
      DEF RideSteps, PickUp, Deliver, Undelivered, Complete, AdjudicateDelivered,
       BoardExpires, Ride, Table!FleetTableNext, Table!Moved, Table!Edges, ConsoleEdges
  <2> QED BY <2>1, <2>2
<1>6. CASE OtherSteps
  BY <1>6
    DEF OtherSteps, Passes, CloseAfter, LoseClose, Join, Leave, Toggle, Dissolve, Relinked,
     DissolveList, CloseOrphans, LoseTick, LoseKick, LoseCancels
<1> QED BY <1>1, <1>2, <1>3, <1>4, <1>5, <1>6, StepsAre DEF vars

\* The services move a booking as the declared table and the console's edges say.
THEOREM TableImplemented == Spec => ImplementsFleetTable
<1>1. Init => Table!FleetTableInit
  BY DEF Init, Table!FleetTableInit
<1>2. ASSUME IInv, [Next]_vars
      PROVE  [Table!FleetTableNext]_(Table!fleetTableVars)
  BY <1>2, TableStep
<1>3. QED
  BY <1>1, <1>2, Invariance, PTL DEF Spec, ImplementsFleetTable, Table!FleetTableSpec
=============================================================================
