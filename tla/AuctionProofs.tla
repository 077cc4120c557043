--------------------------- MODULE AuctionProofs ---------------------------
(***************************************************************************)
(* What the auction guarantees for any number of orders, riders, fares and *)
(* calls under way, and any window lengths: the type invariant, the        *)
(* inductive invariant IInv and the safety properties of module Auction    *)
(* that follow from it.                                                    *)
(***************************************************************************)
EXTENDS Auction, TLAPS

\* The clock and window arithmetic used below stays in the naturals.
LEMMA ConstantTypes ==
  /\ Grace \in Nat /\ Jitter \in Nat /\ RaiseMin \in Nat /\ Cap \in Nat
  /\ NormalWindow \in Nat /\ NormalWindow <= Cap
  /\ \A w \in WindowLengths : w \in Nat /\ NormalWindow <= w /\ w <= Cap
  /\ \A f \in Fares : f \in Nat
  /\ NoTime \notin Nat
BY TimesAssumption, FaresAssumption DEF NoTime

\* offerWindowEndAfterRaise never moves a window end back, keeps it within the
\* cap, and gives the riders RaiseMin from the raise unless the cap cuts it.
LEMMA EndAfterRaiseBounds ==
  ASSUME NEW created \in Nat, NEW end \in Nat, NEW at \in Nat
  PROVE  /\ EndAfterRaise(created, end, at) \in Nat
         /\ end <= EndAfterRaise(created, end, at)
         /\ end <= created + Cap => EndAfterRaise(created, end, at) <= created + Cap
         /\ Earlier(at + RaiseMin, created + Cap) <= EndAfterRaise(created, end, at)
BY ConstantTypes DEF EndAfterRaise, Later, Earlier

\* Closing an order keeps the two tables well typed.
LEMMA CloseType ==
  ASSUME TypeOK, NEW o \in Orders, NEW st \in Statuses, NEW ost \in OfferStatuses, Close(o, st, ost)
  PROVE  /\ status' \in [Orders -> Statuses]
         /\ offerStatus' \in [Orders -> [Riders -> OfferStatuses]]
         /\ UNCHANGED <<fare, createdAt, endsAt, sized, raisedAt, rider, agreedFare,
                         offerFare, offerAt>>
BY DEF TypeOK, Close

\* An empty database is of the right shape.
LEMMA InitTypeOK == Init => TypeOK
BY ConstantTypes DEF Init, TypeOK, Statuses, OfferStatuses, Bids, Picks, Raises, Reprices, Jobs

\* A new row is of the right shape.
LEMMA OpenRowType ==
  ASSUME TypeOK, NEW o \in Orders, NEW f \in Fares, NEW end \in Nat, OpenRow(o, f, end)
  PROVE  /\ status' \in [Orders -> Statuses] /\ fare' \in [Orders -> Nat]
         /\ createdAt' \in [Orders -> Nat] /\ endsAt' \in [Orders -> Nat]
BY ConstantTypes DEF TypeOK, OpenRow, Statuses

\* Whatever is scheduled, the queue holds jobs.
LEMMA ScheduleType ==
  ASSUME TypeOK, NEW o \in Orders, NEW at \in Nat
  PROVE  Schedule(o, at) \subseteq Jobs
BY DEF TypeOK, Schedule, Jobs

\* Every handler, job and sweep step keeps the state well typed.
LEMMA NextTypeOK == TypeOK /\ [Next]_vars => TypeOK'
<1> SUFFICES ASSUME TypeOK, [Next]_vars PROVE TypeOK'
  OBVIOUS
<1> USE ConstantTypes
<1>1. CASE \E o \in Orders, f \in Fares, w \in WindowLengths, jitter \in 0..Jitter :
             CreateOrder(o, f, w, jitter)
  <2> PICK o \in Orders, f \in Fares, w \in WindowLengths, jitter \in 0..Jitter :
             CreateOrder(o, f, w, jitter)
    BY <1>1
  <2>1. clock + w \in Nat /\ clock + w + jitter \in Nat
    BY DEF TypeOK
  <2>2. OpenRow(o, f, clock + w) /\ jobs' = Schedule(o, clock + w + jitter)
    BY DEF CreateOrder
  <2>3. jobs' \subseteq Jobs
    BY <2>1, <2>2, ScheduleType
  <2>4. QED
    BY <2>1, <2>2, <2>3, OpenRowType DEF TypeOK, CreateOrder, OpenRow, offerRows
<1>2. CASE \E o \in Orders, r \in Riders, f \in Fares : MakeOfferCheck(o, r, f)
  BY <1>2 DEF TypeOK, MakeOfferCheck, Bids, orderRow, offerRows
<1>3. CASE \E b \in bids : MakeOfferCommit(b)
  <2> PICK b \in bids : MakeOfferCommit(b)
    BY <1>3
  <2>1. b.order \in Orders /\ b.rider \in Riders /\ b.fare \in Nat
    BY DEF TypeOK, Bids
  <2>2. "pending" \in OfferStatuses
    BY DEF OfferStatuses
  <2>3. QED
    BY <2>1, <2>2 DEF TypeOK, MakeOfferCommit, orderRow
<1>4. CASE \E b \in bids : MakeOfferRefused(b)
  BY <1>4 DEF TypeOK, MakeOfferRefused, orderRow, offerRows
<1>5. CASE \E o \in Orders, r \in Riders : WithdrawOffer(o, r)
  BY <1>5 DEF TypeOK, WithdrawOffer, OfferStatuses, orderRow, requests
<1>6. CASE \E o \in Orders, f \in Fares : RaisePriceRead(o, f)
  BY <1>6 DEF TypeOK, RaisePriceRead, Raises, orderRow, offerRows
<1>7. CASE \E q \in raises : RaisePriceCommit(q)
  <2> PICK q \in raises : RaisePriceCommit(q)
    BY <1>7
  <2>1. q.order \in Orders /\ q.fare \in Nat /\ q.at \in Nat /\ q.end \in Nat
    BY DEF TypeOK, Raises
  <2>2. EndAfterRaise(createdAt[q.order], q.end, q.at) \in Nat
    BY <2>1, EndAfterRaiseBounds DEF TypeOK
  <2>3. QED
    BY <2>1, <2>2 DEF TypeOK, RaisePriceCommit, ExtendWindow, offerRows
<1>8. CASE \E q \in raises : RaisePriceRefused(q)
  BY <1>8 DEF TypeOK, RaisePriceRefused, orderRow, offerRows
<1>9. CASE \E o \in Orders, r \in Riders : SelectOfferRead(o, r)
  <2> PICK o \in Orders, r \in Riders : SelectOfferRead(o, r)
    BY <1>9
  <2>1. [order |-> o, rider |-> r, fare |-> offerFare[o][r], at |-> clock] \in Picks
    BY DEF TypeOK, Picks
  <2>2. picks' \subseteq Picks
    BY <2>1 DEF TypeOK, SelectOfferRead
  <2>3. QED
    BY <2>2 DEF TypeOK, SelectOfferRead, orderRow, offerRows
<1>10. CASE \E p \in picks : SelectOfferCommit(p)
  <2> PICK p \in picks : SelectOfferCommit(p)
    BY <1>10
  <2>1. p.order \in Orders /\ p.rider \in Riders /\ p.fare \in Nat
    BY DEF TypeOK, Picks
  <2>2. offerStatus' \in [Orders -> [Riders -> OfferStatuses]]
    BY <2>1 DEF TypeOK, SelectOfferCommit, OfferStatuses
  <2>3. "assigned" \in Statuses
    BY DEF Statuses
  <2>4. QED
    BY <2>1, <2>2, <2>3 DEF TypeOK, SelectOfferCommit
<1>11. CASE \E p \in picks : SelectOfferRefused(p)
  BY <1>11 DEF TypeOK, SelectOfferRefused, orderRow, offerRows
<1>12. CASE \E j \in jobs : RunExpireJob(j)
  <2> PICK j \in jobs : RunExpireJob(j)
    BY <1>12
  <2>1. j.order \in Orders
    BY DEF TypeOK, Jobs
  <2>2. [order |-> j.order, at |-> RetryAt(j.order)] \in Jobs
    BY <2>1 DEF TypeOK, Jobs, RetryAt
  <2>3. jobs' \subseteq Jobs
    BY <2>2 DEF TypeOK, RunExpireJob
  <2>4. CASE Close(j.order, "expired", "expired")
    <3>1. "expired" \in Statuses /\ "expired" \in OfferStatuses
      BY DEF Statuses, OfferStatuses
    <3>2. QED
      BY <2>1, <2>3, <2>4, <3>1, CloseType DEF TypeOK, RunExpireJob, requests
  <2>5. CASE UNCHANGED <<orderRow, offerRows>>
    BY <2>3, <2>5 DEF TypeOK, RunExpireJob, requests, orderRow, offerRows
  <2>6. QED
    BY <2>4, <2>5 DEF RunExpireJob
<1>13. CASE \E j \in jobs : LoseJob(j)
  BY <1>13 DEF TypeOK, LoseJob, orderRow, offerRows, requests
<1>14. CASE SweepRead
  BY <1>14 DEF TypeOK, SweepRead, orderRow, offerRows, requests
<1>15. CASE \E o \in sweep : SweepOrder(o)
  <2> PICK o \in sweep : SweepOrder(o)
    BY <1>15
  <2>1. o \in Orders
    BY DEF TypeOK
  <2>2. CASE Close(o, "expired", "expired")
    <3>1. "expired" \in Statuses /\ "expired" \in OfferStatuses
      BY DEF Statuses, OfferStatuses
    <3>2. QED
      BY <2>1, <2>2, <3>1, CloseType DEF TypeOK, SweepOrder, requests
  <2>3. CASE UNCHANGED <<orderRow, offerRows>>
    BY <2>3 DEF TypeOK, SweepOrder, requests, orderRow, offerRows
  <2>4. QED
    BY <2>2, <2>3 DEF SweepOrder
<1>16. CASE \E o \in Orders : CancelOrder(o)
  <2> PICK o \in Orders : CancelOrder(o)
    BY <1>16
  <2>1. "cancelled" \in Statuses /\ "declined" \in OfferStatuses
    BY DEF Statuses, OfferStatuses
  <2>2. Close(o, "cancelled", "declined")
    BY DEF CancelOrder
  <2>3. QED
    BY <2>1, <2>2, CloseType DEF TypeOK, CancelOrder, requests
<1>17. CASE \E o \in Orders : EndTrip(o)
  BY <1>17 DEF TypeOK, EndTrip, Statuses, offerRows, requests
<1>18. CASE Tick
  BY <1>18 DEF TypeOK, Tick, orderRow, offerRows, requests
<1>19. CASE UNCHANGED vars
  BY <1>19 DEF TypeOK, vars, orderRow, offerRows, requests
<1>20. CASE \E o \in Orders, f \in Fares, w \in WindowLengths, bySupply \in BOOLEAN :
              CloneOrder(o, f, w, bySupply)
  <2> PICK o \in Orders, f \in Fares, w \in WindowLengths, bySupply \in BOOLEAN :
             CloneOrder(o, f, w, bySupply)
    BY <1>20
  <2> DEFINE end == clock + (IF bySupply THEN w ELSE NormalWindow)
  <2>1. end \in Nat
    BY DEF TypeOK
  <2>2. o \in Clones /\ OpenRow(o, f, end)
    BY DEF CloneOrder
  <2> HIDE DEF end
  <2>3. QED
    BY <2>1, <2>2, OpenRowType DEF TypeOK, CloneOrder, OpenRow, offerRows
<1>21. CASE \E o \in announces, w \in WindowLengths, jitter \in 0..Jitter :
              AnnounceOrder(o, w, jitter)
  <2> PICK o \in announces, w \in WindowLengths, jitter \in 0..Jitter :
             AnnounceOrder(o, w, jitter)
    BY <1>21
  <2>1. o \in Orders
    BY ClonesAssumption DEF TypeOK
  <2>2. endsAt' \in [Orders -> Nat] /\ endsAt'[o] \in Nat /\ createdAt[o] + w \in Nat
    BY <2>1 DEF TypeOK, AnnounceOrder
  <2>3. PICK end \in Nat : jobs' = Schedule(o, Later(clock, end) + jitter)
    BY <2>2 DEF AnnounceOrder
  <2>4. Later(clock, end) + jitter \in Nat
    BY DEF TypeOK, Later
  <2>5. jobs' \subseteq Jobs
    BY <2>1, <2>3, <2>4, ScheduleType
  <2>6. QED
    BY <2>1, <2>2, <2>5 DEF TypeOK, AnnounceOrder, offerRows
<1>22. CASE \E o \in announces : AnnounceDropped(o)
  BY <1>22 DEF TypeOK, AnnounceDropped, orderRow, offerRows
<1>23. CASE \E o \in Orders, f \in Fares : RepriceRead(o, f)
  <2> PICK o \in Orders, f \in Fares : RepriceRead(o, f)
    BY <1>23
  <2>1. [order |-> o, fare |-> f, raised |-> fare[o] < f, at |-> clock, end |-> endsAt[o]]
          \in Reprices
    BY DEF TypeOK, RepriceRead, Reprices
  <2>2. reprices' \subseteq Reprices
    BY <2>1 DEF TypeOK, RepriceRead
  <2>3. QED
    BY <2>2 DEF TypeOK, RepriceRead, orderRow, offerRows
<1>24. CASE \E q \in reprices : RepriceCommit(q)
  <2> PICK q \in reprices : RepriceCommit(q)
    BY <1>24
  <2>1. q.order \in Orders /\ q.fare \in Nat /\ q.at \in Nat /\ q.end \in Nat
    BY ClonesAssumption DEF TypeOK, Reprices
  <2>2. EndAfterRaise(createdAt[q.order], q.end, q.at) \in Nat
    BY <2>1, EndAfterRaiseBounds DEF TypeOK
  <2>3. /\ raisedAt' \in [Orders -> Nat \cup {NoTime}]
        /\ endsAt' \in [Orders -> Nat]
        /\ sized' \in [Orders -> BOOLEAN]
    <3>1. CASE ExtendWindow(q)
      <4>1. raisedAt' \in [Orders -> Nat \cup {NoTime}]
        BY <2>1, <3>1 DEF TypeOK, ExtendWindow
      <4>2. endsAt' \in [Orders -> Nat]
        BY <2>1, <2>2, <3>1 DEF TypeOK, ExtendWindow
      <4>3. sized' \in [Orders -> BOOLEAN]
        BY <2>1, <3>1 DEF TypeOK, ExtendWindow
      <4>4. QED
        BY <4>1, <4>2, <4>3
    <3>2. CASE UNCHANGED <<raisedAt, endsAt, sized>>
      BY <3>2 DEF TypeOK
    <3>3. QED
      BY <3>1, <3>2 DEF RepriceCommit
  <2>4. QED
    BY <2>1, <2>3 DEF TypeOK, RepriceCommit, offerRows
<1>25. CASE \E q \in reprices : RepriceRefused(q)
  BY <1>25 DEF TypeOK, RepriceRefused, orderRow, offerRows
<1>26. QED
  BY <1>1, <1>2, <1>3, <1>4, <1>5, <1>6, <1>7, <1>8, <1>9, <1>10, <1>11, <1>12, <1>13,
     <1>14, <1>15, <1>16, <1>17, <1>18, <1>19, <1>20, <1>21, <1>22, <1>23, <1>24, <1>25
     DEF Next

\* In every reachable state of the auction the rows, the calls under way, the
\* jobs and the clock have the shape the schema and the handlers give them.
THEOREM TypeCorrect == Spec => []TypeOK
BY InitTypeOK, NextTypeOK, PTL DEF Spec

-----------------------------------------------------------------------------
(***************************************************************************)
(* The safety properties speak of the order rows and the offers. RowStep   *)
(* lists what any step of the auction does to those rows.                  *)
(***************************************************************************)
\* A new order is on the board, its window sized or of the normal length.
NewRow ==
  \E o \in Orders, f \in Fares, end \in Nat :
    /\ OpenRow(o, f, end)
    /\ end <= clock + Cap
    /\ \/ sized' = [sized EXCEPT ![o] = TRUE]
       \/ sized' = [sized EXCEPT ![o] = FALSE] /\ end = clock + NormalWindow

RowStep ==
  \/ UNCHANGED <<orderRow, offerRows>>
  \/ NewRow
  \/ \E o \in Orders, w \in WindowLengths, jitter \in 0..Jitter : AnnounceOrder(o, w, jitter)
  \/ \E b \in bids : MakeOfferCommit(b)
  \/ \E o \in Orders, r \in Riders : WithdrawOffer(o, r)
  \/ \E q \in raises : RaisePriceCommit(q)
  \/ \E q \in reprices : RepriceCommit(q)
  \/ \E p \in picks : SelectOfferCommit(p)
  \/ \E o \in Orders : Due(o) /\ Close(o, "expired", "expired") /\ clock' = clock
  \/ \E o \in Orders : /\ status[o] \in {"open_for_offers", "assigned"}
                       /\ Close(o, "cancelled", "declined")
  \/ \E o \in Orders : EndTrip(o)

\* Every action, as far as the order and offer rows go, is one of the few row
\* steps that RowStep lists.
LEMMA StepIsRowStep == TypeOK /\ [Next]_vars => RowStep
<1> SUFFICES ASSUME TypeOK, [Next]_vars PROVE RowStep
  OBVIOUS
<1>1. CASE \E j \in jobs : RunExpireJob(j)
  <2> PICK j \in jobs : RunExpireJob(j)
    BY <1>1
  <2>1. j.order \in Orders
    BY DEF TypeOK, Jobs
  <2>2. QED
    BY <2>1 DEF RowStep, RunExpireJob
<1>2. CASE \E o \in sweep : SweepOrder(o)
  BY <1>2 DEF TypeOK, RowStep, SweepOrder
<1>3. CASE \E o \in Orders : CancelOrder(o)
  BY <1>3 DEF RowStep, CancelOrder
<1>4. CASE UNCHANGED vars
  BY <1>4 DEF RowStep, vars
<1>5. CASE SweepRead \/ Tick \/ \E j \in jobs : LoseJob(j)
  BY <1>5 DEF RowStep, SweepRead, Tick, LoseJob
<1>6. CASE \/ \E o \in Orders, r \in Riders, f \in Fares : MakeOfferCheck(o, r, f)
           \/ \E b \in bids : MakeOfferRefused(b)
           \/ \E o \in Orders, f \in Fares : RaisePriceRead(o, f)
           \/ \E q \in raises : RaisePriceRefused(q)
           \/ \E o \in Orders, r \in Riders : SelectOfferRead(o, r)
           \/ \E p \in picks : SelectOfferRefused(p)
  BY <1>6 DEF RowStep, MakeOfferCheck, MakeOfferRefused, RaisePriceRead,
              RaisePriceRefused, SelectOfferRead, SelectOfferRefused
<1>7. CASE \E o \in Orders, f \in Fares, w \in WindowLengths, jitter \in 0..Jitter :
             CreateOrder(o, f, w, jitter)
  <2> PICK o \in Orders, f \in Fares, w \in WindowLengths, jitter \in 0..Jitter :
             CreateOrder(o, f, w, jitter)
    BY <1>7
  <2>1. clock + w \in Nat /\ clock + w <= clock + Cap
    BY ConstantTypes DEF TypeOK
  <2>2. QED
    BY <2>1 DEF RowStep, NewRow, CreateOrder
<1>8. CASE \E o \in Orders, f \in Fares, w \in WindowLengths, bySupply \in BOOLEAN :
             CloneOrder(o, f, w, bySupply)
  <2> PICK o \in Orders, f \in Fares, w \in WindowLengths, bySupply \in BOOLEAN :
             CloneOrder(o, f, w, bySupply)
    BY <1>8
  <2>1. \A v \in {w, NormalWindow} : clock + v \in Nat /\ clock + v <= clock + Cap
    BY ConstantTypes DEF TypeOK
  <2>2. QED
    BY <2>1 DEF RowStep, NewRow, CloneOrder
<1>9. CASE \E o \in announces, w \in WindowLengths, jitter \in 0..Jitter :
             AnnounceOrder(o, w, jitter)
  BY <1>9, ClonesAssumption DEF TypeOK, RowStep
<1>10. CASE \/ \E o \in announces : AnnounceDropped(o)
            \/ \E o \in Orders, f \in Fares : RepriceRead(o, f)
            \/ \E q \in reprices : RepriceRefused(q)
  BY <1>10 DEF RowStep, AnnounceDropped, RepriceRead, RepriceRefused
<1>11. QED
  BY <1>1, <1>2, <1>3, <1>4, <1>5, <1>6, <1>7, <1>8, <1>9, <1>10 DEF Next, RowStep

\* What closing an order does to the offers on it and to the rest of the rows.
LEMMA CloseRows ==
  ASSUME TypeOK, NEW o \in Orders, NEW st \in Statuses, NEW ost \in {"expired", "declined"},
         Close(o, st, ost)
  PROVE  /\ status' = [status EXCEPT ![o] = st]
         /\ \A r \in Riders : /\ offerStatus'[o][r] # "pending"
                              /\ offerStatus'[o][r] = "selected" <=> offerStatus[o][r] = "selected"
         /\ \A p \in Orders : p # o => offerStatus'[p] = offerStatus[p]
         /\ UNCHANGED <<fare, createdAt, endsAt, sized, raisedAt, rider, agreedFare>>
BY DEF TypeOK, Close

\* What a pick that lands does to the order, to its offers and to the rest.
LEMMA PickRows ==
  ASSUME TypeOK, NEW p \in picks, SelectOfferCommit(p)
  PROVE  /\ p.order \in Orders /\ p.rider \in Riders
         /\ Open(p.order) /\ ~OnJob(p.rider)
         /\ status' = [status EXCEPT ![p.order] = "assigned"]
         /\ rider' = [rider EXCEPT ![p.order] = p.rider]
         /\ agreedFare' = [agreedFare EXCEPT ![p.order] = p.fare]
         /\ \A r \in Riders :
              /\ offerStatus'[p.order][r] # "pending"
              /\ offerStatus'[p.order][r] = "selected"
                   <=> r = p.rider \/ offerStatus[p.order][r] = "selected"
         /\ \A o \in Orders : o # p.order => offerStatus'[o] = offerStatus[o]
         /\ UNCHANGED <<fare, createdAt, endsAt, sized, raisedAt>>
<1>1. p.order \in Orders /\ p.rider \in Riders
  BY DEF TypeOK, Picks
<1>2. offerStatus' = [offerStatus EXCEPT ![p.order] =
         [r \in Riders |-> IF r = p.rider THEN "selected"
                           ELSE IF offerStatus[p.order][r] = "pending" THEN "declined"
                           ELSE offerStatus[p.order][r]]]
  BY DEF SelectOfferCommit
<1>3. \A r \in Riders :
        offerStatus'[p.order][r] = IF r = p.rider THEN "selected"
                                   ELSE IF offerStatus[p.order][r] = "pending" THEN "declined"
                                   ELSE offerStatus[p.order][r]
  BY <1>1, <1>2 DEF TypeOK
<1>4. \A o \in Orders : o # p.order => offerStatus'[o] = offerStatus[o]
  BY <1>2 DEF TypeOK
<1>5. QED
  BY <1>1, <1>3, <1>4 DEF SelectOfferCommit, PickLands

\* An empty database satisfies the inductive invariant.
LEMMA InitIInv == Init => IInv
<1> SUFFICES ASSUME Init PROVE IInv
  OBVIOUS
<1>1. TypeOK
  BY InitTypeOK
<1>2. OneActiveRide /\ NoStrandedOffer
  BY DEF Init, OneActiveRide, NoStrandedOffer, Pending
<1>3. AssignmentMatchesOffers
  BY NoRiderAssumption DEF Init, AssignmentMatchesOffers
<1>4. WindowHolds
  BY ConstantTypes DEF Init, WindowHolds
<1>5. CallsWithinCap
  BY DEF Init, CallsWithinCap, Open
<1>6. QED
  BY <1>1, <1>2, <1>3, <1>4, <1>5 DEF IInv

\* A pick lands only for a rider on no ride, and no other step assigns anyone.
LEMMA RowStepOneRide == IInv /\ RowStep => OneActiveRide'
<1> SUFFICES ASSUME IInv, RowStep,
                    NEW o1 \in Orders, NEW o2 \in Orders,
                    status'[o1] = "assigned", status'[o2] = "assigned", rider'[o1] = rider'[o2]
             PROVE  o1 = o2
  BY DEF OneActiveRide
<1> USE DEF IInv, OneActiveRide
<1>1. CASE UNCHANGED <<orderRow, offerRows>>
  BY <1>1 DEF orderRow
<1>2. CASE NewRow
  BY <1>2 DEF TypeOK, NewRow, OpenRow
<1>3. CASE \/ \E b \in bids : MakeOfferCommit(b)
           \/ \E o \in Orders, r \in Riders : WithdrawOffer(o, r)
           \/ \E q \in raises : RaisePriceCommit(q)
           \/ \E q \in reprices : RepriceCommit(q)
           \/ \E o \in Orders, w \in WindowLengths, jitter \in 0..Jitter :
                AnnounceOrder(o, w, jitter)
  BY <1>3 DEF MakeOfferCommit, WithdrawOffer, RaisePriceCommit, RepriceCommit, AnnounceOrder,
              orderRow
<1>4. CASE \E p \in picks : SelectOfferCommit(p)
  <2> PICK p \in picks : SelectOfferCommit(p)
    BY <1>4
  <2>1. CASE o1 # p.order /\ o2 # p.order
    BY <2>1, PickRows DEF TypeOK
  <2>2. CASE o1 = p.order /\ o2 # p.order
    BY <2>2, PickRows DEF TypeOK, OnJob
  <2>3. CASE o1 # p.order /\ o2 = p.order
    BY <2>3, PickRows DEF TypeOK, OnJob
  <2>4. QED
    BY <2>1, <2>2, <2>3
<1>5. CASE \/ \E o \in Orders : Due(o) /\ Close(o, "expired", "expired") /\ clock' = clock
           \/ \E o \in Orders : /\ status[o] \in {"open_for_offers", "assigned"}
                                /\ Close(o, "cancelled", "declined")
  BY <1>5 DEF TypeOK, Close
<1>6. CASE \E o \in Orders : EndTrip(o)
  BY <1>6 DEF TypeOK, EndTrip
<1>7. QED
  BY <1>1, <1>2, <1>3, <1>4, <1>5, <1>6 DEF RowStep

\* A bid lands on an open order, and every step that closes an order leaves no
\* offer pending on it.
LEMMA RowStepNoStranded == IInv /\ RowStep => NoStrandedOffer'
<1> SUFFICES ASSUME IInv, RowStep,
                    NEW o1 \in Orders, NEW r1 \in Riders, offerStatus'[o1][r1] = "pending"
             PROVE  status'[o1] = "open_for_offers"
  BY DEF NoStrandedOffer, Pending, Open
<1>0. offerStatus[o1][r1] = "pending" => status[o1] = "open_for_offers"
  BY DEF IInv, NoStrandedOffer, Pending, Open
<1>1. CASE UNCHANGED <<orderRow, offerRows>>
  BY <1>0, <1>1 DEF orderRow, offerRows
<1>2. CASE NewRow
  BY <1>0, <1>2 DEF IInv, TypeOK, NewRow, OpenRow, offerRows
<1>3. CASE \E b \in bids : MakeOfferCommit(b)
  <2> PICK b \in bids : MakeOfferCommit(b)
    BY <1>3
  <2>1. b.order \in Orders /\ b.rider \in Riders
    BY DEF IInv, TypeOK, Bids
  <2>2. CASE o1 = b.order
    BY <2>2 DEF MakeOfferCommit, BidLands, Open, orderRow
  <2>3. CASE o1 # b.order
    BY <1>0, <2>1, <2>3 DEF IInv, TypeOK, MakeOfferCommit, orderRow
  <2>4. QED
    BY <2>2, <2>3
<1>4. CASE \E o \in Orders, r \in Riders : WithdrawOffer(o, r)
  <2> PICK o \in Orders, r \in Riders : WithdrawOffer(o, r)
    BY <1>4
  <2>1. offerStatus[o1][r1] = "pending"
    BY DEF IInv, TypeOK, WithdrawOffer
  <2>2. QED
    BY <1>0, <2>1 DEF WithdrawOffer, orderRow
<1>5. CASE \/ \E q \in raises : RaisePriceCommit(q)
           \/ \E q \in reprices : RepriceCommit(q)
           \/ \E o \in Orders, w \in WindowLengths, jitter \in 0..Jitter :
                AnnounceOrder(o, w, jitter)
  BY <1>0, <1>5 DEF RaisePriceCommit, RepriceCommit, AnnounceOrder, offerRows
<1>6. CASE \E p \in picks : SelectOfferCommit(p)
  <2> PICK p \in picks : SelectOfferCommit(p)
    BY <1>6
  <2>1. o1 # p.order /\ offerStatus[o1][r1] = "pending"
    BY PickRows DEF IInv
  <2>2. QED
    BY <1>0, <2>1, PickRows DEF IInv, TypeOK
<1>7. CASE \/ \E o \in Orders : Due(o) /\ Close(o, "expired", "expired") /\ clock' = clock
           \/ \E o \in Orders : /\ status[o] \in {"open_for_offers", "assigned"}
                                /\ Close(o, "cancelled", "declined")
  <2>1. PICK o \in Orders, st \in {"expired", "cancelled"}, ost \in {"expired", "declined"} :
          Close(o, st, ost)
    BY <1>7
  <2>2. st \in Statuses
    BY DEF Statuses
  <2>3. o1 # o /\ offerStatus[o1][r1] = "pending"
    BY <2>1, <2>2, CloseRows DEF IInv
  <2>4. QED
    BY <1>0, <2>1, <2>2, <2>3, CloseRows DEF IInv, TypeOK
<1>8. CASE \E o \in Orders : EndTrip(o)
  BY <1>0, <1>8 DEF IInv, TypeOK, EndTrip, offerRows
<1>9. QED
  BY <1>1, <1>2, <1>3, <1>4, <1>5, <1>6, <1>7, <1>8 DEF RowStep

\* What AssignmentMatchesOffers says of one order.
OneAssignment(o) ==
  /\ status[o] \in {"none", "open_for_offers", "expired"} => rider[o] = NoRider
  /\ status[o] \in {"assigned", "ended"} => rider[o] # NoRider
  /\ \A r \in Riders : offerStatus[o][r] = "selected" <=> rider[o] = r

\* A pick lands on an open order, which has neither a rider nor a selected
\* offer, and no other step selects an offer or names a rider.
LEMMA RowStepAssignment == IInv /\ RowStep => AssignmentMatchesOffers'
<1> SUFFICES ASSUME IInv, RowStep, NEW o1 \in Orders PROVE OneAssignment(o1)'
  BY DEF AssignmentMatchesOffers, OneAssignment
<1>0. OneAssignment(o1) /\ TypeOK
  BY DEF IInv, AssignmentMatchesOffers, OneAssignment
<1> USE DEF OneAssignment
<1>1. CASE UNCHANGED <<orderRow, offerRows>>
  BY <1>0, <1>1 DEF orderRow, offerRows
<1>2. CASE NewRow
  BY <1>0, <1>2 DEF TypeOK, NewRow, OpenRow, offerRows
<1>3. CASE \E b \in bids : MakeOfferCommit(b)
  <2> PICK b \in bids : MakeOfferCommit(b)
    BY <1>3
  <2>1. b.order \in Orders /\ b.rider \in Riders
    BY <1>0 DEF TypeOK, Bids
  <2>2. offerStatus[b.order][b.rider] # "selected"
    BY DEF MakeOfferCommit, BidLands, AnswersRaise
  <2>3. \A r \in Riders : offerStatus'[o1][r] = "selected" <=> offerStatus[o1][r] = "selected"
    BY <1>0, <2>1, <2>2 DEF TypeOK, MakeOfferCommit
  <2>4. QED
    BY <1>0, <2>3 DEF MakeOfferCommit, orderRow
<1>4. CASE \E o \in Orders, r \in Riders : WithdrawOffer(o, r)
  <2> PICK o \in Orders, r \in Riders : WithdrawOffer(o, r)
    BY <1>4
  <2>1. \A s \in Riders : offerStatus'[o1][s] = "selected" <=> offerStatus[o1][s] = "selected"
    BY <1>0 DEF TypeOK, WithdrawOffer
  <2>2. QED
    BY <1>0, <2>1 DEF WithdrawOffer, orderRow
<1>5. CASE \/ \E q \in raises : RaisePriceCommit(q)
           \/ \E q \in reprices : RepriceCommit(q)
           \/ \E o \in Orders, w \in WindowLengths, jitter \in 0..Jitter :
                AnnounceOrder(o, w, jitter)
  BY <1>0, <1>5 DEF RaisePriceCommit, RepriceCommit, AnnounceOrder, offerRows
<1>6. CASE \E p \in picks : SelectOfferCommit(p)
  <2> PICK p \in picks : SelectOfferCommit(p)
    BY <1>6
  <2>1. CASE o1 = p.order
    <3>1. rider[o1] = NoRider
      BY <1>0, <2>1, PickRows DEF Open
    <3>2. \A r \in Riders : offerStatus[o1][r] # "selected"
      BY <1>0, <3>1, NoRiderAssumption
    <3>3. status'[o1] = "assigned" /\ rider'[o1] = p.rider
      BY <1>0, <2>1, PickRows DEF TypeOK
    <3>4. \A r \in Riders : offerStatus'[o1][r] = "selected" <=> r = p.rider
      BY <1>0, <2>1, <3>2, PickRows
    <3>5. p.rider # NoRider
      BY <1>0, PickRows, NoRiderAssumption
    <3>6. QED
      BY <3>3, <3>4, <3>5
  <2>2. CASE o1 # p.order
    BY <1>0, <2>2, PickRows DEF TypeOK
  <2>3. QED
    BY <2>1, <2>2
<1>7. CASE \/ \E o \in Orders : Due(o) /\ Close(o, "expired", "expired") /\ clock' = clock
           \/ \E o \in Orders : /\ status[o] \in {"open_for_offers", "assigned"}
                                /\ Close(o, "cancelled", "declined")
  <2>1. PICK o \in Orders, st \in {"expired", "cancelled"}, ost \in {"expired", "declined"} :
          /\ Close(o, st, ost)
          /\ st = "expired" => Open(o)
    BY <1>7 DEF Due
  <2>2. st \in Statuses
    BY DEF Statuses
  <2>3. CASE o1 = o
    BY <1>0, <2>1, <2>2, <2>3, CloseRows DEF TypeOK, Open
  <2>4. CASE o1 # o
    BY <1>0, <2>1, <2>2, <2>4, CloseRows DEF TypeOK
  <2>5. QED
    BY <2>3, <2>4
<1>8. CASE \E o \in Orders : EndTrip(o)
  BY <1>0, <1>8 DEF TypeOK, EndTrip, offerRows
<1>9. QED
  BY <1>1, <1>2, <1>3, <1>4, <1>5, <1>6, <1>7, <1>8 DEF RowStep

\* What WindowHolds says of one order.
OneWindow(o) ==
  /\ endsAt[o] <= createdAt[o] + Cap
  /\ status[o] = "none" => raisedAt[o] = NoTime
  /\ raisedAt[o] # NoTime => Earlier(raisedAt[o] + RaiseMin, createdAt[o] + Cap) <= endsAt[o]

\* What a raise or a raising re-price writes, from an end within the cap.
LEMMA ExtendRows ==
  ASSUME TypeOK, NEW q, q.order \in Orders, q.at \in Nat, q.end \in Nat,
         q.end <= createdAt[q.order] + Cap, ExtendWindow(q)
  PROVE  /\ endsAt'[q.order] \in Nat /\ q.end <= endsAt'[q.order]
         /\ endsAt'[q.order] <= createdAt[q.order] + Cap
         /\ raisedAt'[q.order] = q.at
         /\ Earlier(q.at + RaiseMin, createdAt[q.order] + Cap) <= endsAt'[q.order]
         /\ sized'[q.order] = TRUE
         /\ \A o \in Orders : o # q.order => /\ endsAt'[o] = endsAt[o]
                                             /\ raisedAt'[o] = raisedAt[o]
                                             /\ sized'[o] = sized[o]
<1> DEFINE end == EndAfterRaise(createdAt[q.order], q.end, q.at)
<1>1. createdAt[q.order] \in Nat
  BY DEF TypeOK
<1>2. /\ end \in Nat /\ q.end <= end /\ end <= createdAt[q.order] + Cap
      /\ Earlier(q.at + RaiseMin, createdAt[q.order] + Cap) <= end
  BY <1>1, EndAfterRaiseBounds
<1>3. endsAt' = [endsAt EXCEPT ![q.order] = end]
  BY DEF ExtendWindow
<1> HIDE DEF end
<1>4. QED
  BY <1>2, <1>3 DEF TypeOK, ExtendWindow

\* A new row, a raise, a raising re-price and a late sizing set the window; each
\* computes the end from one the order has had, which was within the cap.
LEMMA RowStepWindow == IInv /\ RowStep => WindowHolds'
<1> SUFFICES ASSUME IInv, RowStep, NEW o1 \in Orders PROVE OneWindow(o1)'
  BY DEF WindowHolds, OneWindow
<1>0. OneWindow(o1) /\ TypeOK
  BY DEF IInv, WindowHolds, OneWindow
<1> USE DEF OneWindow
<1>1. CASE NewRow
  <2> PICK o \in Orders, f \in Fares, end \in Nat : OpenRow(o, f, end) /\ end <= clock + Cap
    BY <1>1 DEF NewRow
  <2>1. CASE o1 = o
    <3>1. createdAt'[o1] = clock /\ endsAt'[o1] = end /\ raisedAt'[o1] = NoTime
      BY <1>0, <2>1 DEF TypeOK, OpenRow
    <3>2. QED
      BY <3>1
  <2>2. CASE o1 # o
    BY <1>0, <2>2 DEF TypeOK, OpenRow
  <2>3. QED
    BY <2>1, <2>2
<1>2. CASE \E q \in raises : RaisePriceCommit(q)
  <2> PICK q \in raises : RaisePriceCommit(q)
    BY <1>2
  <2>1. q.order \in Orders /\ q.at \in Nat /\ q.end \in Nat
    BY <1>0 DEF TypeOK, Raises
  <2>2. /\ ExtendWindow(q) /\ Open(q.order) /\ endsAt[q.order] = q.end
        /\ UNCHANGED <<createdAt, status>>
    BY DEF RaisePriceCommit, RaiseLands
  <2>3. q.end <= createdAt[q.order] + Cap
    BY <2>1, <2>2 DEF IInv, WindowHolds
  <2>4. QED
    BY <1>0, <2>1, <2>2, <2>3, ExtendRows DEF Open
<1>3. CASE \E q \in reprices : RepriceCommit(q)
  <2> PICK q \in reprices : RepriceCommit(q)
    BY <1>3
  <2>1. q.order \in Orders /\ q.at \in Nat /\ q.end \in Nat
    BY <1>0, ClonesAssumption DEF TypeOK, Reprices
  <2>2. Open(q.order) /\ UNCHANGED <<createdAt, status>>
    BY DEF RepriceCommit
  <2>3. q.end <= createdAt[q.order] + Cap
    BY DEF IInv, CallsWithinCap
  <2>4. CASE ExtendWindow(q)
    BY <1>0, <2>1, <2>2, <2>3, <2>4, ExtendRows DEF Open
  <2>5. CASE UNCHANGED <<raisedAt, endsAt>>
    BY <1>0, <2>2, <2>5
  <2>6. QED
    BY <2>4, <2>5 DEF RepriceCommit
<1>4. CASE \E o \in Orders, w \in WindowLengths, jitter \in 0..Jitter : AnnounceOrder(o, w, jitter)
  <2> PICK o \in Orders, w \in WindowLengths, jitter \in 0..Jitter : AnnounceOrder(o, w, jitter)
    BY <1>4
  <2>1. UNCHANGED <<status, createdAt, raisedAt>> /\ createdAt[o] \in Nat /\ endsAt[o] \in Nat
    BY <1>0 DEF AnnounceOrder, TypeOK
  <2>2. CASE sized[o]
    BY <1>0, <2>1, <2>2 DEF AnnounceOrder
  <2>3. CASE ~sized[o]
    <3>1. endsAt[o] = createdAt[o] + NormalWindow
      BY <2>3 DEF AnnounceOrder, IInv, CallsWithinCap
    <3>2. endsAt'[o] = createdAt[o] + w /\ (o1 # o => endsAt'[o1] = endsAt[o1])
      BY <1>0, <2>3 DEF AnnounceOrder, TypeOK
    <3>3. endsAt[o] <= endsAt'[o] /\ endsAt'[o] <= createdAt[o] + Cap
      BY <2>1, <3>1, <3>2, ConstantTypes
    <3>4. o1 = o /\ raisedAt[o1] # NoTime
            => Earlier(raisedAt[o1] + RaiseMin, createdAt[o1] + Cap) <= endsAt'[o1]
      <4>1. SUFFICES ASSUME o1 = o, raisedAt[o1] # NoTime
                     PROVE  Earlier(raisedAt[o1] + RaiseMin, createdAt[o1] + Cap) <= endsAt'[o1]
        OBVIOUS
      <4>2. raisedAt[o1] \in Nat /\ endsAt'[o1] \in Nat
        BY <1>0, <2>1, <3>2, <4>1, ConstantTypes DEF TypeOK
      <4>3. QED
        BY <1>0, <2>1, <3>3, <4>1, <4>2, ConstantTypes DEF Earlier
    <3>5. QED
      BY <1>0, <2>1, <3>2, <3>3, <3>4
  <2>4. QED
    BY <2>2, <2>3
<1>5. CASE /\ UNCHANGED <<createdAt, endsAt, raisedAt>>
           /\ status'[o1] = "none" => status[o1] = "none"
  BY <1>0, <1>5
<1>6. QED
  BY <1>0, <1>1, <1>2, <1>3, <1>4, <1>5
  DEF RowStep, MakeOfferCommit, WithdrawOffer, SelectOfferCommit, Close, EndTrip,
      TypeOK, orderRow

\* An unsized window is the normal one, and every change of it sizes it.
LEMMA RowStepUnsized ==
  IInv /\ RowStep =>
    \A o \in Orders : Open(o)' /\ ~sized'[o] => endsAt'[o] = createdAt'[o] + NormalWindow
<1> SUFFICES ASSUME IInv, RowStep, NEW o1 \in Orders, Open(o1)', ~sized'[o1]
             PROVE  endsAt'[o1] = createdAt'[o1] + NormalWindow
  OBVIOUS
<1>0. TypeOK /\ (Open(o1) /\ ~sized[o1] => endsAt[o1] = createdAt[o1] + NormalWindow)
  BY DEF IInv, CallsWithinCap
<1>1. CASE NewRow
  <2> PICK o \in Orders, f \in Fares, end \in Nat :
         /\ OpenRow(o, f, end)
         /\ \/ sized' = [sized EXCEPT ![o] = TRUE]
            \/ sized' = [sized EXCEPT ![o] = FALSE] /\ end = clock + NormalWindow
    BY <1>1 DEF NewRow
  <2>1. CASE o1 = o
    <3>1. createdAt'[o1] = clock /\ endsAt'[o1] = end
      BY <1>0, <2>1 DEF TypeOK, OpenRow
    <3>2. end = clock + NormalWindow
      BY <1>0, <2>1 DEF TypeOK
    <3>3. QED
      BY <3>1, <3>2
  <2>2. CASE o1 # o
    BY <1>0, <2>2 DEF TypeOK, OpenRow, Open
  <2>3. QED
    BY <2>1, <2>2
<1>2. CASE \E q \in raises : RaisePriceCommit(q)
  <2> PICK q \in raises : RaisePriceCommit(q)
    BY <1>2
  <2>1. o1 # q.order
    BY <1>0 DEF RaisePriceCommit, ExtendWindow, TypeOK
  <2>2. QED
    BY <1>0, <2>1 DEF RaisePriceCommit, ExtendWindow, TypeOK, Open
<1>3. CASE \E q \in reprices : RepriceCommit(q)
  <2> PICK q \in reprices : RepriceCommit(q)
    BY <1>3
  <2>1. CASE ExtendWindow(q)
    <3>1. o1 # q.order
      BY <1>0, <2>1 DEF ExtendWindow, TypeOK
    <3>2. QED
      BY <1>0, <2>1, <3>1 DEF RepriceCommit, ExtendWindow, TypeOK, Open
  <2>2. CASE UNCHANGED <<endsAt, sized>>
    BY <1>0, <2>2 DEF RepriceCommit, Open
  <2>3. QED
    BY <2>1, <2>2 DEF RepriceCommit
<1>4. CASE \E o \in Orders, w \in WindowLengths, jitter \in 0..Jitter : AnnounceOrder(o, w, jitter)
  <2> PICK o \in Orders, w \in WindowLengths, jitter \in 0..Jitter : AnnounceOrder(o, w, jitter)
    BY <1>4
  <2>1. o1 # o
    BY <1>0 DEF AnnounceOrder, TypeOK
  <2>2. QED
    BY <1>0, <2>1 DEF AnnounceOrder, TypeOK, Open
<1>6. CASE \/ \E o \in Orders : Due(o) /\ Close(o, "expired", "expired") /\ clock' = clock
           \/ \E o \in Orders : /\ status[o] \in {"open_for_offers", "assigned"}
                                /\ Close(o, "cancelled", "declined")
  BY <1>0, <1>6 DEF Close, TypeOK, Open
<1>7. CASE \/ \E p \in picks : SelectOfferCommit(p)
           \/ \E o \in Orders : EndTrip(o)
  BY <1>0, <1>7 DEF SelectOfferCommit, EndTrip, TypeOK, Open
<1>8. CASE \/ UNCHANGED <<orderRow, offerRows>>
           \/ \E b \in bids : MakeOfferCommit(b)
           \/ \E o \in Orders, r \in Riders : WithdrawOffer(o, r)
  BY <1>0, <1>8 DEF MakeOfferCommit, WithdrawOffer, orderRow, Open
<1>9. QED
  BY <1>1, <1>2, <1>3, <1>4, <1>6, <1>7, <1>8 DEF RowStep

\* No row step takes an order back to nothing or moves its birth.
LEMMA RowStepBirth ==
  ASSUME IInv, RowStep, NEW o1 \in Orders, status[o1] # "none"
  PROVE  status'[o1] # "none" /\ createdAt'[o1] = createdAt[o1]
<1>1. CASE NewRow
  BY <1>1 DEF IInv, TypeOK, NewRow, OpenRow
<1>2. CASE \/ \E o \in Orders : Due(o) /\ Close(o, "expired", "expired") /\ clock' = clock
           \/ \E o \in Orders : /\ status[o] \in {"open_for_offers", "assigned"}
                                /\ Close(o, "cancelled", "declined")
  BY <1>2 DEF IInv, TypeOK, Close
<1>3. CASE \E p \in picks : SelectOfferCommit(p)
  BY <1>3 DEF IInv, TypeOK, SelectOfferCommit
<1>4. CASE \E o \in Orders : EndTrip(o)
  BY <1>4 DEF IInv, TypeOK, EndTrip
<1>5. CASE UNCHANGED <<status, createdAt>>
  BY <1>5
<1>6. QED
  BY <1>1, <1>2, <1>3, <1>4, <1>5
  DEF RowStep, MakeOfferCommit, WithdrawOffer, RaisePriceCommit, RepriceCommit, AnnounceOrder,
      orderRow

\* A re-price reads an end within the cap of an order that stays born.
LEMMA NextCalls == IInv /\ [Next]_vars => CallsWithinCap'
<1> SUFFICES ASSUME IInv, [Next]_vars PROVE CallsWithinCap'
  OBVIOUS
<1>1. RowStep
  BY StepIsRowStep DEF IInv
<1>2. ASSUME NEW q \in reprices, q \in reprices'
      PROVE  status'[q.order] # "none" /\ q.end <= createdAt'[q.order] + Cap
  <2>1. q.order \in Orders
    BY ClonesAssumption DEF IInv, TypeOK, Reprices
  <2>2. QED
    BY <1>1, <2>1, RowStepBirth DEF IInv, CallsWithinCap
<1>3. ASSUME NEW q \in reprices', q \notin reprices
      PROVE  status'[q.order] # "none" /\ q.end <= createdAt'[q.order] + Cap
  <2>1. \E o \in Orders, f \in Fares : RepriceRead(o, f)
    BY <1>3 DEF Next, vars, requests, CreateOrder, CloneOrder, OpenRow, AnnounceOrder,
       AnnounceDropped, MakeOfferCheck, MakeOfferCommit, MakeOfferRefused, WithdrawOffer,
       RaisePriceRead, RaisePriceCommit, RaisePriceRefused, RepriceCommit, RepriceRefused,
       SelectOfferRead, SelectOfferCommit, SelectOfferRefused, RunExpireJob, LoseJob,
       SweepRead, SweepOrder, CancelOrder, EndTrip, Tick
  <2> PICK o \in Orders, f \in Fares : RepriceRead(o, f)
    BY <2>1
  <2>2. q.order = o /\ q.end = endsAt[o]
    BY <1>3 DEF RepriceRead
  <2>3. QED
    BY <2>2 DEF RepriceRead, orderRow, Open, IInv, WindowHolds
<1>4. QED
  BY <1>1, <1>2, <1>3, RowStepUnsized DEF CallsWithinCap

\* Every step keeps the inductive invariant.
LEMMA NextIInv == IInv /\ [Next]_vars => IInv'
BY NextTypeOK, StepIsRowStep, RowStepOneRide, RowStepNoStranded, RowStepAssignment,
   RowStepWindow, NextCalls DEF IInv

\* The inductive invariant holds in every reachable state.
LEMMA InductiveInvariant == Spec => []IInv
BY InitIInv, NextIInv, PTL DEF Spec

\* A rider is never on two rides at once, however many customers pick them at
\* the same moment.
THEOREM OneRidePerRider == Spec => []OneActiveRide
BY InductiveInvariant, PTL DEF IInv

\* Whatever bid races whatever pick, expiry or cancel, no offer stays pending
\* on an order that has left the board.
THEOREM NoOfferStranded == Spec => []NoStrandedOffer
BY InductiveInvariant, PTL DEF IInv

\* The order's rider and its selected offer always name the same rider.
THEOREM AssignmentConsistent == Spec => []AssignmentMatchesOffers
BY InductiveInvariant, PTL DEF IInv

\* An auction's end stays within its cap, and after a raise it leaves the
\* promised time, whatever raises race.
THEOREM WindowPromiseKept == Spec => []WindowHolds
BY InductiveInvariant, PTL DEF IInv

-----------------------------------------------------------------------------
(***************************************************************************)
(* The action properties, from the same invariant.                         *)
(***************************************************************************)
\* The first pick wins: no later pick, bid, expiry or cancel changes the rider
\* or the agreed fare of an order that has a rider.
THEOREM FirstPickWins == Spec => NeverReassigned
<1>1. IInv /\ [Next]_vars =>
        \A o \in Orders :
          rider[o] # NoRider => rider'[o] = rider[o] /\ agreedFare'[o] = agreedFare[o]
  <2> SUFFICES ASSUME IInv, RowStep, NEW o \in Orders, rider[o] # NoRider
               PROVE  rider'[o] = rider[o] /\ agreedFare'[o] = agreedFare[o]
    BY StepIsRowStep DEF IInv
  <2>1. CASE \E p \in picks : SelectOfferCommit(p)
    <3> PICK p \in picks : SelectOfferCommit(p)
      BY <2>1
    <3>1. o # p.order
      BY PickRows DEF IInv, AssignmentMatchesOffers, Open
    <3>2. QED
      BY <3>1, PickRows DEF IInv, TypeOK
  <2>2. CASE UNCHANGED <<rider, agreedFare>>
    BY <2>2
  <2>3. QED
    BY <2>1, <2>2 DEF RowStep, NewRow, OpenRow, AnnounceOrder, MakeOfferCommit, WithdrawOffer,
                      RaisePriceCommit, RepriceCommit,
                      Close, EndTrip, orderRow
<1>2. QED
  BY <1>1, InductiveInvariant, PTL DEF Spec, NeverReassigned

\* No bid lands once the window has ended or the order has closed, although
\* makeOffer decides to bid on an unlocked read.
THEOREM BidsInsideWindow == Spec => BidsLandInsideWindow
<1>1. IInv /\ [Next]_vars =>
        \A o \in Orders, r \in Riders :
          offerStatus'[o][r] = "pending" /\ offerAt'[o][r] # offerAt[o][r]
            => Open(o) /\ clock < endsAt[o]
  <2> SUFFICES ASSUME IInv, RowStep, NEW o \in Orders, NEW r \in Riders,
                      offerAt'[o][r] # offerAt[o][r]
               PROVE  Open(o) /\ clock < endsAt[o]
    BY StepIsRowStep DEF IInv
  <2>1. CASE \E b \in bids : MakeOfferCommit(b)
    <3> PICK b \in bids : MakeOfferCommit(b)
      BY <2>1
    <3>1. o = b.order
      BY DEF IInv, TypeOK, MakeOfferCommit
    <3>2. QED
      BY <3>1 DEF MakeOfferCommit, BidLands
  <2>2. CASE UNCHANGED offerAt
    BY <2>2
  <2>3. QED
    BY <2>1, <2>2 DEF RowStep, NewRow, OpenRow, AnnounceOrder, WithdrawOffer, RaisePriceCommit,
                      RepriceCommit,
                      SelectOfferCommit, Close, EndTrip, offerRows
<1>2. QED
  BY <1>1, InductiveInvariant, PTL DEF Spec, BidsLandInsideWindow

\* Racing raises never take time or money back from an open order, nor hold it
\* open past the cap.
THEOREM RaisesMonotonic == Spec => RaisesOnlyAdd
<1>1. IInv /\ [Next]_vars =>
        \A o \in Orders :
          Open(o) /\ (\A q \in reprices \ reprices' : q.order # o) =>
            /\ endsAt[o] <= endsAt'[o] /\ fare[o] <= fare'[o]
            /\ endsAt'[o] <= createdAt[o] + Cap
  <2> SUFFICES ASSUME IInv, RowStep, NEW o \in Orders, Open(o),
                      \A q \in reprices \ reprices' : q.order # o
               PROVE  /\ endsAt[o] <= endsAt'[o] /\ fare[o] <= fare'[o]
                      /\ endsAt'[o] <= createdAt[o] + Cap
    BY StepIsRowStep DEF IInv
  <2>1. /\ endsAt[o] \in Nat /\ fare[o] \in Nat /\ createdAt[o] \in Nat
        /\ endsAt[o] <= createdAt[o] + Cap
    BY DEF IInv, TypeOK, WindowHolds
  <2>2. CASE \E q \in raises : RaisePriceCommit(q)
    <3> PICK q \in raises : RaisePriceCommit(q)
      BY <2>2
    <3>1. q.order \in Orders /\ q.at \in Nat /\ q.end \in Nat /\ q.fare \in Nat
      BY ConstantTypes DEF IInv, TypeOK, Raises
    <3>2. CASE o = q.order
      <4>1. endsAt[o] = q.end /\ fare[o] < q.fare /\ ExtendWindow(q)
        BY <3>2 DEF RaisePriceCommit, RaiseLands
      <4>2. fare'[o] = q.fare
        BY <3>1, <3>2 DEF IInv, TypeOK, RaisePriceCommit
      <4>3. endsAt'[o] \in Nat /\ q.end <= endsAt'[o] /\ endsAt'[o] <= createdAt[o] + Cap
        BY <2>1, <3>1, <3>2, <4>1, ExtendRows DEF IInv
      <4>4. QED
        BY <2>1, <3>1, <4>1, <4>2, <4>3
    <3>3. CASE o # q.order
      BY <2>1, <3>3 DEF IInv, TypeOK, RaisePriceCommit, ExtendWindow
    <3>4. QED
      BY <3>2, <3>3
  <2>3. CASE NewRow
    BY <2>1, <2>3 DEF IInv, TypeOK, NewRow, OpenRow, Open
  <2>4. CASE \E q \in reprices : RepriceCommit(q)
    <3> PICK q \in reprices : RepriceCommit(q)
      BY <2>4
    <3>1. o # q.order
      BY DEF RepriceCommit
    <3>2. endsAt'[o] = endsAt[o] /\ fare'[o] = fare[o]
      BY <3>1 DEF IInv, TypeOK, RepriceCommit, ExtendWindow
    <3>3. QED
      BY <2>1, <3>2
  <2>5. CASE \E p \in Orders, w \in WindowLengths, jitter \in 0..Jitter :
                AnnounceOrder(p, w, jitter)
    <3> PICK p \in Orders, w \in WindowLengths, jitter \in 0..Jitter : AnnounceOrder(p, w, jitter)
      BY <2>5
    <3>1. fare'[o] = fare[o]
      BY DEF AnnounceOrder
    <3>2. CASE o = p /\ ~sized[o]
      <4>1. endsAt[o] = createdAt[o] + NormalWindow
        BY <3>2 DEF IInv, CallsWithinCap
      <4>2. endsAt'[o] = createdAt[o] + w
        BY <3>2 DEF IInv, TypeOK, AnnounceOrder
      <4>3. QED
        BY <2>1, <3>1, <4>1, <4>2, ConstantTypes
    <3>3. CASE ~(o = p /\ ~sized[o])
      <4>1. endsAt'[o] = endsAt[o]
        BY <3>3 DEF IInv, TypeOK, AnnounceOrder
      <4>2. QED
        BY <2>1, <3>1, <4>1
    <3>4. QED
      BY <3>2, <3>3
  <2>6. CASE UNCHANGED <<endsAt, fare>>
    BY <2>1, <2>6
  <2>7. QED
    BY <2>2, <2>3, <2>4, <2>5, <2>6
    DEF RowStep, MakeOfferCommit, WithdrawOffer, SelectOfferCommit, Close, EndTrip, orderRow
<1>2. QED
  BY <1>1, InductiveInvariant, PTL DEF Spec, RaisesOnlyAdd

\* An order expires only past its window, past the choose grace when offers
\* are pending, and never inside the time a raise promised.
THEOREM ExpiryNotEarly == Spec => NoEarlyExpiry
<1>1. IInv /\ [Next]_vars =>
        \A o \in Orders :
          Open(o) /\ status'[o] = "expired" =>
            /\ Pending(o) # {} => endsAt[o] + Grace <= clock
            /\ raisedAt[o] # NoTime =>
                 Earlier(raisedAt[o] + RaiseMin, createdAt[o] + Cap) <= clock
  <2> SUFFICES ASSUME IInv, RowStep, NEW o \in Orders, Open(o), status'[o] = "expired"
               PROVE  /\ Pending(o) # {} => endsAt[o] + Grace <= clock
                      /\ raisedAt[o] # NoTime =>
                           Earlier(raisedAt[o] + RaiseMin, createdAt[o] + Cap) <= clock
    BY StepIsRowStep DEF IInv
  <2>1. Due(o)
    <3>1. CASE \E p \in Orders : Due(p) /\ Close(p, "expired", "expired") /\ clock' = clock
      BY <3>1 DEF IInv, TypeOK, Close, Open
    <3>2. CASE \E p \in Orders : /\ status[p] \in {"open_for_offers", "assigned"}
                                 /\ Close(p, "cancelled", "declined")
      BY <3>2 DEF IInv, TypeOK, Close, Open
    <3>3. CASE UNCHANGED status
      BY <3>3 DEF Open
    <3>4. CASE \E p \in Orders : EndTrip(p)
      BY <3>4 DEF IInv, TypeOK, EndTrip, Open
    <3>5. CASE \E p \in picks : SelectOfferCommit(p)
      BY <3>5, PickRows DEF IInv, TypeOK, Open
    <3>6. CASE NewRow
      BY <3>6 DEF IInv, TypeOK, NewRow, OpenRow, Open
    <3>7. QED
      BY <3>1, <3>2, <3>3, <3>4, <3>5, <3>6
      DEF RowStep, MakeOfferCommit, WithdrawOffer, RaisePriceCommit, RepriceCommit,
          AnnounceOrder, orderRow
  <2>2. /\ endsAt[o] \in Nat /\ createdAt[o] \in Nat /\ clock \in Nat
        /\ raisedAt[o] # NoTime =>
             /\ raisedAt[o] \in Nat
             /\ Earlier(raisedAt[o] + RaiseMin, createdAt[o] + Cap) <= endsAt[o]
    BY DEF IInv, TypeOK, WindowHolds
  <2>3. endsAt[o] <= clock
    BY <2>1, <2>2, ConstantTypes DEF Due
  <2>4. QED
    BY <2>1, <2>2, <2>3, ConstantTypes DEF Due, Earlier
<1>2. QED
  BY <1>1, InductiveInvariant, PTL DEF Spec, NoEarlyExpiry
=============================================================================
