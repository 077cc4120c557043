---------------------------- MODULE FoodProofs -----------------------------
(***************************************************************************)
(* What the kitchen and the search guarantee for any riders, sweeps,       *)
(* scopes and cap.                                                         *)
(***************************************************************************)
EXTENDS FoodDispatch, FiniteSetTheorems, TLAPS

\* What a call carries, by its statement.
CallTyped(c) ==
  /\ c.by \in Riders \cup Sweepers \cup {Shop, Till, Clock, Customer}
  /\ c.op = "part" => c.missing \subseteq AllLines /\ c.fee \in Nat
  /\ c.op = "edit" => /\ c.status \in EditableStatuses /\ c.phase \in Phases
                      /\ c.version \in Nat /\ c.fee \in Nat
                      /\ c.known \subseteq AllLines /\ c.kept \subseteq AllLines
  /\ c.op = "ready" => c.status \in EditableStatuses
  /\ c.op = "tick" => /\ c.phase \in {"preparing", "ready_for_pickup"}
                      /\ c.read \in Nat /\ c.attempt \in Nat /\ c.rung \in Nat
                      /\ c.goods \in Nat /\ c.riders \subseteq Riders
  /\ c.op = "ring" => c.round \in Nat /\ c.riders \subseteq Riders
  /\ c.op = "accept" => c.by \in Riders /\ c.cooking \in BOOLEAN
  /\ c.op = "raise" => /\ c.status \in Searching /\ c.held \in BOOLEAN
                       /\ c.ceiling \in Nat /\ c.goods \in Nat

CallsTyped == \A c \in calls : CallTyped(c)

\* A count of lines is a number.
LEMMA LinesCount ==
  ASSUME NEW lines, lines \subseteq AllLines
  PROVE  Cardinality(lines) \in Nat
BY FS_Subset, FS_CardinalityType, FoodAssumption

\* The bounds of a behaviour.
LEMMA ScopeTyped ==
  ASSUME scope \in Scopes
  PROVE  /\ scope.riders \subseteq Riders
         /\ scope.lines \subseteq AllLines /\ scope.swaps \subseteq AllLines
         /\ scope.ceilings \subseteq Nat /\ scope.wallets \subseteq BOOLEAN
         /\ scope.autos \subseteq BOOLEAN
         /\ scope.changes \in Nat /\ scope.rounds \in Nat /\ scope.crashes \in Nat
BY FoodAssumption DEF ScopeType, AllLines

\* A well-typed call that starts leaves the calls well typed.
LEMMA StartTyped ==
  ASSUME CallsTyped, NEW c, CallTyped(c), Start(c)
  PROVE  CallsTyped'
BY DEF CallsTyped, CallTyped, Start

\* The columns TypeOK speaks of, besides the order's.
Columns ==
  /\ item \in [AllLines -> {"absent", "off", "on"}]
  /\ sub \subseteq AllLines
  /\ row \in [Riders -> [outcome : Outcomes, round : Nat]]
  /\ rounds \in Nat /\ lapsed \in Nat

\* Some rider was rung for the order.
Asked == {"open_for_offers", "assigned", "picked_up"}

\* A status fits its phase and its rider.
Placed ==
  /\ order.status = "none" => order = Blank
  /\ order.status = "requested" => order.phase # "none"
  /\ order.status = "open_for_offers" => order.phase \in {"preparing", "ready_for_pickup"}
  /\ order.status = "assigned" => order.phase \in {"preparing", "none"} /\ order.rider # NoRider
  /\ order.status = "picked_up" => order.phase = "none"
  /\ order.rider # NoRider => order.status \in {"assigned", "picked_up", "cancelled"}

\* The code is there with the ready food, and only then.
Coded ==
  /\ order.code => order.phase \in {"ready_for_pickup", "none"}
  /\ order.phase = "ready_for_pickup" => order.code
  /\ order.status = "assigned" /\ order.phase = "none" => order.code

\* A kitchen that has a code, or whose order was rung for, has answered.
Answered ==
  order.auto /\ (order.code \/ order.status \in Asked) => order.confirmed

\* A wallet order past its items has been paid.
PaidFor ==
  /\ order.auto => ~order.wallet
  /\ order.wallet /\ (\/ order.code \/ order.status \in Asked
                      \/ order.phase \in {"preparing", "ready_for_pickup"})
       => order.paid

\* A held order is searched for, and ready.
HeldReady ==
  order.hold /\ order.status # "cancelled" =>
    order.status = "requested" /\ order.phase = "ready_for_pickup"

\* What a tick or an accept under way has read still stands.
CallFact(c) ==
  /\ c.op = "tick" /\ c.phase = "ready_for_pickup" => order.code
  /\ c.op = "tick" /\ c.phase = "preparing" => order.confirmed /\ order.auto
  /\ c.op = "accept" /\ ~c.cooking => order.code

\* ... all of them.
CallFacts == \A c \in calls : CallFact(c)

\* What an order stands on, whatever calls are under way.
Standing == Placed /\ Coded /\ Answered /\ PaidFor /\ HeldReady /\ CallFacts

\* The statuses and phases the writes put in the row are names of the columns' types.
LEMMA Names ==
  /\ {"none", "requested", "open_for_offers", "assigned", "picked_up", "cancelled"}
       \subseteq Statuses
  /\ {"awaiting_accept", "awaiting_item_approval", "awaiting_payment", "preparing",
      "ready_for_pickup", "none"} \subseteq Phases
BY DEF Statuses, Phases

\* What a write may put in the columns keeps the row's type.
LEMMA MovedTyped ==
  ASSUME order \in OrderRows, NEW status \in Statuses, NEW phase \in Phases, NEW round \in Nat,
         NEW version \in Nat
  PROVE  /\ [order EXCEPT !.status = status, !.phase = phase] \in OrderRows
         /\ [order EXCEPT !.status = status, !.phase = phase, !.round = round] \in OrderRows
         /\ [order EXCEPT !.status = status, !.phase = phase, !.version = version] \in OrderRows
         /\ [order EXCEPT !.status = status, !.round = round] \in OrderRows
BY DEF OrderRows

\* ... so does what a change of the lines writes,
LEMMA CountedTyped ==
  ASSUME order \in OrderRows, NEW goods \in Nat, NEW agreed \in Nat, NEW version \in Nat,
         NEW phase \in Phases, NEW confirmed \in BOOLEAN
  PROVE  /\ [order EXCEPT !.phase = phase, !.goods = goods, !.agreed = agreed] \in OrderRows
         /\ [order EXCEPT !.goods = goods, !.agreed = agreed, !.version = version] \in OrderRows
         /\ [order EXCEPT !.goods = goods, !.agreed = agreed, !.version = version,
                          !.phase = phase] \in OrderRows
         /\ [order EXCEPT !.goods = goods, !.agreed = agreed, !.version = version,
                          !.confirmed = confirmed] \in OrderRows
BY DEF OrderRows

\* ... what a round writes,
LEMMA SearchedTyped ==
  ASSUME order \in OrderRows, NEW rung \in Nat, NEW agreed \in Nat, NEW attempt \in Nat,
         NEW round \in Nat, NEW status \in Statuses
  PROVE  /\ [order EXCEPT !.rung = rung, !.agreed = agreed, !.attempt = attempt] \in OrderRows
         /\ [order EXCEPT !.rung = rung, !.agreed = agreed, !.attempt = attempt,
                          !.round = round, !.status = status] \in OrderRows
         /\ [order EXCEPT !.attempt = attempt] \in OrderRows
         /\ [order EXCEPT !.attempt = attempt, !.round = round, !.status = status] \in OrderRows
BY DEF OrderRows

\* ... and what a cancel writes.
LEMMA CancelledTyped ==
  ASSUME order \in OrderRows
  PROVE  /\ CancelledRow \in OrderRows
         /\ [CancelledRow EXCEPT !.round = 0] \in OrderRows
         /\ [CancelledRow EXCEPT !.version = order.version + 1] \in OrderRows
<1>1. order.version + 1 \in Nat
  BY DEF OrderRows
<1>2. QED
  BY <1>1, Names, MovedTyped DEF CancelledRow

\* Settled items lead to a phase.
LEMMA AfterItemsTyped == AfterItems \in Phases
BY Names DEF AfterItems

\* Placement writes a row of the table.
LEMMA PlaceOrderRow ==
  ASSUME order \in OrderRows, scope \in Scopes, NEW wallet \in scope.wallets,
         NEW auto \in scope.autos, NEW ceiling \in scope.ceilings,
         PlaceOrder(wallet, auto, ceiling)
  PROVE  order' \in OrderRows
<1> DEFINE phase == IF auto THEN "preparing" ELSE "awaiting_accept"
           lines == Cardinality(scope.lines)
<1>1. phase \in Phases /\ lines \in Nat /\ lines + order.rung \in Nat
      /\ wallet \in BOOLEAN /\ auto \in BOOLEAN /\ ceiling \in Nat
  BY ScopeTyped, LinesCount, Names DEF OrderRows
<1>2. order' = [order EXCEPT !.status = "requested", !.phase = phase, !.wallet = wallet,
                             !.auto = auto, !.ceiling = ceiling, !.goods = lines,
                             !.agreed = lines + order.rung]
  BY DEF PlaceOrder, Row
<1>3. ASSUME NEW p \in Phases, NEW n \in Nat, NEW a \in Nat
      PROVE  [order EXCEPT !.status = "requested", !.phase = p, !.wallet = wallet, !.auto = auto,
                           !.ceiling = ceiling, !.goods = n, !.agreed = a] \in OrderRows
  BY <1>1, Names DEF OrderRows
<1> HIDE DEF phase, lines
<1>4. QED
  BY <1>1, <1>2, <1>3

\* A partial accept keeps the row's type.
LEMMA AcceptPartRow ==
  ASSUME order \in OrderRows, CallsTyped, NEW c \in calls, AcceptPartCommit(c)
  PROVE  order' \in OrderRows
<1> DEFINE kept == Cardinality(On \ c.missing)
           agreed == kept + c.fee
<1>1. kept \in Nat /\ agreed \in Nat
  BY LinesCount DEF On, AcceptPartCommit, CallsTyped, CallTyped
<1>2. order' \in {order, [order EXCEPT !.phase = "awaiting_item_approval",
                                       !.goods = kept, !.agreed = agreed]}
  BY DEF AcceptPartCommit, Row
<1> HIDE DEF kept, agreed
<1>3. [order EXCEPT !.phase = "awaiting_item_approval",
                    !.goods = kept, !.agreed = agreed] \in OrderRows
  BY <1>1, CountedTyped, Names
<1>4. QED
  BY <1>2, <1>3

\* A proposed substitution keeps the row's type.
LEMMA ProposeRow ==
  ASSUME order \in OrderRows, NEW gone \in SUBSET On, NEW swaps, Propose(gone, swaps)
  PROVE  order' \in OrderRows
<1> DEFINE kept == Cardinality(On \ gone)
           settled == IF swaps = {} THEN AfterItems ELSE "awaiting_item_approval"
           confirmed == order.confirmed \/ order.auto
           agreed == kept + order.rung
           version == order.version + 1
<1>1. /\ kept \in Nat /\ agreed \in Nat /\ version \in Nat
      /\ confirmed \in BOOLEAN
  BY LinesCount DEF On, OrderRows
<1>2. settled \in Phases
  BY AfterItemsTyped, Names
<1>3. order' \in {[CancelledRow EXCEPT !.version = order.version + 1],
                  [order EXCEPT !.goods = kept, !.agreed = agreed,
                                !.version = version, !.phase = settled],
                  [order EXCEPT !.goods = kept, !.agreed = agreed,
                                !.version = version, !.confirmed = confirmed]}
  BY DEF Propose, Row
<1> HIDE DEF kept, settled, confirmed, agreed, version
<1>4. /\ [order EXCEPT !.goods = kept, !.agreed = agreed,
                       !.version = version, !.phase = settled] \in OrderRows
      /\ [order EXCEPT !.goods = kept, !.agreed = agreed,
                       !.version = version, !.confirmed = confirmed] \in OrderRows
  BY <1>1, <1>2, CountedTyped, Names
<1>5. QED
  BY <1>3, <1>4, CancelledTyped

\* The customer's answer keeps the row's type.
LEMMA ResolveRow ==
  ASSUME order \in OrderRows, sub \subseteq AllLines, NEW accepted \in SUBSET sub,
         Resolve(accepted)
  PROVE  order' \in OrderRows
<1> DEFINE total == Cardinality(On \cup accepted)
           settled == IF order.phase = "awaiting_item_approval" THEN AfterItems ELSE order.phase
           agreed == total + order.rung
           version == order.version + 1
<1>1. total \in Nat /\ agreed \in Nat /\ version \in Nat
  BY LinesCount DEF On, OrderRows
<1>2. settled \in Phases
  BY AfterItemsTyped DEF OrderRows
<1>3. order' \in {CancelledRow,
                  [order EXCEPT !.goods = total, !.agreed = agreed,
                                !.version = version, !.phase = settled]}
  BY DEF Resolve, Row
<1> HIDE DEF total, settled, agreed, version
<1>4. [order EXCEPT !.goods = total, !.agreed = agreed,
                    !.version = version, !.phase = settled] \in OrderRows
  BY <1>1, <1>2, CountedTyped, Names
<1>5. QED
  BY <1>3, <1>4, CancelledTyped

\* An edit keeps the row's type.
LEMMA EditRow ==
  ASSUME order \in OrderRows, CallsTyped, NEW c \in calls, EditCommit(c)
  PROVE  order' \in OrderRows
<1> DEFINE goods == Cardinality(c.kept)
           agreed == goods + c.fee
           version == order.version + 1
<1>1. goods \in Nat /\ agreed \in Nat /\ version \in Nat
  BY LinesCount DEF EditCommit, CallsTyped, CallTyped, OrderRows
<1>2. order' \in {order, [order EXCEPT !.goods = goods, !.agreed = agreed,
                                       !.version = version]}
  BY DEF EditCommit, Row
<1> HIDE DEF goods, agreed, version
<1>3. [order EXCEPT !.goods = goods, !.agreed = agreed, !.version = version] \in OrderRows
  BY <1>1, CountedTyped, Names
<1>4. QED
  BY <1>2, <1>3

\* Marking ready keeps the row's type.
LEMMA ReadyRow ==
  ASSUME order \in OrderRows, NEW c \in calls, ReadyCommit(c)
  PROVE  order' \in OrderRows
<1>1. ReadyPhase \in Phases
  BY Names DEF ReadyPhase
<1>2. [order EXCEPT !.phase = ReadyPhase, !.code = TRUE,
                    !.confirmed = order.confirmed \/ order.auto] \in OrderRows
  BY <1>1 DEF OrderRows
<1>3. order' \in {order, [order EXCEPT !.phase = ReadyPhase, !.code = TRUE,
                                      !.confirmed = order.confirmed \/ order.auto]}
  BY DEF ReadyCommit, Row
<1>4. QED
  BY <1>2, <1>3

\* A tick's write keeps the row's type.
LEMMA TickRow ==
  ASSUME order \in OrderRows, CallsTyped, rounds \in Nat, NEW c \in calls,
         TickHold(c) \/ TickPark(c) \/ TickNobody(c) \/ TickClaim(c)
  PROVE  order' \in OrderRows
<1>1. /\ c.attempt \in Nat /\ c.rung \in Nat /\ c.goods + c.rung \in Nat
      /\ rounds + 1 \in Nat
  BY DEF CallsTyped, CallTyped, TickHold, TickPark, TickNobody, TickClaim
<1>2. [order EXCEPT !.hold = TRUE] \in OrderRows
  BY DEF OrderRows
<1>3. order' \in {order, [order EXCEPT !.hold = TRUE], [order EXCEPT !.attempt = c.attempt],
                  [Priced(c) EXCEPT !.attempt = c.attempt],
                  [Priced(c) EXCEPT !.attempt = c.attempt, !.round = rounds + 1,
                                    !.status = "open_for_offers"]}
  BY DEF TickHold, TickPark, TickNobody, TickClaim, Row
<1>4. /\ [Priced(c) EXCEPT !.attempt = c.attempt] \in OrderRows
      /\ [Priced(c) EXCEPT !.attempt = c.attempt, !.round = rounds + 1,
                           !.status = "open_for_offers"] \in OrderRows
  BY <1>1, SearchedTyped, Names DEF Priced
<1>5. QED
  BY <1>1, <1>2, <1>3, <1>4, SearchedTyped, Names

\* Every cancel of the kitchen's side keeps the row's type.
LEMMA CancelRow ==
  ASSUME order \in OrderRows,
         \/ CancelWaiting \/ CancelUnconfirmed \/ DeclineItems \/ CancelPreparing
         \/ AdminCancel \/ CancelFromHold \/ \E c \in calls : LeaveCommit(c)
  PROVE  order' \in OrderRows
<1>1. order' \in {order, CancelledRow, [CancelledRow EXCEPT !.round = 0]}
  BY DEF CancelWaiting, CancelUnconfirmed, DeclineItems, CancelPreparing, AdminCancel,
         CancelFromHold, LeaveCommit, Row
<1>2. QED
  BY <1>1, CancelledTyped

\* A confirmation, the pickup and the close of a round keep the row's type.
LEMMA MoveRow ==
  ASSUME order \in OrderRows,
         \/ ConfirmKitchen \/ ConfirmPayment \/ Collect \/ \E c \in calls : CloseRound(c)
  PROVE  order' \in OrderRows
<1>1. /\ [order EXCEPT !.confirmed = TRUE] \in OrderRows
      /\ [order EXCEPT !.phase = "preparing", !.paid = TRUE] \in OrderRows
      /\ [order EXCEPT !.status = "picked_up", !.phase = "none"] \in OrderRows
      /\ [order EXCEPT !.status = "requested", !.round = 0] \in OrderRows
  BY Names DEF OrderRows
<1>2. order' \in {order, [order EXCEPT !.confirmed = TRUE],
                  [order EXCEPT !.phase = "preparing", !.paid = TRUE],
                  [order EXCEPT !.status = "picked_up", !.phase = "none"],
                  [order EXCEPT !.status = "requested", !.round = 0]}
  BY DEF ConfirmKitchen, ConfirmPayment, Collect, CloseRound, Row
<1>3. QED
  BY <1>1, <1>2

\* A rider's accept keeps the row's type.
LEMMA AcceptClaimRow ==
  ASSUME order \in OrderRows, CallsTyped, NEW c \in calls, AcceptClaim(c)
  PROVE  order' \in OrderRows
<1> DEFINE phase == IF c.cooking /\ order.phase = "preparing" THEN order.phase ELSE "none"
<1>1. c.by \in Riders /\ phase \in Phases
  BY Names DEF AcceptClaim, CallsTyped, CallTyped, OrderRows
<1>2. order' \in {order, [order EXCEPT !.status = "assigned", !.rider = c.by, !.round = 0,
                                       !.phase = phase]}
  BY DEF AcceptClaim, Row
<1> HIDE DEF phase
<1>3. [order EXCEPT !.status = "assigned", !.rider = c.by, !.round = 0,
                    !.phase = phase] \in OrderRows
  BY <1>1, Names DEF OrderRows
<1>4. QED
  BY <1>2, <1>3

\* A drop keeps the row's type.
LEMMA DropRow ==
  ASSUME order \in OrderRows, NEW r \in Riders, Drop(r)
  PROVE  order' \in OrderRows
<1> DEFINE phase == IF order.phase = "preparing" THEN order.phase ELSE "ready_for_pickup"
           excluded == order.excluded \cup {r}
<1>1. phase \in Phases /\ excluded \in SUBSET Riders
  BY Names DEF OrderRows
<1>2. order' = [order EXCEPT !.status = "requested", !.rider = NoRider, !.phase = phase,
                             !.excluded = excluded, !.attempt = 0, !.hold = FALSE]
  BY DEF Drop, Row
<1> HIDE DEF phase, excluded
<1>3. QED
  BY <1>1, <1>2, Names DEF OrderRows

\* Searching again keeps the row's type.
LEMMA ResumeRow ==
  ASSUME order \in OrderRows, ResumeSearch
  PROVE  order' \in OrderRows
<1>1. order' = [order EXCEPT !.hold = FALSE, !.attempt = 0]
  BY DEF ResumeSearch, Row
<1>2. QED
  BY <1>1 DEF OrderRows

\* Raising the ceiling keeps the row's type.
LEMMA RaiseRow ==
  ASSUME order \in OrderRows, CallsTyped, NEW c \in calls, RaiseCommit(c)
  PROVE  order' \in OrderRows
<1> DEFINE agreed == c.goods + c.ceiling
           ceiling == c.ceiling
<1>1. ceiling \in Nat /\ agreed \in Nat
  BY DEF RaiseCommit, CallsTyped, CallTyped
<1>2. order' \in {order, [order EXCEPT !.ceiling = ceiling],
                  [order EXCEPT !.ceiling = ceiling, !.rung = ceiling, !.agreed = agreed],
                  [order EXCEPT !.ceiling = ceiling, !.rung = ceiling, !.agreed = agreed,
                                !.hold = FALSE, !.attempt = 0]}
  BY DEF RaiseCommit, Row
<1> HIDE DEF agreed, ceiling
<1>3. /\ [order EXCEPT !.ceiling = ceiling] \in OrderRows
      /\ [order EXCEPT !.ceiling = ceiling, !.rung = ceiling, !.agreed = agreed] \in OrderRows
      /\ [order EXCEPT !.ceiling = ceiling, !.rung = ceiling, !.agreed = agreed,
                       !.hold = FALSE, !.attempt = 0] \in OrderRows
  BY <1>1 DEF OrderRows
<1>4. QED
  BY <1>2, <1>3

\* The claim of a round opens it for the order as read, and writes prices only.
LEMMA TickClaimWrites ==
  ASSUME order \in OrderRows, CallsTyped, NEW c \in calls, TickClaim(c)
  PROVE  \/ order' = order /\ calls' \subseteq calls
         \/ /\ c.op = "tick" /\ c.phase \in {"preparing", "ready_for_pickup"}
            /\ order.status = "requested" /\ order.phase = c.phase /\ ~order.hold
            /\ order'.status = "open_for_offers" /\ order'.phase = order.phase
            /\ order'.rider = order.rider /\ order'.hold = order.hold
            /\ order'.wallet = order.wallet /\ order'.auto = order.auto
            /\ order'.confirmed = order.confirmed /\ order'.paid = order.paid
            /\ order'.code = order.code
            /\ order'.goods = order.goods /\ order'.version = order.version
            /\ calls' \subseteq calls \cup {[by |-> c.by, op |-> "ring", round |-> rounds + 1,
                                             riders |-> c.riders]}
<1> DEFINE agreed == c.goods + c.rung
           round == rounds + 1
<1>1. CASE TickMay(c)
  <2>1. /\ c.op = "tick" /\ c.phase \in {"preparing", "ready_for_pickup"}
        /\ order.status = "requested" /\ order.phase = c.phase /\ ~order.hold
    BY <1>1 DEF TickMay, Unclaimed, TickClaim, CallsTyped, CallTyped
  <2>2. \/ order' = [order EXCEPT !.attempt = c.attempt, !.round = round,
                                  !.status = "open_for_offers"]
        \/ order' = [order EXCEPT !.rung = c.rung, !.agreed = agreed, !.attempt = c.attempt,
                                  !.round = round, !.status = "open_for_offers"]
    BY <1>1 DEF TickClaim, Row, Priced
  <2>3. calls' \subseteq calls \cup {[by |-> c.by, op |-> "ring", round |-> rounds + 1,
                                      riders |-> c.riders]}
    BY <1>1 DEF TickClaim, GoOn
  <2> HIDE DEF agreed, round
  <2>4. /\ order'.status = "open_for_offers" /\ order'.phase = order.phase
        /\ order'.rider = order.rider /\ order'.hold = order.hold
        /\ order'.wallet = order.wallet /\ order'.auto = order.auto
        /\ order'.confirmed = order.confirmed /\ order'.paid = order.paid
        /\ order'.code = order.code
        /\ order'.goods = order.goods /\ order'.version = order.version
    BY <2>2 DEF OrderRows
  <2>5. QED
    BY <2>1, <2>3, <2>4
<1>2. CASE ~TickMay(c)
  <2>1. order' = order /\ calls' \subseteq calls
    BY <1>2 DEF TickClaim, Row, Return
  <2>2. QED
    BY <2>1
<1>3. QED
  BY <1>1, <1>2

\* Raising the ceiling writes prices, and may end the hold.
LEMMA RaiseCommitWrites ==
  ASSUME order \in OrderRows, CallsTyped, NEW c \in calls, RaiseCommit(c)
  PROVE  \/ order' = order
         \/ /\ order.status # "none" /\ order'.status = order.status
            /\ order'.phase = order.phase /\ order'.rider = order.rider
            /\ order'.wallet = order.wallet /\ order'.auto = order.auto
            /\ order'.confirmed = order.confirmed /\ order'.paid = order.paid
            /\ order'.code = order.code /\ order'.hold \in {order.hold, FALSE}
<1> DEFINE agreed == c.goods + c.ceiling
<1>1. CASE RaiseMay(c)
  <2>1. order.status # "none"
    BY <1>1 DEF RaiseMay, RaiseCommit, CallsTyped, CallTyped, Searching
  <2>2. \/ order' = [order EXCEPT !.ceiling = c.ceiling]
        \/ order' = [order EXCEPT !.ceiling = c.ceiling, !.rung = c.ceiling, !.agreed = agreed]
        \/ order' = [order EXCEPT !.ceiling = c.ceiling, !.rung = c.ceiling, !.agreed = agreed,
                                  !.hold = FALSE, !.attempt = 0]
    BY <1>1 DEF RaiseCommit, Row
  <2> HIDE DEF agreed
  <2>3. QED
    BY <2>1, <2>2 DEF OrderRows
<1>2. CASE ~RaiseMay(c)
  BY <1>2 DEF RaiseCommit, Row
<1>3. QED
  BY <1>1, <1>2

\* A step that leaves the row alone and starts no tick and no accept.
LEMMA StandingKept ==
  ASSUME order \in OrderRows, Standing, order' = order,
         \A d \in calls' : d \in calls \/ d.op \notin {"tick", "accept"}
  PROVE  Standing'
BY DEF Standing, Placed, Coded, Answered, PaidFor, HeldReady, CallFacts, CallFact, Asked, Blank

\* A partial accept leaves the order waiting for the customer.
LEMMA AcceptPartCommit_Standing ==
  ASSUME order \in OrderRows, order' \in OrderRows, CallsTyped, Standing, NEW c \in calls,
         AcceptPartCommit(c)
  PROVE  Standing'
<1>1. calls' \subseteq calls
  BY DEF AcceptPartCommit, Return
<1>2. CASE At("awaiting_accept")
  <2>1. \E goods, agreed :
          order' = [order EXCEPT !.phase = "awaiting_item_approval",
                                 !.goods = goods, !.agreed = agreed]
    BY <1>2 DEF AcceptPartCommit, Row
  <2>2. QED
    BY <1>1, <1>2, <2>1 DEF OrderRows, At, Standing, Placed, Coded, Answered, PaidFor,
           HeldReady, CallFacts, CallFact, Asked
<1>3. CASE ~At("awaiting_accept")
  <2>1. order' = order
    BY <1>3 DEF AcceptPartCommit
  <2>2. QED
    BY <1>1, <2>1, StandingKept
<1>4. QED
  BY <1>2, <1>3

\* A substitution leads past the items only where the wallet is not owed.
LEMMA Propose_Standing ==
  ASSUME order \in OrderRows, order' \in OrderRows, CallsTyped, Standing, NEW gone \in SUBSET
         On, NEW swaps \in SUBSET scope.swaps, Propose(gone, swaps)
  PROVE  Standing'
<1>1. calls' = calls /\ order.status = "requested"
  BY DEF Propose, At
<1>2. CASE swaps = {} /\ Cardinality(On \ gone) = 0
  <2>1. order' = [CancelledRow EXCEPT !.version = order.version + 1]
    BY <1>2 DEF Propose, Row
  <2>2. QED
    BY <1>1, <2>1 DEF CancelledRow, OrderRows, Standing, Placed, Coded, Answered, PaidFor,
           HeldReady, CallFacts, CallFact, Asked
<1>3. CASE ~(swaps = {} /\ Cardinality(On \ gone) = 0) /\ order.phase = "awaiting_accept"
  <2>1. \E goods, agreed, version :
          \E phase \in {"awaiting_item_approval", "awaiting_payment", "preparing"} :
             /\ order' = [order EXCEPT !.goods = goods, !.agreed = agreed, !.version = version,
                                       !.phase = phase]
             /\ phase = "preparing" => ~order.wallet
    BY <1>3 DEF Propose, Row, AfterItems
  <2>2. QED
    BY <1>1, <1>3, <2>1 DEF OrderRows, Standing, Placed, Coded, Answered, PaidFor, HeldReady,
           CallFacts, CallFact, Asked
<1>4. CASE ~(swaps = {} /\ Cardinality(On \ gone) = 0) /\ order.phase # "awaiting_accept"
  <2>1. \E goods, agreed, version :
          order' = [order EXCEPT !.goods = goods, !.agreed = agreed, !.version = version,
                                 !.confirmed = order.confirmed \/ order.auto]
    BY <1>4 DEF Propose, Row
  <2>2. QED
    BY <1>1, <1>4, <2>1 DEF OrderRows, Standing, Placed, Coded, Answered, PaidFor, HeldReady,
           CallFacts, CallFact, Asked
<1>5. QED
  BY <1>2, <1>3, <1>4

\* An edit changes the lines of an order, and nothing it stands on.
LEMMA EditCommit_Standing ==
  ASSUME order \in OrderRows, order' \in OrderRows, CallsTyped, Standing, NEW c \in calls,
         EditCommit(c)
  PROVE  Standing'
<1>1. calls' \subseteq calls
  BY DEF EditCommit, Return
<1>2. CASE EditStale(c)
  <2>1. order' = order
    BY <1>2 DEF EditCommit
  <2>2. QED
    BY <1>1, <2>1, StandingKept
<1>3. CASE ~EditStale(c)
  <2>1. \E goods, agreed, version :
          order' = [order EXCEPT !.goods = goods, !.agreed = agreed, !.version = version]
    BY <1>3 DEF EditCommit, Row
  <2>2. order.status # "none"
    BY <1>3 DEF EditCommit, EditStale, CallsTyped, CallTyped, EditableStatuses, Searching
  <2>3. QED
    BY <1>1, <2>1, <2>2 DEF OrderRows, Standing, Placed, Coded, Answered, PaidFor, HeldReady,
           CallFacts, CallFact, Asked
<1>4. QED
  BY <1>2, <1>3

\* Ready: the code is there, in the phase that the status calls for.
LEMMA ReadyCommit_Standing ==
  ASSUME order \in OrderRows, order' \in OrderRows, CallsTyped, Standing, NEW c \in calls,
         ReadyCommit(c)
  PROVE  Standing'
<1>1. calls' \subseteq calls
  BY DEF ReadyCommit, Return
<1>2. CASE order.status = c.status /\ order.phase = "preparing"
  <2>1. order' = [order EXCEPT !.phase = ReadyPhase, !.code = TRUE,
                               !.confirmed = order.confirmed \/ order.auto]
    BY <1>2 DEF ReadyCommit, Row
  <2>2. order.status \in {"requested", "open_for_offers", "assigned"}
    BY <1>2 DEF ReadyCommit, CallsTyped, CallTyped, EditableStatuses, Searching
  <2>3. QED
    BY <1>1, <1>2, <2>1, <2>2 DEF ReadyPhase, OrderRows, Standing, Placed, Coded, Answered,
           PaidFor, HeldReady, CallFacts, CallFact, Asked
<1>3. CASE ~(order.status = c.status /\ order.phase = "preparing")
  <2>1. order' = order
    BY <1>3 DEF ReadyCommit, Row
  <2>2. QED
    BY <1>1, <2>1, StandingKept
<1>4. QED
  BY <1>2, <1>3

\* The customer leaves an order nobody has.
LEMMA LeaveCommit_Standing ==
  ASSUME order \in OrderRows, order' \in OrderRows, CallsTyped, Standing, NEW c \in calls,
         LeaveCommit(c)
  PROVE  Standing'
<1>1. CASE LeaveMay(c)
  <2>1. order' = CancelledRow /\ calls' \subseteq calls \cup {[by |-> Customer, op |-> "settle"]}
    BY <1>1 DEF LeaveCommit, Row, GoOn
  <2>2. order.status = "requested"
    BY <1>1 DEF LeaveMay, At
  <2>3. QED
    BY <2>1, <2>2 DEF CancelledRow, OrderRows, Standing, Placed, Coded, Answered, PaidFor,
           HeldReady, CallFacts, CallFact, Asked
<1>2. CASE ~LeaveMay(c)
  <2>1. order' = order /\ calls' \subseteq calls
    BY <1>2 DEF LeaveCommit, Row, Return
  <2>2. QED
    BY <2>1, StandingKept
<1>3. QED
  BY <1>1, <1>2

\* A closed round leaves the order as it was found.
LEMMA CloseRound_Standing ==
  ASSUME order \in OrderRows, order' \in OrderRows, CallsTyped, Standing, NEW c \in calls,
         CloseRound(c)
  PROVE  Standing'
<1>1. CASE order.status = "open_for_offers" /\ order.round = c.round
  <2>1. /\ order' = [order EXCEPT !.status = "requested", !.round = 0]
        /\ calls' \subseteq calls \cup {[by |-> c.by, op |-> "quiet", keep |-> NoRider]}
    BY <1>1 DEF CloseRound, Row, GoOn
  <2>2. QED
    BY <1>1, <2>1 DEF OrderRows, Standing, Placed, Coded, Answered, PaidFor, HeldReady,
           CallFacts, CallFact, Asked
<1>2. CASE ~(order.status = "open_for_offers" /\ order.round = c.round)
  <2>1. order' = order /\ calls' \subseteq calls
    BY <1>2 DEF CloseRound, Row, Return
  <2>2. QED
    BY <2>1, StandingKept
<1>3. QED
  BY <1>1, <1>2

\* A round is opened for an order as the tick has read it.
LEMMA TickClaim_Standing ==
  ASSUME order \in OrderRows, CallsTyped, Standing, NEW c \in calls, TickClaim(c)
  PROVE  Standing'
<1>1. CASE order' = order /\ calls' \subseteq calls
  BY <1>1, StandingKept
<1>2. CASE ~(order' = order /\ calls' \subseteq calls)
  <2>1. /\ c.op = "tick" /\ c.phase \in {"preparing", "ready_for_pickup"}
        /\ order.status = "requested" /\ order.phase = c.phase /\ ~order.hold
        /\ order'.status = "open_for_offers" /\ order'.phase = order.phase
        /\ order'.rider = order.rider /\ order'.hold = order.hold
        /\ order'.wallet = order.wallet /\ order'.auto = order.auto
        /\ order'.confirmed = order.confirmed /\ order'.paid = order.paid
        /\ order'.code = order.code
    BY <1>2, TickClaimWrites
  <2>2. \A d \in calls' : d \in calls \/ d.op = "ring"
    BY <1>2, TickClaimWrites
  <2>3. QED
    BY <2>1, <2>2 DEF Standing, Placed, Coded, Answered, PaidFor, HeldReady, CallFacts,
           CallFact, Asked
<1>3. QED
  BY <1>1, <1>2

\* An accept that saw the food ready saw its code.
LEMMA AcceptStart_Standing ==
  ASSUME order \in OrderRows, order' \in OrderRows, CallsTyped, Standing, NEW r \in Riders,
         AcceptStart(r)
  PROVE  Standing'
<1>1. order' = order /\ order.status = "open_for_offers"
  BY DEF AcceptStart, LiveOffer, kitchenVars
<1>2. PICK call : /\ calls' = calls \cup {call}
                  /\ call = [by |-> r, op |-> "accept", round |-> order.round,
                             cooking |-> order.phase = "preparing"]
  BY DEF AcceptStart, Start
<1>3. call.op = "accept" /\ (call.cooking <=> order.phase = "preparing")
  BY <1>2, Zenon
<1>4. ~call.cooking => order.code
  BY <1>1, <1>3 DEF Standing, Placed, Coded
<1>5. CallFact(call)'
  BY <1>1, <1>3, <1>4 DEF CallFact
<1>6. CallFacts'
  BY <1>1, <1>2, <1>5 DEF Standing, CallFacts, CallFact
<1>7. QED
  BY <1>1, <1>6 DEF Standing, Placed, Coded, Answered, PaidFor, HeldReady, Asked, Blank

\* The claim clears the phase only of food that is ready: the kitchen may mark
\* it so after the accept has read, never the other way round.
LEMMA AcceptClaim_Standing ==
  ASSUME order \in OrderRows, order' \in OrderRows, CallsTyped, Standing, NEW c \in calls,
         AcceptClaim(c)
  PROVE  Standing'
<1>1. CASE AcceptMay(c)
  <2>1. /\ order' = [order EXCEPT !.status = "assigned", !.rider = c.by, !.round = 0,
                         !.phase = IF c.cooking /\ order.phase = "preparing"
                                   THEN order.phase ELSE "none"]
        /\ calls' \subseteq calls \cup {[by |-> c.by, op |-> "accepted"]}
    BY <1>1 DEF AcceptClaim, Row, GoOn
  <2>2. /\ c.op = "accept" /\ c.by \in Riders /\ c.cooking \in BOOLEAN
        /\ order.status = "open_for_offers" /\ c.by # NoRider
    BY <1>1, FoodAssumption DEF AcceptClaim, AcceptMay, CallsTyped, CallTyped
  <2>3. ~c.cooking => order.code
    BY <2>2 DEF Standing, CallFacts, CallFact
  <2>4. order.phase = "preparing" => ~order.code
    BY DEF Standing, Coded
  <2>5. QED
    BY <2>1, <2>2, <2>3, <2>4 DEF OrderRows, Standing, Placed, Coded, Answered, PaidFor,
           HeldReady, CallFacts, CallFact, Asked
<1>2. CASE ~AcceptMay(c)
  <2>1. order' = order /\ calls' \subseteq calls
    BY <1>2 DEF AcceptClaim, Row, Return
  <2>2. QED
    BY <2>1, StandingKept
<1>3. QED
  BY <1>1, <1>2

\* A raised ceiling moves prices, and ends the hold at most.
LEMMA RaiseCommit_Standing ==
  ASSUME order \in OrderRows, CallsTyped, Standing, NEW c \in calls, RaiseCommit(c)
  PROVE  Standing'
<1>1. calls' \subseteq calls
  BY DEF RaiseCommit, Return
<1>2. CASE order' = order
  BY <1>1, <1>2, StandingKept
<1>3. CASE order' # order
  <2>1. /\ order.status # "none" /\ order'.status = order.status
        /\ order'.phase = order.phase /\ order'.rider = order.rider
        /\ order'.wallet = order.wallet /\ order'.auto = order.auto
        /\ order'.confirmed = order.confirmed /\ order'.paid = order.paid
        /\ order'.code = order.code /\ order'.hold \in {order.hold, FALSE}
    BY <1>3, RaiseCommitWrites
  <2>2. QED
    BY <1>1, <2>1 DEF Standing, Placed, Coded, Answered, PaidFor, HeldReady, CallFacts,
           CallFact, Asked
<1>4. QED
  BY <1>2, <1>3

\* No line of the order has been taken off.
NoneOff == \A l \in AllLines : item[l] # "off"

\* Every edit that is under way read the lines the order still has, or is
\* stale: whatever adds a line to an order that goes on moves the version. And
\* acceptOrder's late statement finds every line on, or the version has moved.
LineFact(c) ==
  /\ c.op = "edit" => /\ order.status # "none" /\ order.phase # "awaiting_accept"
                      /\ c.kept \subseteq c.known /\ c.version <= order.version
                      /\ c.version = order.version /\ order.status # "cancelled" => c.known = Known
  /\ c.op = "available" => /\ order.status # "none" /\ order.phase # "awaiting_accept"
                           /\ order.version = 0 => NoneOff

LineFacts ==
  /\ \A c \in calls : LineFact(c)
  /\ order.phase = "awaiting_accept" /\ order.version = 0 => NoneOff

\* A step that leaves the lines, their total and the version alone.
LEMMA CountKept ==
  ASSUME item' = item, order'.goods = order.goods,
         order'.status \in EditableStatuses => order.status \in EditableStatuses
  PROVE  FollowsLines
BY DEF FollowsLines, GoodsMatchItems, On, EditableStatuses, Searching

\* ... and the version, and starts neither an edit nor an accept.
LEMMA LinesMoved ==
  ASSUME LineFacts, item' = item, order'.version = order.version,
         order'.phase = "awaiting_accept" => order.phase = "awaiting_accept",
         order.status # "none" => order'.status # "none",
         order.status = "cancelled" => order'.status = "cancelled",
         \A c \in calls' : c \in calls \/ c.op \notin {"edit", "available"}
  PROVE  LineFacts'
BY DEF LineFacts, LineFact, Known, NoneOff

\* The placed total counts the placed lines.
LEMMA PlaceOrder_Count ==
  ASSUME order \in OrderRows, scope \in Scopes, NEW wallet, NEW auto, NEW ceiling,
         PlaceOrder(wallet, auto, ceiling)
  PROVE  GoodsMatchItems'
<1>1. order'.goods = Cardinality(scope.lines)
  BY DEF PlaceOrder, Row, OrderRows
<1>2. item' = [l \in AllLines |-> IF l \in scope.lines THEN "on" ELSE "absent"]
  BY DEF PlaceOrder
<1>3. On' = scope.lines
  BY <1>2, ScopeTyped DEF On
<1>4. QED
  BY <1>1, <1>3 DEF GoodsMatchItems

\* A partial accept counts the lines it keeps; no edit is under way then.
LEMMA AcceptPart_Count ==
  ASSUME order \in OrderRows, item \in [AllLines -> {"absent", "off", "on"}], LineFacts,
         NEW c \in calls, AcceptPartCommit(c)
  PROVE  FollowsLines /\ LineFacts'
<1>0. calls' \subseteq calls
  BY DEF AcceptPartCommit, Return
<1>1. CASE At("awaiting_accept")
  <2> DEFINE kept == Cardinality(On \ c.missing)
             agreed == kept + c.fee
  <2>1. order' = [order EXCEPT !.phase = "awaiting_item_approval",
                               !.goods = kept, !.agreed = agreed]
    BY <1>1 DEF AcceptPartCommit, Row
  <2>2. item' = [l \in AllLines |-> IF l \in c.missing THEN "off" ELSE item[l]]
    BY <1>1 DEF AcceptPartCommit
  <2>3. On' = On \ c.missing
    BY <2>2 DEF On
  <2>4. order'.phase # "awaiting_accept" /\ \A d \in calls : d.op \notin {"edit", "available"}
    BY <1>1, <2>1 DEF LineFacts, LineFact, At, OrderRows
  <2> HIDE DEF agreed
  <2>5. order'.goods = kept
    BY <2>1 DEF OrderRows
  <2>6. FollowsLines
    BY <2>3, <2>5 DEF FollowsLines, GoodsMatchItems
  <2>7. QED
    BY <1>0, <2>4, <2>6 DEF LineFacts, LineFact
<1>2. CASE ~At("awaiting_accept")
  <2>1. order' = order /\ item' = item
    BY <1>2 DEF AcceptPartCommit
  <2>2. FollowsLines
    BY <2>1, CountKept
  <2>3. LineFacts'
    BY <1>0, <2>1 DEF LineFacts, LineFact, Known, NoneOff
  <2>4. QED
    BY <2>2, <2>3
<1>3. QED
  BY <1>1, <1>2

\* A substitution counts the lines it keeps, and moves the version.
LEMMA Propose_Count ==
  ASSUME order \in OrderRows, item \in [AllLines -> {"absent", "off", "on"}],
         NEW gone \in SUBSET On, NEW swaps, Propose(gone, swaps)
  PROVE  /\ GoodsMatchItems' /\ order'.version = order.version + 1
         /\ order'.status # "none"
         /\ order'.phase # "awaiting_accept"
<1> DEFINE kept == Cardinality(On \ gone)
           agreed == kept + order.rung
           version == order.version + 1
           settled == IF swaps = {} THEN AfterItems ELSE "awaiting_item_approval"
           confirmed == order.confirmed \/ order.auto
<1>1. item' = [l \in AllLines |-> IF l \in gone THEN "off" ELSE item[l]]
  BY DEF Propose
<1>2. On' = On \ gone
  BY <1>1 DEF On
<1>3. order' \in {[CancelledRow EXCEPT !.version = version],
                  [order EXCEPT !.goods = kept, !.agreed = agreed,
                                !.version = version, !.phase = settled],
                  [order EXCEPT !.goods = kept, !.agreed = agreed,
                                !.version = version, !.confirmed = confirmed]}
  BY DEF Propose, Row
<1>4. /\ order.status = "requested" /\ order.phase \in {"awaiting_accept", "preparing"}
      /\ settled \in {"awaiting_item_approval", "awaiting_payment", "preparing"}
  BY DEF Propose, At, AfterItems
<1>5. order.phase = "awaiting_accept" =>
        order' \in {[CancelledRow EXCEPT !.version = version],
                     [order EXCEPT !.goods = kept, !.agreed = agreed,
                                   !.version = version, !.phase = settled]}
  BY DEF Propose, Row
<1> HIDE DEF kept, agreed, version, settled, confirmed
<1>6. order'.version = version /\ (order'.status = "cancelled" \/ order'.goods = kept)
  BY <1>3 DEF CancelledRow, OrderRows
<1>7. order'.status # "none" /\ order'.phase # "awaiting_accept"
  BY <1>3, <1>4, <1>5 DEF CancelledRow, OrderRows
<1>8. QED
  BY <1>2, <1>6, <1>7 DEF GoodsMatchItems, kept, version, EditableStatuses, Searching

\* An answer counts the lines it leaves, and moves the version unless it ends
\* the order.
LEMMA Resolve_Count ==
  ASSUME order \in OrderRows, item \in [AllLines -> {"absent", "off", "on"}], sub \subseteq
         AllLines,
         NEW accepted \in SUBSET sub, Resolve(accepted)
  PROVE  /\ GoodsMatchItems' /\ order'.status # "none"
         /\ order'.phase = "awaiting_accept" => order.phase = "awaiting_accept"
         /\ \/ /\ order'.status = "cancelled" /\ order'.version = order.version
               /\ NoneOff => NoneOff'
            \/ order'.version = order.version + 1
<1> DEFINE total == Cardinality(On \cup accepted)
           settled == IF order.phase = "awaiting_item_approval" THEN AfterItems ELSE order.phase
           agreed == total + order.rung
           version == order.version + 1
<1>1. item' = [l \in AllLines |-> IF l \in accepted THEN "on" ELSE item[l]]
  BY DEF Resolve
<1>2. On' = On \cup accepted
  BY <1>1 DEF On
<1>3. order' \in {CancelledRow,
                  [order EXCEPT !.goods = total, !.agreed = agreed,
                                !.version = version, !.phase = settled]}
  BY DEF Resolve, Row
<1>4. order.status # "none"
  BY DEF Resolve, EditableStatuses, Searching
<1> HIDE DEF total, settled, agreed, version
<1>5. \/ order'.status = "cancelled" /\ order'.version = order.version
      \/ order'.goods = total /\ order'.version = version /\ order'.status = order.status
  BY <1>3 DEF CancelledRow, OrderRows
<1>6. order'.phase \in {"none", settled}
  BY <1>3 DEF CancelledRow, OrderRows
<1>7. settled = "awaiting_accept" => order.phase = "awaiting_accept"
  BY DEF settled, AfterItems
<1>8. NoneOff => NoneOff'
  BY <1>1 DEF NoneOff
<1>9. QED
  BY <1>2, <1>4, <1>5, <1>6, <1>7, <1>8 DEF GoodsMatchItems, total, version, EditableStatuses,
         Searching

\* An edit that is not stale replaces all the lines there are.
LEMMA Edit_Count ==
  ASSUME order \in OrderRows, item \in [AllLines -> {"absent", "off", "on"}], CallsTyped,
         LineFacts, NEW c \in calls, EditCommit(c)
  PROVE  FollowsLines /\ LineFacts'
<1>1. calls' \subseteq calls
  BY DEF EditCommit, Return
<1>2. CASE EditStale(c)
  <2>1. order' = order /\ item' = item
    BY <1>2 DEF EditCommit
  <2>2. order.status # "none"
    BY DEF EditCommit, LineFacts, LineFact
  <2>3. QED
    BY <1>1, <2>1, <2>2, CountKept, LinesMoved
<1>3. CASE ~EditStale(c)
  <2> DEFINE goods == Cardinality(c.kept)
             agreed == goods + c.fee
             version == order.version + 1
  <2>1. /\ order' = [order EXCEPT !.goods = goods, !.agreed = agreed, !.version = version]
        /\ item' = [l \in AllLines |-> IF l \in c.kept THEN "on"
                                       ELSE IF l \in c.known THEN "off" ELSE item[l]]
    BY <1>3 DEF EditCommit, Row
  <2>2. /\ c.op = "edit" /\ c.status = order.status /\ c.version = order.version
        /\ c.status \in EditableStatuses /\ c.known \subseteq AllLines
    BY <1>3 DEF EditCommit, EditStale, CallsTyped, CallTyped
  <2>3. c.known = Known /\ c.kept \subseteq c.known /\ order.status # "none"
    BY <2>2 DEF LineFacts, LineFact, EditableStatuses, Searching
  <2>4. On' = c.kept
    BY <2>1, <2>2, <2>3 DEF On, Known
  <2>5. version \in Nat /\ version > order.version
    BY DEF OrderRows
  <2> HIDE DEF goods, agreed, version
  <2>6. order'.goods = goods /\ order'.version = version /\ order'.status = order.status
      /\ order'.phase = order.phase
    BY <2>1 DEF OrderRows
  <2>7. FollowsLines
    BY <2>4, <2>6 DEF FollowsLines, GoodsMatchItems, goods
  <2>8. \A d \in calls' : LineFact(d)'
    <3>1. TAKE d \in calls'
    <3>2. d \in calls /\ LineFact(d)
      BY <1>1 DEF LineFacts
    <3>3. d.op = "edit" => d.version \in Nat
      BY <3>2 DEF CallsTyped, CallTyped
    <3>4. order.version \in Nat
      BY DEF OrderRows
    <3>5. QED
      BY <2>3, <2>5, <2>6, <3>2, <3>3, <3>4 DEF LineFact
  <2>9. QED
    BY <2>5, <2>6, <2>7, <2>8 DEF LineFacts, OrderRows
<1>4. QED
  BY <1>2, <1>3

\* The lines move only with the version.
LEMMA VersionMoved ==
  ASSUME order \in OrderRows, CallsTyped, LineFacts, calls' = calls, order'.status # "none",
         order'.phase = "awaiting_accept" => order.phase = "awaiting_accept",
         \/ order'.version = order.version + 1
         \/ /\ order'.version = order.version /\ order'.status = "cancelled"
            /\ NoneOff => NoneOff'
  PROVE  LineFacts'
<1>1. ASSUME NEW d \in calls'
      PROVE  LineFact(d)'
  <2>1. d \in calls /\ LineFact(d) /\ (d.op = "edit" => d.version \in Nat)
    BY <1>1 DEF LineFacts, CallsTyped, CallTyped
  <2>2. order.version \in Nat
    BY DEF OrderRows
  <2>3. QED
    BY <2>1, <2>2 DEF LineFact
<1>2. order'.phase = "awaiting_accept" /\ order'.version = 0 => NoneOff'
  BY DEF LineFacts, OrderRows
<1>3. QED
  BY <1>1, <1>2 DEF LineFacts

\* acceptOrder's late statement changes no line unless the version has moved.
LEMMA MarkAvailable_Count ==
  ASSUME order \in OrderRows, item \in [AllLines -> {"absent", "off", "on"}], LineFacts,
         NEW c \in calls, MarkAvailable(c)
  PROVE  FollowsLines /\ LineFacts'
<1>1. /\ calls' \subseteq calls /\ order' = order /\ c.op = "available"
      /\ item' = [l \in AllLines |-> IF l \in Known THEN "on" ELSE "absent"]
  BY DEF MarkAvailable, Return
<1>2. order.version = 0 => item' = item
  <2>1. SUFFICES ASSUME order.version = 0
                 PROVE  \A l \in AllLines : item'[l] = item[l]
    BY <1>1
  <2>2. \A l \in AllLines : item[l] \in {"absent", "on"}
    BY <1>1, <2>1 DEF LineFacts, LineFact, NoneOff
  <2>3. QED
    BY <1>1, <2>2 DEF Known
<1>3. FollowsLines
  <2>1. CASE order.version = 0
    BY <1>1, <1>2, <2>1, CountKept
  <2>2. CASE order.version # 0
    BY <2>2 DEF FollowsLines
  <2>3. QED
    BY <2>1, <2>2
<1>4. Known' = Known /\ NoneOff'
  BY <1>1 DEF Known, NoneOff
<1>5. LineFacts'
  BY <1>1, <1>4 DEF LineFacts, LineFact
<1>6. QED
  BY <1>3, <1>5

\* Steps that move the search or end the order, and leave its lines alone.
LEMMA MovesKeepLines ==
  ASSUME order \in OrderRows, Standing, CallsTyped, NEW c \in calls,
         LeaveCommit(c) \/ CloseRound(c) \/ TickClaim(c) \/ AcceptClaim(c)
  PROVE  /\ item' = item /\ order'.goods = order.goods /\ order'.version = order.version
         /\ order'.status \in EditableStatuses => order.status \in EditableStatuses
         /\ order'.phase = "awaiting_accept" => order.phase = "awaiting_accept"
         /\ order.status # "none" => order'.status # "none"
         /\ order.status = "cancelled" => order'.status = "cancelled"
         /\ \A d \in calls' : d \in calls \/ d.op \notin {"edit", "available"}
<1>1. CASE order' = order
  <2>1. item' = item
    BY DEF LeaveCommit, CloseRound, TickClaim, AcceptClaim
  <2>2. \A d \in calls' : d \in calls \/ d.op \notin {"edit", "available"}
    BY DEF LeaveCommit, CloseRound, TickClaim, AcceptClaim, GoOn, Return
  <2>3. QED
    BY <1>1, <2>1, <2>2
<1>2. CASE LeaveCommit(c) /\ order' # order
  <2>1. order' = [order EXCEPT !.status = "cancelled", !.phase = "none"] /\ item' = item
    BY <1>2 DEF LeaveCommit, Row, CancelledRow
  <2>2. /\ order.status = "requested"
        /\ \A d \in calls' : d \in calls \/ d.op \notin {"edit", "available"}
    BY <1>2 DEF LeaveCommit, LeaveMay, At, Row, GoOn
  <2>3. QED
    BY <2>1, <2>2 DEF OrderRows, EditableStatuses, Searching
<1>3. CASE CloseRound(c) /\ order' # order
  <2>1. /\ order' = [order EXCEPT !.status = "requested", !.round = 0] /\ item' = item
        /\ order.status = "open_for_offers"
    BY <1>3 DEF CloseRound, Row
  <2>2. \A d \in calls' : d \in calls \/ d.op \notin {"edit", "available"}
    BY <1>3 DEF CloseRound, Row, GoOn
  <2>3. QED
    BY <2>1, <2>2 DEF OrderRows, EditableStatuses, Searching
<1>4. CASE TickClaim(c) /\ order' # order
  <2>1. /\ order.status = "requested" /\ order'.status = "open_for_offers"
        /\ order'.phase = order.phase
        /\ order'.goods = order.goods /\ order'.version = order.version
    BY <1>4, TickClaimWrites
  <2>2. \A d \in calls' : d \in calls \/ d.op \notin {"edit", "available"}
    BY <1>4, TickClaimWrites
  <2>3. item' = item
    BY <1>4 DEF TickClaim
  <2>4. QED
    BY <2>1, <2>2, <2>3 DEF EditableStatuses, Searching
<1>5. CASE AcceptClaim(c) /\ order' # order
  <2>1. PICK phase \in {"preparing", "none"} :
          order' = [order EXCEPT !.status = "assigned", !.rider = c.by, !.round = 0,
                                 !.phase = phase]
    BY <1>5 DEF AcceptClaim, Row
  <2>2. /\ order.status = "open_for_offers" /\ item' = item
        /\ \A d \in calls' : d \in calls \/ d.op \notin {"edit", "available"}
    BY <1>5 DEF AcceptClaim, AcceptMay, Row, GoOn
  <2>3. QED
    BY <2>1, <2>2 DEF OrderRows, EditableStatuses, Searching
<1>6. QED
  BY <1>1, <1>2, <1>3, <1>4, <1>5

\* What the longer statements do to the status, the phase and the rider.
LEMMA AcceptPartMoves ==
  ASSUME order \in OrderRows, NEW c \in calls, AcceptPartCommit(c)
  PROVE  \/ order' = order
         \/ /\ At("awaiting_accept") /\ order'.phase = "awaiting_item_approval"
            /\ order'.status = order.status /\ order'.rider = order.rider
<1> DEFINE kept == Cardinality(On \ c.missing)
           agreed == kept + c.fee
<1>1. \/ order' = order
      \/ /\ At("awaiting_accept")
         /\ order' = [order EXCEPT !.phase = "awaiting_item_approval",
                                   !.goods = kept, !.agreed = agreed]
  BY DEF AcceptPartCommit, Row
<1> HIDE DEF kept, agreed
<1>2. QED
  BY <1>1 DEF OrderRows

\* A substitution ends the order, settles its items, or moves nothing.
LEMMA ProposeMoves ==
  ASSUME order \in OrderRows, NEW gone, NEW swaps, Propose(gone, swaps)
  PROVE  /\ order.status = "requested" /\ order.phase \in {"awaiting_accept", "preparing"}
         /\ order'.rider = order.rider
         /\ \/ order'.status = "cancelled" /\ order'.phase = "none"
            \/ order'.status = order.status /\ order'.phase = order.phase
            \/ /\ order'.status = order.status /\ order.phase = "awaiting_accept"
               /\ order'.phase \in {"awaiting_item_approval", "awaiting_payment", "preparing"}
<1> DEFINE kept == Cardinality(On \ gone)
           agreed == kept + order.rung
           version == order.version + 1
           settled == IF swaps = {} THEN AfterItems ELSE "awaiting_item_approval"
           confirmed == order.confirmed \/ order.auto
<1>1. order.status = "requested" /\ order.phase \in {"awaiting_accept", "preparing"}
  BY DEF Propose, At
<1>2. \/ order' = [CancelledRow EXCEPT !.version = version]
      \/ /\ order.phase = "awaiting_accept"
         /\ order' = [order EXCEPT !.goods = kept, !.agreed = agreed,
                                   !.version = version, !.phase = settled]
      \/ order' = [order EXCEPT !.goods = kept, !.agreed = agreed,
                                !.version = version, !.confirmed = confirmed]
  BY DEF Propose, Row
<1>3. settled \in {"awaiting_item_approval", "awaiting_payment", "preparing"}
  BY DEF AfterItems
<1> HIDE DEF kept, agreed, version, settled, confirmed
<1>4. QED
  BY <1>1, <1>2, <1>3 DEF OrderRows, CancelledRow

\* An edit moves nothing.
LEMMA EditMoves ==
  ASSUME order \in OrderRows, NEW c \in calls, EditCommit(c)
  PROVE  /\ order'.status = order.status /\ order'.phase = order.phase
         /\ order'.rider = order.rider
<1> DEFINE goods == Cardinality(c.kept)
           agreed == goods + c.fee
           version == order.version + 1
<1>1. \/ order' = order
      \/ order' = [order EXCEPT !.goods = goods, !.agreed = agreed, !.version = version]
  BY DEF EditCommit, Row
<1> HIDE DEF goods, agreed, version
<1>2. QED
  BY <1>1 DEF OrderRows

\* The customer leaves an order that is searched for.
LEMMA LeaveMoves ==
  ASSUME order \in OrderRows, NEW c \in calls, LeaveCommit(c)
  PROVE  \/ order' = order
         \/ /\ order.status = "requested" /\ order'.rider = order.rider
            /\ order'.status = "cancelled" /\ order'.phase = "none"
<1>1. order' = order \/ (order.status = "requested" /\ order' = CancelledRow)
  BY DEF LeaveCommit, LeaveMay, At, Row
<1>2. QED
  BY <1>1 DEF OrderRows, CancelledRow

\* The console ends any order.
LEMMA AdminMoves ==
  ASSUME order \in OrderRows, AdminCancel
  PROVE  /\ order.status \notin {"none", "cancelled"} /\ order'.rider = order.rider
         /\ order'.status = "cancelled" /\ order'.phase = "none"
<1>1. /\ order.status \notin {"none", "cancelled"}
      /\ order' = [order EXCEPT !.status = "cancelled", !.phase = "none", !.round = 0]
  BY DEF AdminCancel, Row, CancelledRow
<1>2. QED
  BY <1>1 DEF OrderRows

\* A closed round is searched for again.
LEMMA CloseMoves ==
  ASSUME order \in OrderRows, NEW c \in calls, CloseRound(c)
  PROVE  \/ order' = order
         \/ /\ order.status = "open_for_offers" /\ order'.status = "requested"
            /\ order'.phase = order.phase /\ order'.rider = order.rider
<1>1. \/ order' = order
      \/ /\ order.status = "open_for_offers"
         /\ order' = [order EXCEPT !.status = "requested", !.round = 0]
  BY DEF CloseRound, Row
<1>2. QED
  BY <1>1 DEF OrderRows

\* An accept gives the order to a rider when nobody has it.
LEMMA AcceptMoves ==
  ASSUME order \in OrderRows, CallsTyped, Standing, NEW c \in calls, AcceptClaim(c)
  PROVE  \/ order' = order
         \/ /\ order.status = "open_for_offers" /\ order.rider = NoRider
            /\ order'.status = "assigned" /\ order'.rider = c.by /\ c.by \in Riders
            /\ order'.phase = IF order.phase = "preparing" THEN "preparing" ELSE "none"
<1>1. c.op = "accept" /\ c.by \in Riders
  BY DEF AcceptClaim, CallsTyped, CallTyped
<1>2. order.phase = "preparing" => c.cooking
  BY <1>1 DEF Standing, Coded, CallFacts, CallFact
<1>3. CASE AcceptMay(c)
  <2>1. order.status = "open_for_offers" /\ order.rider = NoRider
    BY <1>3 DEF AcceptMay, Standing, Placed
  <2>2. order' = [order EXCEPT !.status = "assigned", !.rider = c.by, !.round = 0,
                    !.phase = IF order.phase = "preparing" THEN "preparing" ELSE "none"]
    BY <1>2, <1>3 DEF AcceptClaim, Row
  <2>3. QED
    BY <1>1, <2>1, <2>2 DEF OrderRows
<1>4. CASE ~AcceptMay(c)
  BY <1>4 DEF AcceptClaim, Row
<1>5. QED
  BY <1>3, <1>4

-----------------------------------------------------------------------------
\* The inductive invariant: the types, the properties of the order row, and what
\* the calls under way know.
IInv ==
  /\ scope \in Scopes /\ order \in OrderRows /\ crashes \in Nat
  /\ Columns /\ CallsTyped /\ Standing /\ LineFacts

\* Each step of the kitchen keeps the order row's type.
LEMMA KitchenRow ==
  ASSUME IInv, KitchenNext, UNCHANGED <<scope, crashes, dispatchVars>>
  PROVE  order' \in OrderRows
<1>0. /\ scope \in Scopes /\ order \in OrderRows /\ Columns /\ CallsTyped
      /\ Standing /\ LineFacts
  BY DEF IInv
<1>1. CASE \/ \E missing \in SUBSET On : AcceptPartStart(missing)
           \/ CloseEndedRound \/ LeaveStart
           \/ \E c \in calls : SettleRound(c) \/ MarkAvailable(c)
           \/ \E kept \in SUBSET Known : EditStart(kept)
           \/ \E who \in {Shop, Clock} : ReadyStart(who)
  BY <1>0, <1>1
    DEF kitchenVars, AcceptPartStart, CloseEndedRound, SettleRound, MarkAvailable,
        EditStart, ReadyStart, LeaveStart
<1>2. ASSUME NEW wallet \in scope.wallets, NEW auto \in scope.autos,
             NEW ceiling \in scope.ceilings, PlaceOrder(wallet, auto, ceiling)
      PROVE  order' \in OrderRows
  BY <1>0, <1>2, PlaceOrderRow
<1>3. ASSUME NEW c \in calls, AcceptPartCommit(c)
      PROVE  order' \in OrderRows
  BY <1>0, <1>3, AcceptPartRow
<1>4. CASE CancelWaiting
  BY <1>0, <1>4, CancelRow
<1>5. CASE CancelUnconfirmed
  BY <1>0, <1>5, CancelRow
<1>6. CASE ConfirmKitchen
  BY <1>0, <1>6, MoveRow
<1>7. CASE ConfirmPayment
  BY <1>0, <1>7, MoveRow
<1>8. ASSUME NEW gone \in SUBSET On, NEW swaps \in SUBSET scope.swaps, Propose(gone, swaps)
      PROVE  order' \in OrderRows
  BY <1>0, <1>8, ProposeRow
<1>9. ASSUME NEW accepted \in SUBSET sub, Resolve(accepted)
      PROVE  order' \in OrderRows
  BY <1>0, <1>9, ResolveRow DEF Columns
<1>10. CASE DeclineItems
  BY <1>0, <1>10, CancelRow
<1>11. ASSUME NEW c \in calls, EditCommit(c)
      PROVE  order' \in OrderRows
  BY <1>0, <1>11, EditRow
<1>12. ASSUME NEW c \in calls, ReadyCommit(c)
      PROVE  order' \in OrderRows
  BY <1>0, <1>12, ReadyRow
<1>13. CASE CancelPreparing
  BY <1>0, <1>13, CancelRow
<1>14. ASSUME NEW c \in calls, LeaveCommit(c)
      PROVE  order' \in OrderRows
  BY <1>0, <1>14, CancelRow
<1>15. CASE AdminCancel
  BY <1>0, <1>15, CancelRow
<1>16. CASE Collect
  BY <1>0, <1>16, MoveRow
<1> USE <1>0, Names DEF OrderRows, Row, CallsTyped, CallTyped
<1>17. CASE AcceptOrder
  BY <1>17, SMTT(20) DEF AcceptOrder, At, AfterItems
<1>18. CASE ApproveItems
  BY <1>18, SMTT(20) DEF ApproveItems, At, AfterItems
<1>19. CASE CustomerCancel
  BY <1>19, SMTT(20) DEF CustomerCancel
<1>20. QED
  BY <1>1, <1>2, <1>3, <1>4, <1>5, <1>6, <1>7, <1>8, <1>9, <1>10, <1>11, <1>12, <1>13, <1>14,
     <1>15, <1>16, <1>17, <1>18, <1>19
  DEF KitchenNext

\* Each step of the search keeps the order row's type.
LEMMA DispatchRow ==
  ASSUME IInv, DispatchNext \/ Faults
  PROVE  order' \in OrderRows
<1>0. /\ scope \in Scopes /\ order \in OrderRows /\ Columns /\ CallsTyped
      /\ Standing /\ LineFacts
  BY DEF IInv
<1>1. CASE \/ \E c \in calls : Quiet(c) \/ OrphansExpire(c) \/ Ring(c) \/ RingFails(c) \/
                RingLive(c) \/ AcceptMark(c) \/ DeclineMark(c) \/ DeclineCount(c) \/ Crash(c)
           \/ \E s \in Sweepers : ExpiredStart(s) \/ OrphansStart(s)
           \/ \E s \in Sweepers, riders \in SUBSET Riders : TickStart(s, riders)
           \/ \E r \in Riders : AcceptStart(r) \/ DeclineStart(r) \/ CooldownEnds(r)
           \/ \E ceiling \in scope.ceilings : RaiseStart(ceiling)
           \/ Lapse
  BY <1>0, <1>1
    DEF kitchenVars, Quiet, ExpiredStart, OrphansStart, OrphansExpire, TickStart, Ring,
        RingFails, RingLive, AcceptStart, AcceptMark, DeclineStart, DeclineMark, DeclineCount,
        RaiseStart, Lapse, CooldownEnds, Crash
<1>2. ASSUME NEW c \in calls, CloseRound(c)
      PROVE  order' \in OrderRows
  BY <1>0, <1>2, MoveRow
<1>3. ASSUME NEW c \in calls, TickHold(c)
      PROVE  order' \in OrderRows
  BY <1>0, <1>3, TickRow DEF Columns
<1>4. ASSUME NEW c \in calls, TickPark(c)
      PROVE  order' \in OrderRows
  BY <1>0, <1>4, TickRow DEF Columns
<1>5. ASSUME NEW c \in calls, TickNobody(c)
      PROVE  order' \in OrderRows
  BY <1>0, <1>5, TickRow DEF Columns
<1>6. ASSUME NEW c \in calls, TickClaim(c)
      PROVE  order' \in OrderRows
  BY <1>0, <1>6, TickRow DEF Columns
<1>7. ASSUME NEW c \in calls, AcceptClaim(c)
      PROVE  order' \in OrderRows
  BY <1>0, <1>7, AcceptClaimRow
<1>8. ASSUME NEW r \in Riders, Drop(r)
      PROVE  order' \in OrderRows
  BY <1>0, <1>8, DropRow
<1>9. CASE ResumeSearch
  BY <1>0, <1>9, ResumeRow
<1>10. CASE CancelFromHold
  BY <1>0, <1>10, CancelRow
<1>11. ASSUME NEW c \in calls, RaiseCommit(c)
      PROVE  order' \in OrderRows
  BY <1>0, <1>11, RaiseRow
<1>12. QED
  BY <1>1, <1>2, <1>3, <1>4, <1>5, <1>6, <1>7, <1>8, <1>9, <1>10, <1>11
  DEF DispatchNext, CallStep, Faults

\* Each step of the kitchen keeps the types of the lines and the riders' rows.
LEMMA KitchenColumns ==
  ASSUME IInv, KitchenNext, UNCHANGED <<scope, crashes, dispatchVars>>
  PROVE  Columns'
<1>0. /\ scope \in Scopes /\ order \in OrderRows /\ Columns /\ CallsTyped
      /\ Standing /\ LineFacts
  BY DEF IInv
<1>1. CASE \/ AcceptOrder \/ CancelWaiting \/ CancelUnconfirmed \/ ConfirmKitchen \/
                ConfirmPayment \/ ApproveItems \/ DeclineItems \/ CancelPreparing \/ LeaveStart
                \/ CustomerCancel \/ AdminCancel \/ Collect
           \/ \E missing \in SUBSET On : AcceptPartStart(missing)
           \/ \E kept \in SUBSET Known : EditStart(kept)
           \/ \E who \in {Shop, Clock} : ReadyStart(who)
           \/ \E c \in calls : ReadyCommit(c) \/ LeaveCommit(c)
  <2>1. <<item, sub, row, rounds, lapsed>>' = <<item, sub, row, rounds, lapsed>>
    BY <1>1
      DEF kitchenVars, dispatchVars, AcceptOrder, AcceptPartStart, CancelWaiting,
          CancelUnconfirmed, ConfirmKitchen, ConfirmPayment, ApproveItems, DeclineItems,
          EditStart, ReadyStart, ReadyCommit, CancelPreparing, LeaveStart, LeaveCommit,
          CustomerCancel, AdminCancel, Collect
  <2>2. QED
    BY <1>0, <2>1 DEF Columns
<1> USE <1>0, ScopeTyped
    DEF Columns, CallsTyped, CallTyped, Answer, Outcomes, Reask, On, Known, kitchenVars,
        dispatchVars
<1>2. ASSUME NEW wallet \in scope.wallets, NEW auto \in scope.autos,
             NEW ceiling \in scope.ceilings, PlaceOrder(wallet, auto, ceiling)
      PROVE  Columns'
  BY <1>2, SMTT(20) DEF PlaceOrder
<1>3. ASSUME NEW c \in calls, AcceptPartCommit(c)
      PROVE  Columns'
  BY <1>3, SMTT(20) DEF AcceptPartCommit, At
<1>4. ASSUME NEW gone \in SUBSET On, NEW swaps \in SUBSET scope.swaps, Propose(gone, swaps)
      PROVE  Columns'
  BY <1>4, SMTT(20) DEF Propose, At, CancelledRow, AfterItems
<1>5. ASSUME NEW accepted \in SUBSET sub, Resolve(accepted)
      PROVE  Columns'
  BY <1>5, SMTT(20) DEF Resolve, CancelledRow, AfterItems
<1>6. CASE CloseEndedRound
  BY <1>6, SMTT(20) DEF CloseEndedRound
<1>7. ASSUME NEW c \in calls, SettleRound(c)
      PROVE  Columns'
  BY <1>7, SMTT(20) DEF SettleRound
<1>8. ASSUME NEW c \in calls, EditCommit(c)
      PROVE  Columns'
  BY <1>8, SMTT(20) DEF EditCommit, EditStale
<1>9. ASSUME NEW c \in calls, MarkAvailable(c)
      PROVE  Columns'
  BY <1>9, SMTT(20) DEF MarkAvailable
<1>10. QED
  BY <1>1, <1>2, <1>3, <1>4, <1>5, <1>6, <1>7, <1>8, <1>9 DEF KitchenNext

\* Each step of the search keeps the types of the lines and the riders' rows.
LEMMA DispatchColumns ==
  ASSUME IInv, DispatchNext \/ Faults
  PROVE  Columns'
<1>0. /\ scope \in Scopes /\ order \in OrderRows /\ Columns /\ CallsTyped
      /\ Standing /\ LineFacts
  BY DEF IInv
<1>1. CASE \/ \E c \in calls : CloseRound(c) \/ TickHold(c) \/ TickPark(c) \/ TickNobody(c) \/
                RingFails(c) \/ AcceptClaim(c) \/ DeclineCount(c) \/ Crash(c)
           \/ \E s \in Sweepers : ExpiredStart(s) \/ OrphansStart(s)
           \/ \E s \in Sweepers, riders \in SUBSET Riders : TickStart(s, riders)
           \/ \E r \in Riders : AcceptStart(r) \/ DeclineStart(r) \/ Drop(r)
           \/ CancelFromHold
           \/ \E ceiling \in scope.ceilings : RaiseStart(ceiling)
  <2>1. <<item, sub, row, rounds, lapsed>>' = <<item, sub, row, rounds, lapsed>>
    BY <1>1
      DEF kitchenVars, dispatchVars, CloseRound, ExpiredStart, OrphansStart, TickStart,
          TickHold, TickPark, TickNobody, RingFails, AcceptStart, AcceptClaim, DeclineStart,
          DeclineCount, Drop, CancelFromHold, RaiseStart, Crash
  <2>2. QED
    BY <1>0, <2>1 DEF Columns
<1> USE <1>0, ScopeTyped
    DEF Columns, CallsTyped, CallTyped, Answer, Outcomes, Reask, On, Known, kitchenVars,
        dispatchVars
<1>2. ASSUME NEW c \in calls, Quiet(c)
      PROVE  Columns'
  BY <1>2, SMTT(20) DEF Quiet
<1>3. ASSUME NEW c \in calls, OrphansExpire(c)
      PROVE  Columns'
  BY <1>3, SMTT(20) DEF OrphansExpire
<1>4. ASSUME NEW c \in calls, TickClaim(c)
      PROVE  Columns'
  BY <1>4, SMTT(20) DEF TickClaim, TickMay, Unclaimed, Priced
<1>5. ASSUME NEW c \in calls, Ring(c)
      PROVE  Columns'
  BY <1>5, SMTT(20) DEF Ring
<1>6. ASSUME NEW c \in calls, RingLive(c)
      PROVE  Columns'
  BY <1>6, SMTT(20) DEF RingLive
<1>7. ASSUME NEW c \in calls, AcceptMark(c)
      PROVE  Columns'
  BY <1>7, SMTT(20) DEF AcceptMark
<1>8. ASSUME NEW c \in calls, DeclineMark(c)
      PROVE  Columns'
  BY <1>8, SMTT(20) DEF DeclineMark
<1>9. CASE ResumeSearch
  BY <1>9, SMTT(20) DEF ResumeSearch, Held, At
<1>10. ASSUME NEW c \in calls, RaiseCommit(c)
      PROVE  Columns'
  BY <1>10, SMTT(20) DEF RaiseCommit, RaiseMay
<1>11. CASE Lapse
  BY <1>11, SMTT(20) DEF Lapse
<1>12. ASSUME NEW r \in Riders, CooldownEnds(r)
      PROVE  Columns'
  BY <1>12, SMTT(20) DEF CooldownEnds
<1>13. QED
  BY <1>1, <1>2, <1>3, <1>4, <1>5, <1>6, <1>7, <1>8, <1>9, <1>10, <1>11, <1>12
  DEF DispatchNext, CallStep, Faults

\* Each step of the kitchen keeps the types of the calls.
LEMMA KitchenCalls ==
  ASSUME IInv, KitchenNext, UNCHANGED <<scope, crashes, dispatchVars>>
  PROVE  CallsTyped'
<1>0. /\ scope \in Scopes /\ order \in OrderRows /\ Columns /\ CallsTyped
      /\ Standing /\ LineFacts
  BY DEF IInv
<1>1. CASE \/ \E wallet \in scope.wallets, auto \in scope.autos, ceiling \in scope.ceilings :
                PlaceOrder(wallet, auto, ceiling)
           \/ CancelWaiting \/ CancelUnconfirmed \/ ConfirmKitchen \/
                ConfirmPayment \/ CloseEndedRound \/ ApproveItems \/ CustomerCancel \/
                AdminCancel \/ Collect
           \/ \E c \in calls : MarkAvailable(c) \/ AcceptPartCommit(c) \/
                SettleRound(c) \/ EditCommit(c) \/ ReadyCommit(c)
           \/ \E gone \in SUBSET On, swaps \in SUBSET scope.swaps : Propose(gone, swaps)
           \/ \E accepted \in SUBSET sub : Resolve(accepted)
  <2>1. calls' \subseteq calls
    BY <1>1
      DEF Return, kitchenVars, dispatchVars, PlaceOrder, MarkAvailable, AcceptPartCommit,
          CancelWaiting, CancelUnconfirmed, ConfirmKitchen, ConfirmPayment, Propose, Resolve,
          CloseEndedRound, ApproveItems, SettleRound, EditCommit, ReadyCommit, CustomerCancel,
          AdminCancel, Collect
  <2>2. QED
    BY <1>0, <2>1 DEF CallsTyped, CallTyped
<1> USE <1>0, ScopeTyped, LinesCount, FoodAssumption
    DEF Columns, Start, GoOn, Return, CallsTyped, CallTyped, OrderRows, On, Known,
        Searching, EditableStatuses, Due, Orphans, MayRing, kitchenVars, dispatchVars
<1>2. ASSUME NEW missing \in SUBSET On, AcceptPartStart(missing)
      PROVE  CallsTyped'
  BY <1>2, SMTT(20) DEF AcceptPartStart
<1>3. CASE DeclineItems
  BY <1>3, SMTT(20) DEF DeclineItems, At, CancelledRow
<1>4. ASSUME NEW kept \in SUBSET Known, EditStart(kept)
      PROVE  CallsTyped'
  BY <1>4, SMTT(20) DEF EditStart
<1>5. ASSUME NEW who \in {Shop, Clock}, ReadyStart(who)
      PROVE  CallsTyped'
  BY <1>5, SMTT(20) DEF ReadyStart
<1>6. CASE CancelPreparing
  BY <1>6, SMTT(20) DEF CancelPreparing, CancelledRow
<1>7. CASE LeaveStart
  BY <1>7, SMTT(20) DEF LeaveStart
<1>8. ASSUME NEW c \in calls, LeaveCommit(c)
      PROVE  CallsTyped'
  BY <1>8, SMTT(20) DEF LeaveCommit, LeaveMay, At, CancelledRow
<1>9. CASE AcceptOrder
  BY <1>9, SMTT(20) DEF AcceptOrder
<1>10. QED
  BY <1>1, <1>2, <1>3, <1>4, <1>5, <1>6, <1>7, <1>8, <1>9 DEF KitchenNext

\* Each step of the search keeps the types of the calls.
LEMMA DispatchCalls ==
  ASSUME IInv, DispatchNext \/ Faults
  PROVE  CallsTyped'
<1>0. /\ scope \in Scopes /\ order \in OrderRows /\ Columns /\ CallsTyped
      /\ Standing /\ LineFacts
  BY DEF IInv
<1>1. CASE \/ \E c \in calls : Quiet(c) \/ OrphansExpire(c) \/ TickHold(c) \/ TickPark(c) \/
                TickNobody(c) \/ RingLive(c) \/ RaiseCommit(c) \/ Crash(c)
           \/ \E r \in Riders : Drop(r) \/ CooldownEnds(r)
           \/ ResumeSearch \/ CancelFromHold \/ Lapse
  <2>1. calls' \subseteq calls
    BY <1>1
      DEF Return, kitchenVars, dispatchVars, Quiet, OrphansExpire, TickHold, TickPark,
          TickNobody, RingLive, Drop, ResumeSearch, CancelFromHold, RaiseCommit, Lapse,
          CooldownEnds, Crash
  <2>2. QED
    BY <1>0, <2>1 DEF CallsTyped, CallTyped
<1>2. ASSUME NEW r \in Riders, AcceptStart(r)
      PROVE  CallsTyped'
  <2>1. PICK call : /\ Start(call)
                    /\ call = [by |-> r, op |-> "accept", round |-> order.round,
                               cooking |-> order.phase = "preparing"]
    BY <1>2 DEF AcceptStart
  <2>2. call.op = "accept" /\ call.by = r /\ call.cooking = (order.phase = "preparing")
    BY <2>1
  <2>3. CallTyped(call)
    BY <2>2 DEF CallTyped
  <2>4. QED
    BY <1>0, <2>1, <2>3, StartTyped
<1> USE <1>0, ScopeTyped, LinesCount, FoodAssumption
    DEF Columns, Start, GoOn, Return, CallsTyped, CallTyped, OrderRows, On, Known,
        Searching, EditableStatuses, Due, Orphans, MayRing, kitchenVars, dispatchVars
<1>3. ASSUME NEW c \in calls, CloseRound(c)
      PROVE  CallsTyped'
  BY <1>3, SMTT(20) DEF CloseRound
<1>4. ASSUME NEW s \in Sweepers, ExpiredStart(s)
      PROVE  CallsTyped'
  BY <1>4, SMTT(20) DEF ExpiredStart
<1>5. ASSUME NEW s \in Sweepers, OrphansStart(s)
      PROVE  CallsTyped'
  BY <1>5, SMTT(20) DEF OrphansStart
<1>6. ASSUME NEW s \in Sweepers, NEW riders \in SUBSET Riders, TickStart(s, riders)
      PROVE  CallsTyped'
  BY <1>6, SMTT(20) DEF TickStart, Due, At, CookingDue, Attempt, Rung
<1>7. ASSUME NEW c \in calls, TickClaim(c)
      PROVE  CallsTyped'
  BY <1>7, SMTT(20) DEF TickClaim, TickMay, Unclaimed, Priced
<1>8. ASSUME NEW c \in calls, Ring(c)
      PROVE  CallsTyped'
  BY <1>8, SMTT(20) DEF Ring
<1>9. ASSUME NEW c \in calls, RingFails(c)
      PROVE  CallsTyped'
  BY <1>9, SMTT(20) DEF RingFails
<1>10. ASSUME NEW c \in calls, AcceptClaim(c)
      PROVE  CallsTyped'
  BY <1>10, SMTT(20) DEF AcceptClaim, AcceptMay
<1>11. ASSUME NEW c \in calls, AcceptMark(c)
      PROVE  CallsTyped'
  BY <1>11, SMTT(20) DEF AcceptMark
<1>12. ASSUME NEW r \in Riders, DeclineStart(r)
      PROVE  CallsTyped'
  BY <1>12, SMTT(20) DEF DeclineStart, LiveOffer
<1>13. ASSUME NEW c \in calls, DeclineMark(c)
      PROVE  CallsTyped'
  BY <1>13, SMTT(20) DEF DeclineMark
<1>14. ASSUME NEW c \in calls, DeclineCount(c)
      PROVE  CallsTyped'
  BY <1>14, SMTT(20) DEF DeclineCount
<1>15. ASSUME NEW ceiling \in scope.ceilings, RaiseStart(ceiling)
      PROVE  CallsTyped'
  BY <1>15, SMTT(20) DEF RaiseStart
<1>16. QED
  BY <1>1, <1>2, <1>3, <1>4, <1>5, <1>6, <1>7, <1>8, <1>9, <1>10, <1>11, <1>12, <1>13, <1>14,
     <1>15
  DEF DispatchNext, CallStep, Faults

\* Which of the search's steps start no tick, accept or edit.
LEMMA DispatchCallsKept ==
  ASSUME \/ \E c \in calls : Quiet(c) \/ OrphansExpire(c) \/ Ring(c) \/ RingFails(c) \/
              RingLive(c) \/ AcceptMark(c) \/ DeclineMark(c) \/ DeclineCount(c) \/ Crash(c)
         \/ \E s \in Sweepers : ExpiredStart(s) \/ OrphansStart(s)
         \/ \E r \in Riders : DeclineStart(r) \/ CooldownEnds(r)
         \/ \E ceiling \in scope.ceilings : RaiseStart(ceiling)
         \/ Lapse
  PROVE  \A d \in calls' : d \in calls \/ d.op \notin {"tick", "accept", "edit", "available"}
<1>1. ASSUME NEW c \in calls, Quiet(c)
      PROVE  \A d \in calls' : d \in calls \/ d.op \notin {"tick", "accept", "edit", "available"}
  BY <1>1 DEF Start, GoOn, Return, Quiet, dispatchVars
<1>2. ASSUME NEW s \in Sweepers, ExpiredStart(s)
      PROVE  \A d \in calls' : d \in calls \/ d.op \notin {"tick", "accept", "edit", "available"}
  BY <1>2 DEF Start, GoOn, Return, ExpiredStart, dispatchVars
<1>3. ASSUME NEW s \in Sweepers, OrphansStart(s)
      PROVE  \A d \in calls' : d \in calls \/ d.op \notin {"tick", "accept", "edit", "available"}
  BY <1>3 DEF Start, GoOn, Return, OrphansStart, dispatchVars
<1>4. ASSUME NEW c \in calls, OrphansExpire(c)
      PROVE  \A d \in calls' : d \in calls \/ d.op \notin {"tick", "accept", "edit", "available"}
  BY <1>4 DEF Start, GoOn, Return, OrphansExpire, dispatchVars
<1>5. ASSUME NEW c \in calls, Ring(c)
      PROVE  \A d \in calls' : d \in calls \/ d.op \notin {"tick", "accept", "edit", "available"}
  BY <1>5 DEF Start, GoOn, Return, Ring, dispatchVars
<1>6. ASSUME NEW c \in calls, RingFails(c)
      PROVE  \A d \in calls' : d \in calls \/ d.op \notin {"tick", "accept", "edit", "available"}
  BY <1>6 DEF Start, GoOn, Return, RingFails, dispatchVars
<1>7. ASSUME NEW c \in calls, RingLive(c)
      PROVE  \A d \in calls' : d \in calls \/ d.op \notin {"tick", "accept", "edit", "available"}
  BY <1>7 DEF Start, GoOn, Return, RingLive, dispatchVars
<1>8. ASSUME NEW c \in calls, AcceptMark(c)
      PROVE  \A d \in calls' : d \in calls \/ d.op \notin {"tick", "accept", "edit", "available"}
  BY <1>8 DEF Start, GoOn, Return, AcceptMark, dispatchVars
<1>9. ASSUME NEW r \in Riders, DeclineStart(r)
      PROVE  \A d \in calls' : d \in calls \/ d.op \notin {"tick", "accept", "edit", "available"}
  BY <1>9 DEF Start, GoOn, Return, DeclineStart, dispatchVars
<1>10. ASSUME NEW c \in calls, DeclineMark(c)
      PROVE  \A d \in calls' : d \in calls \/ d.op \notin {"tick", "accept", "edit", "available"}
  BY <1>10 DEF Start, GoOn, Return, DeclineMark, dispatchVars
<1>11. ASSUME NEW c \in calls, DeclineCount(c)
      PROVE  \A d \in calls' : d \in calls \/ d.op \notin {"tick", "accept", "edit", "available"}
  BY <1>11 DEF Start, GoOn, Return, DeclineCount, dispatchVars
<1>12. ASSUME NEW ceiling \in scope.ceilings, RaiseStart(ceiling)
      PROVE  \A d \in calls' : d \in calls \/ d.op \notin {"tick", "accept", "edit", "available"}
  BY <1>12 DEF Start, GoOn, Return, RaiseStart, dispatchVars
<1>13. CASE Lapse
  BY <1>13 DEF Start, GoOn, Return, Lapse, dispatchVars
<1>14. ASSUME NEW r \in Riders, CooldownEnds(r)
      PROVE  \A d \in calls' : d \in calls \/ d.op \notin {"tick", "accept", "edit", "available"}
  BY <1>14 DEF Start, GoOn, Return, CooldownEnds, dispatchVars
<1>15. ASSUME NEW c \in calls, Crash(c)
      PROVE  \A d \in calls' : d \in calls \/ d.op \notin {"tick", "accept", "edit", "available"}
  BY <1>15 DEF Start, GoOn, Return, Crash, dispatchVars
<1>16. QED
  BY <1>1, <1>2, <1>3, <1>4, <1>5, <1>6, <1>7, <1>8, <1>9, <1>10, <1>11, <1>12, <1>13, <1>14,
     <1>15

\* Each step of the kitchen keeps the facts the order stands on.
LEMMA KitchenStanding ==
  ASSUME IInv, KitchenNext, UNCHANGED <<scope, crashes, dispatchVars>>, order' \in OrderRows
  PROVE  Standing'
<1>0. /\ scope \in Scopes /\ order \in OrderRows /\ Columns /\ CallsTyped
      /\ Standing /\ LineFacts
  BY DEF IInv
<1>1. CASE \/ \E missing \in SUBSET On : AcceptPartStart(missing)
           \/ CloseEndedRound \/ LeaveStart
           \/ \E c \in calls : SettleRound(c) \/ MarkAvailable(c)
           \/ \E kept \in SUBSET Known : EditStart(kept)
           \/ \E who \in {Shop, Clock} : ReadyStart(who)
  <2>1. order' = order
    BY <1>1
      DEF kitchenVars, dispatchVars, AcceptPartStart, CloseEndedRound, SettleRound, MarkAvailable,
          EditStart, ReadyStart, LeaveStart
  <2>2. \A d \in calls' : d \in calls \/ d.op \notin {"tick", "accept"}
    BY <1>1
      DEF Start, GoOn, Return, AcceptPartStart, CloseEndedRound, SettleRound, MarkAvailable,
          EditStart, ReadyStart, LeaveStart
  <2>3. QED
    BY <1>0, <2>1, StandingKept, <2>2
<1>2. ASSUME NEW c \in calls, AcceptPartCommit(c)
      PROVE  Standing'
  BY <1>0, <1>2, AcceptPartCommit_Standing
<1>3. ASSUME NEW gone \in SUBSET On, NEW swaps \in SUBSET scope.swaps, Propose(gone, swaps)
      PROVE  Standing'
  BY <1>0, <1>3, Propose_Standing
<1>4. ASSUME NEW c \in calls, EditCommit(c)
      PROVE  Standing'
  BY <1>0, <1>4, EditCommit_Standing
<1>5. ASSUME NEW c \in calls, ReadyCommit(c)
      PROVE  Standing'
  BY <1>0, <1>5, ReadyCommit_Standing
<1>6. ASSUME NEW c \in calls, LeaveCommit(c)
      PROVE  Standing'
  BY <1>0, <1>6, LeaveCommit_Standing
<1> USE <1>0, FoodAssumption
    DEF OrderRows, Standing, Placed, Coded, Answered, PaidFor, HeldReady, CallFacts,
        CallFact, Asked, Blank, Start, GoOn, Return, CallsTyped, CallTyped, Searching,
        EditableStatuses, CookingDue, Row, kitchenVars, dispatchVars
<1>7. ASSUME NEW wallet \in scope.wallets, NEW auto \in scope.autos,
             NEW ceiling \in scope.ceilings, PlaceOrder(wallet, auto, ceiling)
      PROVE  Standing'
  BY <1>7, SMTT(20) DEF PlaceOrder
<1>8. CASE AcceptOrder
  BY <1>8, SMTT(20) DEF AcceptOrder, At, AfterItems
<1>9. CASE CancelWaiting
  BY <1>9, SMTT(20) DEF CancelWaiting, At, CancelledRow
<1>10. CASE CancelUnconfirmed
  BY <1>10, SMTT(20) DEF CancelUnconfirmed, CancelledRow
<1>11. CASE ConfirmKitchen
  BY <1>11, SMTT(20) DEF ConfirmKitchen
<1>12. CASE ConfirmPayment
  BY <1>12, SMTT(20) DEF ConfirmPayment, At
<1>13. ASSUME NEW accepted \in SUBSET sub, Resolve(accepted)
      PROVE  Standing'
  BY <1>13, SMTT(20) DEF Resolve, CancelledRow, AfterItems
<1>14. CASE ApproveItems
  BY <1>14, SMTT(20) DEF ApproveItems, At, AfterItems
<1>15. CASE DeclineItems
  BY <1>15, SMTT(20) DEF DeclineItems, At, CancelledRow
<1>16. CASE CancelPreparing
  BY <1>16, SMTT(20) DEF CancelPreparing, CancelledRow
<1>17. CASE CustomerCancel
  BY <1>17, SMTT(20) DEF CustomerCancel
<1>18. CASE AdminCancel
  BY <1>18, SMTT(20) DEF AdminCancel, CancelledRow
<1>19. CASE Collect
  BY <1>19, SMTT(20) DEF Collect
<1>20. QED
  BY <1>1, <1>2, <1>3, <1>4, <1>5, <1>6, <1>7, <1>8, <1>9, <1>10, <1>11, <1>12, <1>13, <1>14,
     <1>15, <1>16, <1>17, <1>18, <1>19
  DEF KitchenNext

\* Each step of the search keeps the facts the order stands on.
LEMMA DispatchStanding ==
  ASSUME IInv, DispatchNext \/ Faults, order' \in OrderRows
  PROVE  Standing'
<1>0. /\ scope \in Scopes /\ order \in OrderRows /\ Columns /\ CallsTyped
      /\ Standing /\ LineFacts
  BY DEF IInv
<1>1. CASE \/ \E c \in calls : Quiet(c) \/ OrphansExpire(c) \/ Ring(c) \/ RingFails(c) \/
                RingLive(c) \/ AcceptMark(c) \/ DeclineMark(c) \/ DeclineCount(c) \/ Crash(c)
           \/ \E s \in Sweepers : ExpiredStart(s) \/ OrphansStart(s)
           \/ \E r \in Riders : DeclineStart(r) \/ CooldownEnds(r)
           \/ \E ceiling \in scope.ceilings : RaiseStart(ceiling)
           \/ Lapse
  <2>1. order' = order
    BY <1>1
      DEF kitchenVars, dispatchVars, Quiet, ExpiredStart, OrphansStart, OrphansExpire, Ring,
          RingFails, RingLive, AcceptMark, DeclineStart, DeclineMark, DeclineCount, RaiseStart,
          Lapse, CooldownEnds, Crash
  <2>2. \A d \in calls' : d \in calls \/ d.op \notin {"tick", "accept"}
    BY <1>1, DispatchCallsKept
  <2>3. QED
    BY <1>0, <2>1, StandingKept, <2>2
<1>2. ASSUME NEW c \in calls, CloseRound(c)
      PROVE  Standing'
  BY <1>0, <1>2, CloseRound_Standing
<1>3. ASSUME NEW c \in calls, TickClaim(c)
      PROVE  Standing'
  BY <1>0, <1>3, TickClaim_Standing
<1>4. ASSUME NEW r \in Riders, AcceptStart(r)
      PROVE  Standing'
  BY <1>0, <1>4, AcceptStart_Standing
<1>5. ASSUME NEW c \in calls, AcceptClaim(c)
      PROVE  Standing'
  BY <1>0, <1>5, AcceptClaim_Standing
<1>6. ASSUME NEW c \in calls, RaiseCommit(c)
      PROVE  Standing'
  BY <1>0, <1>6, RaiseCommit_Standing
<1> USE <1>0, FoodAssumption
    DEF OrderRows, Standing, Placed, Coded, Answered, PaidFor, HeldReady, CallFacts,
        CallFact, Asked, Blank, Start, GoOn, Return, CallsTyped, CallTyped, Searching,
        EditableStatuses, CookingDue, Row, kitchenVars, dispatchVars
<1>7. ASSUME NEW s \in Sweepers, NEW riders \in SUBSET Riders, TickStart(s, riders)
      PROVE  Standing'
  BY <1>7, SMTT(20) DEF TickStart, Due, At, CookingDue, Attempt, Rung
<1>8. ASSUME NEW c \in calls, TickHold(c)
      PROVE  Standing'
  BY <1>8, SMTT(20) DEF TickHold, Unclaimed
<1>9. ASSUME NEW c \in calls, TickPark(c)
      PROVE  Standing'
  BY <1>9, SMTT(20) DEF TickPark, Unclaimed
<1>10. ASSUME NEW c \in calls, TickNobody(c)
      PROVE  Standing'
  BY <1>10, SMTT(20) DEF TickNobody, TickMay, Unclaimed, Priced
<1>11. ASSUME NEW r \in Riders, Drop(r)
      PROVE  Standing'
  BY <1>11, SMTT(20) DEF Drop
<1>12. CASE ResumeSearch
  BY <1>12, SMTT(20) DEF ResumeSearch, Held, At
<1>13. CASE CancelFromHold
  BY <1>13, SMTT(20) DEF CancelFromHold, Held, At, CancelledRow
<1>14. QED
  BY <1>1, <1>2, <1>3, <1>4, <1>5, <1>6, <1>7, <1>8, <1>9, <1>10, <1>11, <1>12, <1>13
  DEF DispatchNext, CallStep, Faults

\* Each step of the kitchen counts the goods with the lines, or moves neither.
LEMMA KitchenCount ==
  ASSUME IInv, KitchenNext, UNCHANGED <<scope, crashes, dispatchVars>>, order' \in OrderRows
  PROVE  FollowsLines
<1>0. /\ scope \in Scopes /\ order \in OrderRows /\ Columns /\ CallsTyped
      /\ Standing /\ LineFacts
  BY DEF IInv
<1>1. CASE \/ \E missing \in SUBSET On : AcceptPartStart(missing)
           \/ CloseEndedRound \/ LeaveStart
           \/ \E c \in calls : SettleRound(c)
           \/ \E kept \in SUBSET Known : EditStart(kept)
           \/ \E who \in {Shop, Clock} : ReadyStart(who)
  <2>1. order' = order /\ item' = item
    BY <1>1
      DEF kitchenVars, dispatchVars, AcceptPartStart, CloseEndedRound, SettleRound, EditStart,
          ReadyStart, LeaveStart
  <2>2. QED
    BY <1>0, <2>1, CountKept
<1>2. ASSUME NEW wallet \in scope.wallets, NEW auto \in scope.autos,
             NEW ceiling \in scope.ceilings, PlaceOrder(wallet, auto, ceiling)
      PROVE  FollowsLines
  BY <1>0, <1>2, PlaceOrder_Count DEF FollowsLines
<1>3. ASSUME NEW c \in calls, AcceptPartCommit(c)
      PROVE  FollowsLines
  BY <1>0, <1>3, AcceptPart_Count DEF Columns
<1>4. ASSUME NEW gone \in SUBSET On, NEW swaps \in SUBSET scope.swaps, Propose(gone, swaps)
      PROVE  FollowsLines
  BY <1>0, <1>4, Propose_Count DEF Columns, FollowsLines
<1>5. ASSUME NEW accepted \in SUBSET sub, Resolve(accepted)
      PROVE  FollowsLines
  BY <1>0, <1>5, Resolve_Count DEF Columns, FollowsLines
<1>6. ASSUME NEW c \in calls, EditCommit(c)
      PROVE  FollowsLines
  BY <1>0, <1>6, Edit_Count DEF Columns
<1>7. ASSUME NEW c \in calls, LeaveCommit(c)
      PROVE  FollowsLines
  BY <1>0, <1>7, MovesKeepLines, CountKept
<1> USE <1>0
    DEF FollowsLines, GoodsMatchItems, OrderRows, On, Known, Searching, EditableStatuses, Row,
        kitchenVars, CallsTyped, CallTyped, Standing, Placed
<1>8. CASE AcceptOrder
  BY <1>8, SMTT(20) DEF AcceptOrder, At, AfterItems
<1>9. CASE CancelWaiting
  BY <1>9, SMTT(20) DEF CancelWaiting, At, CancelledRow
<1>10. CASE CancelUnconfirmed
  BY <1>10, SMTT(20) DEF CancelUnconfirmed, CancelledRow
<1>11. CASE ConfirmKitchen
  BY <1>11, SMTT(20) DEF ConfirmKitchen
<1>12. CASE ConfirmPayment
  BY <1>12, SMTT(20) DEF ConfirmPayment, At
<1>13. CASE ApproveItems
  BY <1>13, SMTT(20) DEF ApproveItems, At, AfterItems
<1>14. CASE DeclineItems
  BY <1>14, SMTT(20) DEF DeclineItems, At, CancelledRow
<1>15. ASSUME NEW c \in calls, ReadyCommit(c)
      PROVE  FollowsLines
  BY <1>15, SMTT(20) DEF ReadyCommit, ReadyPhase
<1>16. CASE CancelPreparing
  BY <1>16, SMTT(20) DEF CancelPreparing, CancelledRow
<1>17. CASE CustomerCancel
  BY <1>17, SMTT(20) DEF CustomerCancel
<1>18. CASE AdminCancel
  BY <1>18, SMTT(20) DEF AdminCancel, CancelledRow
<1>19. CASE Collect
  BY <1>19, SMTT(20) DEF Collect
<1>20. ASSUME NEW c \in calls, MarkAvailable(c)
      PROVE  FollowsLines
  BY <1>0, <1>20, MarkAvailable_Count DEF Columns
<1>21. QED
  BY <1>1, <1>2, <1>3, <1>4, <1>5, <1>6, <1>7, <1>8, <1>9, <1>10, <1>11, <1>12, <1>13, <1>14,
     <1>15, <1>16, <1>17, <1>18, <1>19, <1>20
  DEF KitchenNext

\* Each step of the search counts the goods with the lines, or moves neither.
LEMMA DispatchCount ==
  ASSUME IInv, DispatchNext \/ Faults, order' \in OrderRows
  PROVE  FollowsLines
<1>0. /\ scope \in Scopes /\ order \in OrderRows /\ Columns /\ CallsTyped
      /\ Standing /\ LineFacts
  BY DEF IInv
<1>1. CASE \/ \E c \in calls : Quiet(c) \/ OrphansExpire(c) \/ Ring(c) \/ RingFails(c) \/
                RingLive(c) \/ AcceptMark(c) \/ DeclineMark(c) \/ DeclineCount(c) \/ Crash(c)
           \/ \E s \in Sweepers : ExpiredStart(s) \/ OrphansStart(s)
           \/ \E s \in Sweepers, riders \in SUBSET Riders : TickStart(s, riders)
           \/ \E r \in Riders : AcceptStart(r) \/ DeclineStart(r) \/ CooldownEnds(r)
           \/ \E ceiling \in scope.ceilings : RaiseStart(ceiling)
           \/ Lapse
  <2>1. order' = order /\ item' = item
    BY <1>1
      DEF kitchenVars, dispatchVars, Quiet, ExpiredStart, OrphansStart, OrphansExpire,
          TickStart, Ring, RingFails, RingLive, AcceptStart, AcceptMark, DeclineStart,
          DeclineMark, DeclineCount, RaiseStart, Lapse, CooldownEnds, Crash
  <2>2. QED
    BY <1>0, <2>1, CountKept
<1>2. ASSUME NEW c \in calls, CloseRound(c)
      PROVE  FollowsLines
  BY <1>0, <1>2, MovesKeepLines, CountKept
<1>3. ASSUME NEW c \in calls, TickClaim(c)
      PROVE  FollowsLines
  BY <1>0, <1>3, MovesKeepLines, CountKept
<1>4. ASSUME NEW c \in calls, AcceptClaim(c)
      PROVE  FollowsLines
  BY <1>0, <1>4, MovesKeepLines, CountKept
<1> USE <1>0
    DEF FollowsLines, GoodsMatchItems, OrderRows, On, Known, Searching, EditableStatuses, Row,
        kitchenVars, CallsTyped, CallTyped, Standing, Placed
<1>5. ASSUME NEW c \in calls, TickHold(c)
      PROVE  FollowsLines
  BY <1>5, SMTT(20) DEF TickHold, Unclaimed
<1>6. ASSUME NEW c \in calls, TickPark(c)
      PROVE  FollowsLines
  BY <1>6, SMTT(20) DEF TickPark, Unclaimed
<1>7. ASSUME NEW c \in calls, TickNobody(c)
      PROVE  FollowsLines
  BY <1>7, SMTT(20) DEF TickNobody, TickMay, Unclaimed, Priced
<1>8. ASSUME NEW r \in Riders, Drop(r)
      PROVE  FollowsLines
  BY <1>8, SMTT(20) DEF Drop
<1>9. CASE ResumeSearch
  BY <1>9, SMTT(20) DEF ResumeSearch, Held, At
<1>10. CASE CancelFromHold
  BY <1>10, SMTT(20) DEF CancelFromHold, Held, At, CancelledRow
<1>11. ASSUME NEW c \in calls, RaiseCommit(c)
      PROVE  FollowsLines
  BY <1>11, SMTT(20) DEF RaiseCommit, RaiseMay
<1>12. QED
  BY <1>1, <1>2, <1>3, <1>4, <1>5, <1>6, <1>7, <1>8, <1>9, <1>10, <1>11
  DEF DispatchNext, CallStep, Faults

\* Each step of the kitchen keeps what the edits under way and the late statement know.
LEMMA KitchenLines ==
  ASSUME IInv, KitchenNext, UNCHANGED <<scope, crashes, dispatchVars>>, order' \in OrderRows
  PROVE  LineFacts'
<1>0. /\ scope \in Scopes /\ order \in OrderRows /\ Columns /\ CallsTyped
      /\ Standing /\ LineFacts
  BY DEF IInv
<1>1. CASE \/ \E missing \in SUBSET On : AcceptPartStart(missing)
           \/ CloseEndedRound \/ LeaveStart
           \/ \E c \in calls : SettleRound(c)
           \/ \E who \in {Shop, Clock} : ReadyStart(who)
  <2>1. order' = order /\ item' = item
    BY <1>1
      DEF kitchenVars, dispatchVars, AcceptPartStart, CloseEndedRound, SettleRound, ReadyStart,
          LeaveStart
  <2>2. \A d \in calls' : d \in calls \/ d.op \notin {"edit", "available"}
    BY <1>1
      DEF Start, GoOn, Return, AcceptPartStart, CloseEndedRound, SettleRound, ReadyStart,
          LeaveStart
  <2>3. QED
    BY <1>0, <2>1, LinesMoved, <2>2
<1>2. ASSUME NEW c \in calls, AcceptPartCommit(c)
      PROVE  LineFacts'
  BY <1>0, <1>2, AcceptPart_Count DEF Columns
<1>3. ASSUME NEW gone \in SUBSET On, NEW swaps \in SUBSET scope.swaps, Propose(gone, swaps)
      PROVE  LineFacts'
  BY <1>0, <1>3, Propose_Count, VersionMoved DEF Columns, Propose
<1>4. ASSUME NEW accepted \in SUBSET sub, Resolve(accepted)
      PROVE  LineFacts'
  BY <1>0, <1>4, Resolve_Count, VersionMoved DEF Columns, Resolve
<1>5. ASSUME NEW c \in calls, EditCommit(c)
      PROVE  LineFacts'
  BY <1>0, <1>5, Edit_Count DEF Columns
<1>6. ASSUME NEW c \in calls, LeaveCommit(c)
      PROVE  LineFacts'
  BY <1>0, <1>6, MovesKeepLines, LinesMoved
<1> USE <1>0
    DEF LineFacts, LineFact, NoneOff, Start, GoOn, Return, OrderRows, On, Known, Searching,
        EditableStatuses, Row, kitchenVars, CallsTyped, CallTyped, Standing, Placed
<1>7. ASSUME NEW wallet \in scope.wallets, NEW auto \in scope.autos,
             NEW ceiling \in scope.ceilings, PlaceOrder(wallet, auto, ceiling)
      PROVE  LineFacts'
  BY <1>7, SMTT(20) DEF PlaceOrder
<1>8. CASE AcceptOrder
  BY <1>8, SMTT(20) DEF AcceptOrder, At, AfterItems
<1>9. CASE CancelWaiting
  BY <1>9, SMTT(20) DEF CancelWaiting, At, CancelledRow
<1>10. CASE CancelUnconfirmed
  BY <1>10, SMTT(20) DEF CancelUnconfirmed, CancelledRow
<1>11. CASE ConfirmKitchen
  BY <1>11, SMTT(20) DEF ConfirmKitchen
<1>12. CASE ConfirmPayment
  BY <1>12, SMTT(20) DEF ConfirmPayment, At
<1>13. CASE ApproveItems
  BY <1>13, SMTT(20) DEF ApproveItems, At, AfterItems
<1>14. CASE DeclineItems
  BY <1>14, SMTT(20) DEF DeclineItems, At, CancelledRow
<1>15. ASSUME NEW kept \in SUBSET Known, EditStart(kept)
      PROVE  LineFacts'
  BY <1>15, SMTT(20) DEF EditStart
<1>16. ASSUME NEW c \in calls, ReadyCommit(c)
      PROVE  LineFacts'
  BY <1>16, SMTT(20) DEF ReadyCommit, ReadyPhase
<1>17. CASE CancelPreparing
  BY <1>17, SMTT(20) DEF CancelPreparing, CancelledRow
<1>18. CASE CustomerCancel
  BY <1>18, SMTT(20) DEF CustomerCancel
<1>19. CASE AdminCancel
  BY <1>19, SMTT(20) DEF AdminCancel, CancelledRow
<1>20. CASE Collect
  BY <1>20, SMTT(20) DEF Collect
<1>21. ASSUME NEW c \in calls, MarkAvailable(c)
      PROVE  LineFacts'
  BY <1>0, <1>21, MarkAvailable_Count DEF Columns
<1>22. QED
  BY <1>1, <1>2, <1>3, <1>4, <1>5, <1>6, <1>7, <1>8, <1>9, <1>10, <1>11, <1>12, <1>13, <1>14,
     <1>15, <1>16, <1>17, <1>18, <1>19, <1>20, <1>21
  DEF KitchenNext

\* Each step of the search keeps what the edits under way and the late statement know.
LEMMA DispatchLines ==
  ASSUME IInv, DispatchNext \/ Faults, order' \in OrderRows
  PROVE  LineFacts'
<1>0. /\ scope \in Scopes /\ order \in OrderRows /\ Columns /\ CallsTyped
      /\ Standing /\ LineFacts
  BY DEF IInv
<1>1. CASE \/ \E c \in calls : Quiet(c) \/ OrphansExpire(c) \/ Ring(c) \/ RingFails(c) \/
                RingLive(c) \/ AcceptMark(c) \/ DeclineMark(c) \/ DeclineCount(c) \/ Crash(c)
           \/ \E s \in Sweepers : ExpiredStart(s) \/ OrphansStart(s)
           \/ \E r \in Riders : DeclineStart(r) \/ CooldownEnds(r)
           \/ \E ceiling \in scope.ceilings : RaiseStart(ceiling)
           \/ Lapse
  <2>1. order' = order /\ item' = item
    BY <1>1
      DEF kitchenVars, dispatchVars, Quiet, ExpiredStart, OrphansStart, OrphansExpire, Ring,
          RingFails, RingLive, AcceptMark, DeclineStart, DeclineMark, DeclineCount, RaiseStart,
          Lapse, CooldownEnds, Crash
  <2>2. \A d \in calls' : d \in calls \/ d.op \notin {"edit", "available"}
    BY <1>1, DispatchCallsKept
  <2>3. QED
    BY <1>0, <2>1, LinesMoved, <2>2
<1>2. ASSUME NEW c \in calls, CloseRound(c)
      PROVE  LineFacts'
  BY <1>0, <1>2, MovesKeepLines, LinesMoved
<1>3. ASSUME NEW c \in calls, TickClaim(c)
      PROVE  LineFacts'
  BY <1>0, <1>3, MovesKeepLines, LinesMoved
<1>4. ASSUME NEW c \in calls, AcceptClaim(c)
      PROVE  LineFacts'
  BY <1>0, <1>4, MovesKeepLines, LinesMoved
<1> USE <1>0
    DEF LineFacts, LineFact, NoneOff, Start, GoOn, Return, OrderRows, On, Known, Searching,
        EditableStatuses, Row, kitchenVars, CallsTyped, CallTyped, Standing, Placed
<1>5. ASSUME NEW s \in Sweepers, NEW riders \in SUBSET Riders, TickStart(s, riders)
      PROVE  LineFacts'
  BY <1>5, SMTT(20) DEF TickStart, Due, At, CookingDue, Attempt, Rung
<1>6. ASSUME NEW c \in calls, TickHold(c)
      PROVE  LineFacts'
  BY <1>6, SMTT(20) DEF TickHold, Unclaimed
<1>7. ASSUME NEW c \in calls, TickPark(c)
      PROVE  LineFacts'
  BY <1>7, SMTT(20) DEF TickPark, Unclaimed
<1>8. ASSUME NEW c \in calls, TickNobody(c)
      PROVE  LineFacts'
  BY <1>8, SMTT(20) DEF TickNobody, TickMay, Unclaimed, Priced
<1>9. ASSUME NEW r \in Riders, AcceptStart(r)
      PROVE  LineFacts'
  BY <1>9, SMTT(20) DEF AcceptStart, LiveOffer
<1>10. ASSUME NEW r \in Riders, Drop(r)
      PROVE  LineFacts'
  BY <1>10, SMTT(20) DEF Drop
<1>11. CASE ResumeSearch
  BY <1>11, SMTT(20) DEF ResumeSearch, Held, At
<1>12. CASE CancelFromHold
  BY <1>12, SMTT(20) DEF CancelFromHold, Held, At, CancelledRow
<1>13. ASSUME NEW c \in calls, RaiseCommit(c)
      PROVE  LineFacts'
  BY <1>13, SMTT(20) DEF RaiseCommit, RaiseMay
<1>14. QED
  BY <1>1, <1>2, <1>3, <1>4, <1>5, <1>6, <1>7, <1>8, <1>9, <1>10, <1>11, <1>12, <1>13
  DEF DispatchNext, CallStep, Faults

\* The invariant does not depend on what a stutter leaves alone.
LEMMA StutterKeeps ==
  ASSUME IInv, UNCHANGED vars
  PROVE  IInv'
<1>1. OrderRows' = OrderRows
  BY DEF OrderRows
<1>2. QED
  BY <1>1 DEF IInv, vars, Columns, CallsTyped, CallTyped, Standing, Placed, Coded, Answered,
              PaidFor, HeldReady, CallFacts, CallFact, On, Known, LineFacts, LineFact,
              NoneOff, Asked

\* The step NeverReassigned allows.
RiderKept ==
  order.rider # NoRider =>
    \/ order'.rider = order.rider
    \/ order'.status = "requested" /\ order.rider \in order'.excluded

\* No step of the kitchen takes the order from its rider, but his drop.
LEMMA KitchenRider ==
  ASSUME IInv, KitchenNext, UNCHANGED <<scope, crashes, dispatchVars>>, order' \in OrderRows
  PROVE  RiderKept
<1>0. /\ scope \in Scopes /\ order \in OrderRows /\ Columns /\ CallsTyped
      /\ Standing /\ LineFacts
  BY DEF IInv
<1>1. CASE \/ \E missing \in SUBSET On : AcceptPartStart(missing)
           \/ CloseEndedRound \/ LeaveStart
           \/ \E c \in calls : SettleRound(c) \/ MarkAvailable(c)
           \/ \E kept \in SUBSET Known : EditStart(kept)
           \/ \E who \in {Shop, Clock} : ReadyStart(who)
  BY <1>0, <1>1
    DEF RiderKept, kitchenVars, AcceptPartStart, CloseEndedRound, SettleRound, MarkAvailable,
        EditStart, ReadyStart, LeaveStart
<1>2. ASSUME NEW gone \in SUBSET On, NEW swaps \in SUBSET scope.swaps, Propose(gone, swaps)
      PROVE  RiderKept
  BY <1>0, <1>2, ProposeMoves DEF RiderKept
<1>3. ASSUME NEW c \in calls, EditCommit(c)
      PROVE  RiderKept
  BY <1>0, <1>3, EditMoves DEF RiderKept
<1> USE <1>0, FoodAssumption
    DEF RiderKept, OrderRows, Phases, Standing, Placed, Coded, CallFacts, CallFact,
        CallsTyped, CallTyped, Row, kitchenVars, EditableStatuses, Searching
<1>4. ASSUME NEW wallet \in scope.wallets, NEW auto \in scope.autos,
             NEW ceiling \in scope.ceilings, PlaceOrder(wallet, auto, ceiling)
      PROVE  RiderKept
  BY <1>4, SMTT(20) DEF PlaceOrder
<1>5. CASE AcceptOrder
  BY <1>5, SMTT(20) DEF AcceptOrder, At, AfterItems
<1>6. ASSUME NEW c \in calls, AcceptPartCommit(c)
      PROVE  RiderKept
  BY <1>6, SMTT(20) DEF AcceptPartCommit, At
<1>7. CASE CancelWaiting
  BY <1>7, SMTT(20) DEF CancelWaiting, At, CancelledRow
<1>8. CASE CancelUnconfirmed
  BY <1>8, SMTT(20) DEF CancelUnconfirmed, CancelledRow
<1>9. CASE ConfirmKitchen
  BY <1>9, SMTT(20) DEF ConfirmKitchen
<1>10. CASE ConfirmPayment
  BY <1>10, SMTT(20) DEF ConfirmPayment, At
<1>11. ASSUME NEW accepted \in SUBSET sub, Resolve(accepted)
      PROVE  RiderKept
  BY <1>11, SMTT(20) DEF Resolve, CancelledRow, AfterItems
<1>12. CASE ApproveItems
  BY <1>12, SMTT(20) DEF ApproveItems, At, AfterItems
<1>13. CASE DeclineItems
  BY <1>13, SMTT(20) DEF DeclineItems, At, CancelledRow
<1>14. ASSUME NEW c \in calls, ReadyCommit(c)
      PROVE  RiderKept
  BY <1>14, SMTT(20) DEF ReadyCommit, ReadyPhase
<1>15. CASE CancelPreparing
  BY <1>15, SMTT(20) DEF CancelPreparing, CancelledRow
<1>16. ASSUME NEW c \in calls, LeaveCommit(c)
      PROVE  RiderKept
  BY <1>16, SMTT(20) DEF LeaveCommit, LeaveMay, At, CancelledRow
<1>17. CASE CustomerCancel
  BY <1>17, SMTT(20) DEF CustomerCancel
<1>18. CASE AdminCancel
  BY <1>18, SMTT(20) DEF AdminCancel, CancelledRow
<1>19. CASE Collect
  BY <1>19, SMTT(20) DEF Collect
<1>20. QED
  BY <1>1, <1>2, <1>3, <1>4, <1>5, <1>6, <1>7, <1>8, <1>9, <1>10, <1>11, <1>12, <1>13, <1>14,
     <1>15, <1>16, <1>17, <1>18, <1>19
  DEF KitchenNext

\* No step of the search takes the order from its rider, but his drop.
LEMMA DispatchRider ==
  ASSUME IInv, DispatchNext \/ Faults, order' \in OrderRows
  PROVE  RiderKept
<1>0. /\ scope \in Scopes /\ order \in OrderRows /\ Columns /\ CallsTyped
      /\ Standing /\ LineFacts
  BY DEF IInv
<1>1. CASE \/ \E c \in calls : Quiet(c) \/ OrphansExpire(c) \/ Ring(c) \/ RingFails(c) \/
                RingLive(c) \/ AcceptMark(c) \/ DeclineMark(c) \/ DeclineCount(c) \/ Crash(c)
           \/ \E s \in Sweepers : ExpiredStart(s) \/ OrphansStart(s)
           \/ \E s \in Sweepers, riders \in SUBSET Riders : TickStart(s, riders)
           \/ \E r \in Riders : AcceptStart(r) \/ DeclineStart(r) \/ CooldownEnds(r)
           \/ \E ceiling \in scope.ceilings : RaiseStart(ceiling)
           \/ Lapse
  BY <1>0, <1>1
    DEF RiderKept, kitchenVars, Quiet, ExpiredStart, OrphansStart, OrphansExpire, TickStart,
        Ring, RingFails, RingLive, AcceptStart, AcceptMark, DeclineStart, DeclineMark,
        DeclineCount, RaiseStart, Lapse, CooldownEnds, Crash
<1> USE <1>0, FoodAssumption
    DEF RiderKept, OrderRows, Phases, Standing, Placed, Coded, CallFacts, CallFact,
        CallsTyped, CallTyped, Row, kitchenVars, EditableStatuses, Searching
<1>2. ASSUME NEW c \in calls, CloseRound(c)
      PROVE  RiderKept
  BY <1>2, SMTT(20) DEF CloseRound
<1>3. ASSUME NEW c \in calls, TickHold(c)
      PROVE  RiderKept
  BY <1>3, SMTT(20) DEF TickHold, Unclaimed
<1>4. ASSUME NEW c \in calls, TickPark(c)
      PROVE  RiderKept
  BY <1>4, SMTT(20) DEF TickPark, Unclaimed
<1>5. ASSUME NEW c \in calls, TickNobody(c)
      PROVE  RiderKept
  BY <1>5, SMTT(20) DEF TickNobody, TickMay, Unclaimed, Priced
<1>6. ASSUME NEW c \in calls, TickClaim(c)
      PROVE  RiderKept
  BY <1>6, SMTT(20) DEF TickClaim, TickMay, Unclaimed, Priced
<1>7. ASSUME NEW c \in calls, AcceptClaim(c)
      PROVE  RiderKept
  BY <1>7, SMTT(20) DEF AcceptClaim, AcceptMay
<1>8. ASSUME NEW r \in Riders, Drop(r)
      PROVE  RiderKept
  BY <1>8, SMTT(20) DEF Drop
<1>9. CASE ResumeSearch
  BY <1>9, SMTT(20) DEF ResumeSearch, Held, At
<1>10. CASE CancelFromHold
  BY <1>10, SMTT(20) DEF CancelFromHold, Held, At, CancelledRow
<1>11. ASSUME NEW c \in calls, RaiseCommit(c)
      PROVE  RiderKept
  BY <1>11, SMTT(20) DEF RaiseCommit, RaiseMay
<1>12. QED
  BY <1>1, <1>2, <1>3, <1>4, <1>5, <1>6, <1>7, <1>8, <1>9, <1>10, <1>11
  DEF DispatchNext, CallStep, Faults

\* Each step of the kitchen is a step of the tables, or none.
LEMMA KitchenTableStep ==
  ASSUME IInv, KitchenNext, UNCHANGED <<scope, crashes, dispatchVars>>, order' \in OrderRows
  PROVE  [Kitchen!KitchenTableNext]_(Kitchen!kitchenTableVars)
<1>0. /\ scope \in Scopes /\ order \in OrderRows /\ Columns /\ CallsTyped
      /\ Standing /\ LineFacts
  BY DEF IInv
<1>1. CASE \/ \E missing \in SUBSET On : AcceptPartStart(missing)
           \/ CloseEndedRound \/ LeaveStart
           \/ \E c \in calls : SettleRound(c) \/ MarkAvailable(c)
           \/ \E kept \in SUBSET Known : EditStart(kept)
           \/ \E who \in {Shop, Clock} : ReadyStart(who)
  BY <1>0, <1>1
    DEF Kitchen!kitchenTableVars, kitchenVars, AcceptPartStart, CloseEndedRound, SettleRound,
        MarkAvailable, EditStart, ReadyStart, LeaveStart
<1>2. ASSUME NEW c \in calls, AcceptPartCommit(c)
      PROVE  [Kitchen!KitchenTableNext]_(Kitchen!kitchenTableVars)
  BY <1>0, <1>2, AcceptPartMoves
  DEF Kitchen!KitchenTableNext, Kitchen!Settled, Kitchen!kitchenTableVars, At
<1>3. ASSUME NEW gone \in SUBSET On, NEW swaps \in SUBSET scope.swaps, Propose(gone, swaps)
      PROVE  [Kitchen!KitchenTableNext]_(Kitchen!kitchenTableVars)
  BY <1>0, <1>3, ProposeMoves
  DEF Kitchen!KitchenTableNext, Kitchen!CalledOff, Kitchen!Waiting, Kitchen!Settled,
      Kitchen!kitchenTableVars, Searching
<1>4. ASSUME NEW c \in calls, EditCommit(c)
      PROVE  [Kitchen!KitchenTableNext]_(Kitchen!kitchenTableVars)
  BY <1>0, <1>4, EditMoves DEF Kitchen!kitchenTableVars
<1>5. ASSUME NEW c \in calls, LeaveCommit(c)
      PROVE  [Kitchen!KitchenTableNext]_(Kitchen!kitchenTableVars)
  BY <1>0, <1>5, LeaveMoves
  DEF Kitchen!KitchenTableNext, Kitchen!CalledOff, Kitchen!Waiting,
      Kitchen!kitchenTableVars, OrderRows, Phases, Standing, Placed, Searching
<1>6. CASE AdminCancel
  BY <1>0, <1>6, AdminMoves
  DEF Kitchen!KitchenTableNext, Kitchen!CalledOff, Kitchen!Waiting, Kitchen!CancelledLive,
      Kitchen!kitchenTableVars, OrderRows, Phases, Statuses, Standing, Placed, Searching
<1> USE <1>0, FoodAssumption
    DEF Kitchen!KitchenTableNext, Kitchen!kitchenTableVars, OrderRows, Phases, Standing,
        Placed, Coded, CallFacts, CallFact, CallsTyped, CallTyped, Row, kitchenVars,
        EditableStatuses, Searching
<1>7. ASSUME NEW wallet \in scope.wallets, NEW auto \in scope.autos,
             NEW ceiling \in scope.ceilings, PlaceOrder(wallet, auto, ceiling)
      PROVE  [Kitchen!KitchenTableNext]_(Kitchen!kitchenTableVars)
  BY <1>7, SMTT(20) DEF Kitchen!Place, PlaceOrder
<1>8. CASE AcceptOrder
  BY <1>8, SMTT(20) DEF Kitchen!Settled, AcceptOrder, At, AfterItems
<1>9. CASE CancelWaiting
  BY <1>9, SMTT(20) DEF Kitchen!CalledOff, Kitchen!Waiting, CancelWaiting, At, CancelledRow
<1>10. CASE CancelUnconfirmed
  BY <1>10, SMTT(20) DEF Kitchen!CalledOff, Kitchen!Waiting, CancelUnconfirmed, CancelledRow
<1>11. CASE ConfirmKitchen
  BY <1>11, SMTT(20) DEF ConfirmKitchen
<1>12. CASE ConfirmPayment
  BY <1>12, SMTT(20) DEF Kitchen!ConfirmedPayment, ConfirmPayment, At
<1>13. ASSUME NEW accepted \in SUBSET sub, Resolve(accepted)
      PROVE  [Kitchen!KitchenTableNext]_(Kitchen!kitchenTableVars)
  BY <1>13, SMTT(20)
  DEF Kitchen!CalledOff, Kitchen!Waiting, Kitchen!Settled, Resolve, CancelledRow, AfterItems
<1>14. CASE ApproveItems
  BY <1>14, SMTT(20) DEF Kitchen!Settled, ApproveItems, At, AfterItems
<1>15. CASE DeclineItems
  BY <1>15, SMTT(20) DEF Kitchen!CalledOff, Kitchen!Waiting, DeclineItems, At, CancelledRow
<1>16. ASSUME NEW c \in calls, ReadyCommit(c)
      PROVE  [Kitchen!KitchenTableNext]_(Kitchen!kitchenTableVars)
  BY <1>16, SMTT(20) DEF Kitchen!MarkedReady, ReadyCommit, ReadyPhase
<1>17. CASE CancelPreparing
  BY <1>17, SMTT(20) DEF Kitchen!CalledOff, CancelPreparing, CancelledRow
<1>18. CASE CustomerCancel
  BY <1>18, SMTT(20) DEF Kitchen!CancelledLive, CustomerCancel
<1>19. CASE Collect
  BY <1>19, SMTT(20) DEF Kitchen!PickedUp, Collect
<1>20. QED
  BY <1>1, <1>2, <1>3, <1>4, <1>5, <1>6, <1>7, <1>8, <1>9, <1>10, <1>11, <1>12, <1>13, <1>14,
     <1>15, <1>16, <1>17, <1>18, <1>19
  DEF KitchenNext

\* Each step of the search is a step of the tables, or none.
LEMMA DispatchTableStep ==
  ASSUME IInv, DispatchNext \/ Faults, order' \in OrderRows
  PROVE  [Kitchen!KitchenTableNext]_(Kitchen!kitchenTableVars)
<1>0. /\ scope \in Scopes /\ order \in OrderRows /\ Columns /\ CallsTyped
      /\ Standing /\ LineFacts
  BY DEF IInv
<1>1. CASE \/ \E c \in calls : Quiet(c) \/ OrphansExpire(c) \/ Ring(c) \/ RingFails(c) \/
                RingLive(c) \/ AcceptMark(c) \/ DeclineMark(c) \/ DeclineCount(c) \/ Crash(c)
           \/ \E s \in Sweepers : ExpiredStart(s) \/ OrphansStart(s)
           \/ \E s \in Sweepers, riders \in SUBSET Riders : TickStart(s, riders)
           \/ \E r \in Riders : AcceptStart(r) \/ DeclineStart(r) \/ CooldownEnds(r)
           \/ \E ceiling \in scope.ceilings : RaiseStart(ceiling)
           \/ Lapse
  BY <1>0, <1>1
    DEF Kitchen!kitchenTableVars, kitchenVars, Quiet, ExpiredStart, OrphansStart,
        OrphansExpire, TickStart, Ring, RingFails, RingLive, AcceptStart, AcceptMark,
        DeclineStart, DeclineMark, DeclineCount, RaiseStart, Lapse, CooldownEnds, Crash
<1>2. ASSUME NEW c \in calls, CloseRound(c)
      PROVE  [Kitchen!KitchenTableNext]_(Kitchen!kitchenTableVars)
  BY <1>0, <1>2, CloseMoves
  DEF Kitchen!KitchenTableNext, Kitchen!Rung, Kitchen!Findable, Kitchen!kitchenTableVars,
      Standing, Placed
<1>3. ASSUME NEW c \in calls, TickClaim(c)
      PROVE  [Kitchen!KitchenTableNext]_(Kitchen!kitchenTableVars)
  BY <1>0, <1>3, TickClaimWrites
  DEF Kitchen!KitchenTableNext, Kitchen!Rung, Kitchen!Findable, Kitchen!kitchenTableVars
<1>4. ASSUME NEW c \in calls, AcceptClaim(c)
      PROVE  [Kitchen!KitchenTableNext]_(Kitchen!kitchenTableVars)
  BY <1>0, <1>4, AcceptMoves
  DEF Kitchen!KitchenTableNext, Kitchen!Accepted, Kitchen!kitchenTableVars
<1> USE <1>0, FoodAssumption
    DEF Kitchen!KitchenTableNext, Kitchen!kitchenTableVars, OrderRows, Phases, Standing,
        Placed, Coded, CallFacts, CallFact, CallsTyped, CallTyped, Row, kitchenVars,
        EditableStatuses, Searching
<1>5. ASSUME NEW c \in calls, TickHold(c)
      PROVE  [Kitchen!KitchenTableNext]_(Kitchen!kitchenTableVars)
  BY <1>5, SMTT(20) DEF TickHold, Unclaimed
<1>6. ASSUME NEW c \in calls, TickPark(c)
      PROVE  [Kitchen!KitchenTableNext]_(Kitchen!kitchenTableVars)
  BY <1>6, SMTT(20) DEF TickPark, Unclaimed
<1>7. ASSUME NEW c \in calls, TickNobody(c)
      PROVE  [Kitchen!KitchenTableNext]_(Kitchen!kitchenTableVars)
  BY <1>7, SMTT(20) DEF TickNobody, TickMay, Unclaimed, Priced
<1>8. ASSUME NEW r \in Riders, Drop(r)
      PROVE  [Kitchen!KitchenTableNext]_(Kitchen!kitchenTableVars)
  BY <1>8, SMTT(20) DEF Kitchen!Dropped, Drop
<1>9. CASE ResumeSearch
  BY <1>9, SMTT(20) DEF ResumeSearch, Held, At
<1>10. CASE CancelFromHold
  BY <1>10, SMTT(20) DEF Kitchen!CalledOff, Kitchen!Waiting, CancelFromHold, Held, At,
         CancelledRow
<1>11. ASSUME NEW c \in calls, RaiseCommit(c)
      PROVE  [Kitchen!KitchenTableNext]_(Kitchen!kitchenTableVars)
  BY <1>11, SMTT(20) DEF RaiseCommit, RaiseMay
<1>12. QED
  BY <1>1, <1>2, <1>3, <1>4, <1>5, <1>6, <1>7, <1>8, <1>9, <1>10, <1>11
  DEF DispatchNext, CallStep, Faults

-----------------------------------------------------------------------------
\* The invariant holds at the start.
LEMMA InitHolds ==
  ASSUME Init
  PROVE  IInv
<1>1. order = Blank /\ calls = {} /\ sub = {} /\ crashes = 0 /\ scope \in Scopes
      /\ rounds = 0 /\ lapsed = 0
      /\ item = [l \in AllLines |-> "absent"]
      /\ row = [r \in Riders |-> [outcome |-> "none", round |-> 0]]
  BY DEF Init, KitchenInit, DispatchInit
<1>2. Blank \in OrderRows
  BY Names DEF Blank, OrderRows
<1>3. Columns
  BY <1>1 DEF Columns, Outcomes
<1>4. Standing
  BY <1>1 DEF Standing, Placed, Coded, Answered, PaidFor, HeldReady, CallFacts, Asked, Blank
<1>5. CallsTyped /\ LineFacts
  BY <1>1 DEF CallsTyped, LineFacts, Blank
<1>6. QED
  BY <1>1, <1>2, <1>3, <1>4, <1>5 DEF IInv

\* ... and every step keeps it.
LEMMA StepKeeps ==
  ASSUME IInv, [Next]_vars
  PROVE  IInv'
<1>1. scope' = scope /\ crashes' \in Nat
  <2>1. scope' = scope /\ crashes' \in {crashes, crashes + 1}
    BY DEF Next, Faults, RingFails, Crash, vars
  <2>2. QED
    BY <2>1 DEF IInv
<1>2. CASE UNCHANGED vars
  BY <1>2, StutterKeeps
<1>3. CASE KitchenNext /\ UNCHANGED <<scope, crashes, dispatchVars>>
  <2>1. order' \in OrderRows
    BY <1>3, KitchenRow
  <2>2. QED
    BY <1>1, <1>3, <2>1, KitchenColumns, KitchenCalls, KitchenStanding, KitchenLines
    DEF IInv
<1>4. CASE DispatchNext \/ Faults
  <2>1. order' \in OrderRows
    BY <1>4, DispatchRow
  <2>2. QED
    BY <1>1, <1>4, <2>1, DispatchColumns, DispatchCalls, DispatchStanding, DispatchLines
    DEF IInv
<1>5. QED
  BY <1>2, <1>3, <1>4 DEF Next

\* The inductive invariant holds throughout.
THEOREM Invariance == Spec => []IInv
<1>1. Init => IInv
  BY InitHolds
<1>2. IInv /\ [Next]_vars => IInv'
  BY StepKeeps
<1>3. QED
  BY <1>1, <1>2, PTL DEF Spec

\* Every column of the order, the lines and the riders' rows keeps its type,
\* and an order has a rider exactly while one holds it (TypeOK).
THEOREM TypeCorrect == Spec => []TypeOK
<1>1. IInv => TypeOK
  BY DEF IInv, TypeOK, Columns, CallsTyped, CallTyped, Standing, Placed
<1>2. QED
  BY <1>1, Invariance, PTL

\* Food a rider may come for has its code at the counter: the accept's stale
\* view of the kitchen and the kitchen's stale view of the rider never lose it.
THEOREM ReadyHasCode == Spec => []CollectableHasCode
<1>1. IInv => CollectableHasCode
  BY DEF IInv, CollectableHasCode, Standing, Placed, Coded, At
<1>2. QED
  BY <1>1, Invariance, PTL

\* Nobody is sent to a kitchen that never answered.
THEOREM KitchenAnswered == Spec => []UnconfirmedNeverRung
<1>1. IInv => UnconfirmedNeverRung
  BY DEF IInv, UnconfirmedNeverRung, Standing, Answered, Asked
<1>2. QED
  BY <1>1, Invariance, PTL

\* A wallet order is cooked and fetched only once its payment was seen.
THEOREM PaidFirst == Spec => []PaidBeforeCooking
<1>1. IInv => PaidBeforeCooking
  BY DEF IInv, PaidBeforeCooking, Standing, PaidFor, Asked
<1>2. QED
  BY <1>1, Invariance, PTL

\* Every step that changes the lines or the total leaves the total that of the
\* lines, edits, swaps and answers that overlap included; only acceptOrder's late
\* statement may part the two, and only after a change that came in between.
THEOREM GoodsCounted == Spec => GoodsFollowLines
<1>1. ASSUME IInv, [Next]_vars
      PROVE  [FollowsLines]_vars
  <2>1. CASE UNCHANGED vars
    BY <2>1
  <2>2. CASE KitchenNext /\ UNCHANGED <<scope, crashes, dispatchVars>>
    BY <1>1, <2>2, KitchenRow, KitchenCount
  <2>3. CASE DispatchNext \/ Faults
    BY <1>1, <2>3, DispatchRow, DispatchCount
  <2>4. QED
    BY <1>1, <2>1, <2>2, <2>3 DEF Next
<1>2. QED
  BY <1>1, Invariance, PTL DEF Spec, GoodsFollowLines

\* The no-rider hold is about food that is ready and nobody's.
THEOREM HoldIsReady == Spec => []HeldFoodIsReady
<1>1. IInv => HeldFoodIsReady
  BY DEF IInv, HeldFoodIsReady, Standing, HeldReady, Placed
<1>2. QED
  BY <1>1, Invariance, PTL

\* A rider who has the job keeps it until he drops it, whatever accepts,
\* closes and sweeps are under way.
THEOREM RiderStays == Spec => NeverReassigned
<1>1. ASSUME IInv, [Next]_vars
      PROVE  [RiderKept]_vars
  <2>1. CASE UNCHANGED vars
    BY <2>1
  <2>2. CASE KitchenNext /\ UNCHANGED <<scope, crashes, dispatchVars>>
    BY <1>1, <2>2, KitchenRow, KitchenRider
  <2>3. CASE DispatchNext \/ Faults
    BY <1>1, <2>3, DispatchRow, DispatchRider
  <2>4. QED
    BY <1>1, <2>1, <2>2, <2>3 DEF Next
<1>2. QED
  BY <1>1, Invariance, PTL DEF Spec, NeverReassigned, RiderKept

\* The services move a food order as the declared tables say.
THEOREM TablesImplemented == Spec => ImplementsKitchenTable
<1>1. Init => Kitchen!KitchenTableInit
  BY DEF Init, KitchenInit, Blank, Kitchen!KitchenTableInit
<1>2. ASSUME IInv, [Next]_vars
      PROVE  [Kitchen!KitchenTableNext]_(Kitchen!kitchenTableVars)
  <2>1. CASE UNCHANGED vars
    BY <2>1 DEF vars, Kitchen!kitchenTableVars
  <2>2. CASE KitchenNext /\ UNCHANGED <<scope, crashes, dispatchVars>>
    BY <1>2, <2>2, KitchenRow, KitchenTableStep
  <2>3. CASE DispatchNext \/ Faults
    BY <1>2, <2>3, DispatchRow, DispatchTableStep
  <2>4. QED
    BY <1>2, <2>1, <2>2, <2>3 DEF Next
<1>3. QED
  BY <1>1, <1>2, Invariance, PTL DEF Spec, ImplementsKitchenTable, Kitchen!KitchenTableSpec
=============================================================================
