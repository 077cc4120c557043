---------------------------- MODULE WalletProofs ----------------------------
(***************************************************************************)
(* What the wallet guarantees for any number of riders, top-ups, callers,  *)
(* forms and jobs, any fee and any amounts: its type invariant, the chain  *)
(* of receipts, one credit per confirmed top-up and none without a         *)
(* payment, and the abstract ledger it implements.                         *)
(***************************************************************************)
EXTENDS Wallet, SumFacts

\* netOfTopupFee has an answer for every payment: the quotient its loops start
\* from already is the last credit that fits.
LEMMA NetOfFeeFits ==
  ASSUME NEW paid \in Nat
  PROVE  /\ NetOfFee(paid) \in Nat
         /\ Fits(NetOfFee(paid), paid) /\ ~Fits(NetOfFee(paid) + 1, paid)
<1> DEFINE q == (paid * 1000) \div (1000 + FeePerMille)
<1>1. FeePerMille \in Nat
  BY WalletAssumption
<1>2. q \in Nat
  BY <1>1
<1>3. /\ q * (1000 + FeePerMille) <= paid * 1000
      /\ paid * 1000 < (q + 1) * (1000 + FeePerMille)
  BY <1>1, Z3T(30)
<1> HIDE DEF q
<1>4. Fits(q, paid)
  <2>1. q * FeePerMille \in Nat /\ q * 1000 + q * FeePerMille <= paid * 1000
    BY <1>1, <1>2, <1>3
  <2>2. ((q * FeePerMille) + 999) \div 1000 \in Int
        /\ 1000 * (((q * FeePerMille) + 999) \div 1000) <= (q * FeePerMille) + 999
    BY <2>1
  <2>3. QED
    BY <2>1, <2>2, <1>2 DEF Fits, Fee
<1>5. ~Fits(q + 1, paid)
  <2>1. /\ (q + 1) * FeePerMille \in Nat
        /\ paid * 1000 < (q + 1) * 1000 + (q + 1) * FeePerMille
    BY <1>1, <1>2, <1>3
  <2>2. (((q + 1) * FeePerMille) + 999) \div 1000 \in Int
        /\ (q + 1) * FeePerMille <= 1000 * ((((q + 1) * FeePerMille) + 999) \div 1000)
    BY <2>1
  <2>3. QED
    BY <2>1, <2>2, <1>2 DEF Fits, Fee
<1>6. q \in 0..paid
  <2>1. Fee(q) \in Nat
    <3>1. q * FeePerMille \in Nat
      BY <1>1, <1>2
    <3>2. QED
      BY <3>1 DEF Fee
  <2>2. QED
    BY <1>2, <1>4, <2>1 DEF Fits
<1>7. NetOfFee(paid) \in 0..paid /\ Fits(NetOfFee(paid), paid) /\ ~Fits(NetOfFee(paid) + 1, paid)
  BY <1>4, <1>5, <1>6 DEF NetOfFee
<1>8. QED
  BY <1>7

\* What the rail reports paid is an amount of cents.
LEMMA PaidType ==
  ASSUME TypeOK, NEW t \in TopUps
  PROVE  charge[t].paid \in Nat
<1>1. charge[t] \in Charges
  BY DEF TypeOK
<1>2. charge[t].paid \in Payments \cup {0}
  BY <1>1 DEF Charges
<1>3. Payments \cup {0} \subseteq Nat
  BY WalletAssumption
<1>4. QED
  BY <1>2, <1>3, Zenon

\* A credit is never more than the payment.
LEMMA NetOfFeeBound ==
  ASSUME NEW paid \in Nat
  PROVE  NetOfFee(paid) <= paid
<1>1. NetOfFee(paid) * FeePerMille \in Nat /\ NetOfFee(paid) \in Nat
  BY NetOfFeeFits, WalletAssumption
<1>2. Fee(NetOfFee(paid)) \in Nat
  BY <1>1 DEF Fee
<1>3. QED
  BY <1>1, <1>2, NetOfFeeFits DEF Fits

\* What ops credit of a reported payment is an amount of cents.
LEMMA WorthType ==
  ASSUME TypeOK, NEW t \in TopUps
  PROVE  Worth(t) \in Nat
BY PaidType, NetOfFeeFits, WalletAssumption DEF Worth

\* And no more than was paid.
LEMMA WorthBound ==
  ASSUME TypeOK, NEW t \in TopUps
  PROVE  Worth(t) <= charge[t].paid
BY PaidType, NetOfFeeBound, NetOfFeeFits, WalletAssumption DEF Worth

\* A movement appends one entry to one ledger and leaves the others alone.
LEMMA PostType ==
  ASSUME TypeOK, NEW r \in Riders, NEW kind \in Kinds, NEW ref \in TopUps \cup Keys \cup Jobs,
         NEW of \in Nat, NEW amount \in Int, Post(r, kind, ref, of, amount)
  PROVE  /\ ledger' \in [Riders -> Seq(LedgerEntries)]
         /\ balance' \in [Riders -> Int]
         /\ ledger'[r] = Append(ledger[r], Entry(r, kind, ref, of, amount))
         /\ Entry(r, kind, ref, of, amount) \in LedgerEntries
         /\ \A s \in Riders \ {r} : ledger'[s] = ledger[s] /\ balance'[s] = balance[s]
         /\ balance'[r] = balance[r] + amount
<1>1. ledger[r] \in Seq(LedgerEntries) /\ balance[r] \in Int
  BY DEF TypeOK
<1>2. Entry(r, kind, ref, of, amount) \in LedgerEntries
  BY <1>1 DEF Entry, LedgerEntries
<1>3. Append(ledger[r], Entry(r, kind, ref, of, amount)) \in Seq(LedgerEntries)
  BY <1>1, <1>2
<1>4. QED
  BY <1>1, <1>2, <1>3 DEF TypeOK, Post

\* The states a charge may be in, and the amounts of one.
LEMMA ChargeTypes == NoCharge \in Charges
BY DEF NoCharge, Charges, ChargeStates

\* An empty database is of the right shape.
LEMMA InitTypeOK == Init => TypeOK
<1> SUFFICES ASSUME Init PROVE TypeOK
  OBVIOUS
<1>1. Idle \in Calls
  BY ChargeTypes DEF Idle, Calls, Stages
<1>2. \A c \in Callers : call[c].stage = "idle"
  BY DEF Init, Idle
<1>3. <<>> \in Seq(LedgerEntries)
  OBVIOUS
<1>4. QED
  BY <1>1, <1>2, <1>3, ChargeTypes DEF Init, TypeOK, Statuses, Unsettled

\* Ending a call leaves the calls well typed.
LEMMA DoneType ==
  ASSUME TypeOK, NEW c \in Callers, call[c].stage # "idle", Done(c)
  PROVE  /\ call' \in [Callers -> Calls]
         /\ heard' \subseteq TopUps
         /\ \A d \in Callers : call'[d].stage # "idle" => call'[d] = call[d]
<1>1. Idle \in Calls /\ Idle.stage = "idle"
  BY ChargeTypes DEF Idle, Calls, Stages
<1>2. call[c].top \in TopUps
  BY DEF TypeOK
<1>3. QED
  BY <1>1, <1>2 DEF TypeOK, Done

\* The rows of the calls and of the owners, whatever moves a status on.
LEMMA StatusType ==
  ASSUME TypeOK, NEW t \in TopUps, NEW st \in Statuses \ {"none"}, status[t] # "none",
         status' = [status EXCEPT ![t] = st]
  PROVE  /\ status' \in [TopUps -> Statuses]
         /\ \A u \in TopUps : status'[u] # "none" => status[u] # "none"
         /\ \A u \in TopUps : status[u] # "none" => status'[u] # "none"
BY DEF TypeOK


\* Every step of an app, a call, the rail, the console or a job keeps the state
\* well typed.
LEMMA NextTypeOK == TypeOK /\ [Next]_vars => TypeOK'
<1> SUFFICES ASSUME TypeOK, [Next]_vars PROVE TypeOK'
  OBVIOUS
<1>1. ASSUME NEW t \in TopUps, NEW r \in Riders, CreateTopup(t, r) PROVE TypeOK'
  <2>1. status' \in [TopUps -> Statuses] /\ owner' \in [TopUps -> Riders \cup {NoRider}]
    BY <1>1 DEF CreateTopup, TypeOK, Statuses, Unsettled
  <2>2. \A u \in TopUps : status'[u] # "none" => owner'[u] \in Riders
    BY <1>1 DEF CreateTopup, TypeOK
  <2>3. \A u \in TopUps : status[u] # "none" => status'[u] # "none"
    BY <1>1 DEF CreateTopup, TypeOK
  <2>4. QED
    BY <1>1, <2>1, <2>2, <2>3 DEF CreateTopup, TypeOK, clock, rail, money
<1>2. ASSUME NEW t \in TopUps, InitiateRefused(t) \/ InitiateLost(t) PROVE TypeOK'
  BY <1>2 DEF InitiateRefused, InitiateLost, Decline, TypeOK, Statuses, Unsettled,
              topUpRows, clock, money
<1>3. ASSUME NEW t \in TopUps,
             RailOpens(t) \/ RailRefuses(t) \/ (\E p \in Payments : RailPaid(t, p)) \/ RailFailed(t)
      PROVE  TypeOK'
  <2>1. PICK state \in ChargeStates, paid \in Payments \cup {0} : SetCharge(t, state, paid)
    BY <1>3 DEF RailOpens, RailRefuses, RailPaid, RailFailed, ChargeStates
  <2>2. [state |-> state, paid |-> paid, late |-> charge[t].state = "failed"] \in Charges
    BY DEF Charges
  <2>3. charge' \in [TopUps -> Charges]
    BY <2>1, <2>2 DEF SetCharge, TypeOK
  <2>4. refused' \subseteq TopUps
    BY <1>3 DEF RailOpens, RailRefuses, RailPaid, RailFailed, TypeOK
  <2>5. QED
    BY <2>1, <2>3, <2>4 DEF SetCharge, TypeOK, topUpRows, clock, money
<1>4. ASSUME NEW t \in TopUps, Lapse(t) \/ AgeOut(t) PROVE TypeOK'
  BY <1>4 DEF Lapse, AgeOut, TypeOK, topUpRows, rail, money
<1>5. ASSUME NEW t \in TopUps, GetTopup(t) PROVE TypeOK'
  BY <1>5 DEF GetTopup, Expire, TypeOK, Statuses, Unsettled, clock, rail, money
<1>6. ASSUME NEW c \in Callers, NEW t \in TopUps, Reconcile(c, t) PROVE TypeOK'
  <2>1. [Idle EXCEPT !.stage = "asked", !.top = t, !.seen = status[t]] \in Calls
    BY <1>6, ChargeTypes DEF Reconcile, Idle, Calls, Stages, Unsettled
  <2>2. call' \in [Callers -> Calls]
    BY <1>6, <2>1 DEF Reconcile, TypeOK
  <2>3. status[t] # "none" /\ [Idle EXCEPT !.stage = "asked", !.top = t, !.seen = status[t]].top = t
    BY <1>6 DEF Reconcile, Idle, Unsettled
  <2>4. QED
    BY <1>6, <2>2, <2>3 DEF Reconcile, TypeOK, topUpRows, clock, rail, money
<1>7. ASSUME NEW t \in TopUps, AlreadySettled(t) PROVE TypeOK'
  BY <1>7 DEF AlreadySettled, TypeOK, topUpRows, clock, rail, money
<1>8. ASSUME NEW c \in Callers, Answer(c) PROVE TypeOK'
  <2>1. call[c] \in Calls /\ call[c].top \in TopUps
    BY <1>8 DEF Answer, TypeOK
  <2>2. [call[c] EXCEPT !.stage = "answered", !.answer = charge[call[c].top]] \in Calls
    BY <2>1 DEF Calls, Stages, TypeOK
  <2>3. call' = [call EXCEPT ![c] = [call[c] EXCEPT !.stage = "answered", !.answer = charge[call[c].top]]]
    BY <1>8, <2>1 DEF Answer, Calls, TypeOK
  <2>4. call' \in [Callers -> Calls] /\ \A d \in Callers : call'[d].top = call[d].top
    BY <2>1, <2>2, <2>3 DEF TypeOK, Calls
  <2>5. QED
    BY <1>8, <2>4, <2>3 DEF Answer, TypeOK, topUpRows, clock, rail, money
<1>9. ASSUME NEW c \in Callers, AskFails(c) PROVE TypeOK'
  <2>1. Idle \in Calls /\ Idle.stage = "idle"
    BY ChargeTypes DEF Idle, Calls, Stages
  <2>2. QED
    BY <1>9, <2>1 DEF AskFails, TypeOK, topUpRows, clock, rail, money
<1>10. ASSUME NEW t \in TopUps, FailedUpdate(t) PROVE TypeOK'
  <2> DEFINE update == [Idle EXCEPT !.stage = "answered", !.top = t, !.answer = charge[t]]
  <2>1. update \in Calls /\ update.top = t
    BY ChargeTypes DEF Idle, Calls, Stages, TypeOK
  <2>2. call' = [call EXCEPT !["webhook"] = update] /\ status[t] # "none"
    BY <1>10 DEF FailedUpdate
  <2> HIDE DEF update
  <2>3. QED
    BY <1>10, <2>1, <2>2 DEF FailedUpdate, TypeOK, topUpRows, clock, rail, money
<1>11. ASSUME NEW c \in Callers, SettlePending(c) \/ SettleFailed(c) PROVE TypeOK'
  <2>1. call[c].stage # "idle" /\ Done(c)
    BY <1>11 DEF SettlePending, SettleFailed, Answered
  <2>2. call[c].top \in TopUps /\ status[call[c].top] # "none"
    BY <2>1 DEF TypeOK
  <2>3. /\ status' \in [TopUps -> Statuses]
        /\ \A u \in TopUps : status'[u] # "none" <=> status[u] # "none"
    BY <1>11, <2>2 DEF SettlePending, SettleFailed, Expire, Decline, TypeOK, Statuses, Unsettled
  <2>4. QED
    BY <1>11, <2>1, <2>3, DoneType DEF SettlePending, SettleFailed, TypeOK, clock, rail, money
<1>12. ASSUME NEW c \in Callers, SettleShort(c) \/ SettleDeclined(c) PROVE TypeOK'
  <2>1. call[c].stage # "idle" /\ Done(c)
    BY <1>12 DEF SettleShort, SettleDeclined, Answered
  <2>2. call[c].top \in TopUps
    BY <2>1 DEF TypeOK
  <2>3. anomalies' \subseteq TopUps \X {"short_paid", "paid_on_declined"}
    BY <1>12, <2>2 DEF SettleShort, SettleDeclined, TypeOK
  <2>4. QED
    BY <1>12, <2>1, <2>3, DoneType
       DEF SettleShort, SettleDeclined, TypeOK, topUpRows, clock, rail, money
<1>13. ASSUME NEW c \in Callers, SettlePaid(c) PROVE TypeOK'
  <2>1. call[c] \in Calls /\ call[c].top \in TopUps
    BY <1>13 DEF SettlePaid, Answered, TypeOK
  <2>2. call' \in [Callers -> Calls] /\ \A d \in Callers : call'[d].top = call[d].top
    BY <1>13, <2>1 DEF SettlePaid, TypeOK, Calls, Stages
  <2>3. status[call[c].top] # "none"
    BY <1>13 DEF SettlePaid, Answered, TypeOK
  <2>4. \A d \in Callers : d # c => call'[d] = call[d]
    BY <1>13 DEF SettlePaid, TypeOK
  <2>5. QED
    BY <1>13, <2>1, <2>2, <2>3, <2>4 DEF SettlePaid, TypeOK, topUpRows, clock, rail, money
<1>14. ASSUME NEW c \in Callers, CreditFromTopup(c) PROVE TypeOK'
  <2> DEFINE t == call[c].top
  <2>1. /\ call[c].stage # "idle" /\ Done(c) /\ status[t] \in Unsettled
        /\ status' = [status EXCEPT ![t] = "confirmed"]
        /\ Post(owner[t], "topup", t, 0, Asked)
    BY <1>14 DEF CreditFromTopup, Claims
  <2>2. t \in TopUps /\ owner[t] \in Riders
    BY <2>1 DEF TypeOK, Unsettled
  <2>3. /\ ledger' \in [Riders -> Seq(LedgerEntries)]
        /\ balance' \in [Riders -> Int]
    BY <2>1, <2>2, PostType, WalletAssumption DEF Kinds
  <2>4. /\ status' \in [TopUps -> Statuses]
        /\ \A u \in TopUps : status'[u] # "none" <=> status[u] # "none"
    BY <2>1, <2>2 DEF TypeOK, Statuses, Unsettled
  <2>5. QED
    BY <1>14, <2>1, <2>3, <2>4, DoneType DEF CreditFromTopup, TypeOK, clock, rail
<1>15. ASSUME NEW c \in Callers, CreditRefused(c) PROVE TypeOK'
  <2>1. call[c].stage # "idle" /\ Done(c)
    BY <1>15 DEF CreditRefused
  <2>2. QED
    BY <1>15, <2>1, DoneType DEF CreditRefused, TypeOK, topUpRows, clock, rail, money
<1>16. ASSUME NEW t \in TopUps, CreditTopupShortfall(t) PROVE TypeOK'
  <2>1. /\ status[t] # "none" /\ owner[t] \in Riders
        /\ status' = [status EXCEPT ![t] = "confirmed"]
        /\ Post(owner[t], "topup", t, 0, Worth(t))
    BY <1>16 DEF CreditTopupShortfall, MayCreditShortfall, TypeOK
  <2>2. /\ ledger' \in [Riders -> Seq(LedgerEntries)]
        /\ balance' \in [Riders -> Int]
    BY <2>1, PostType, WorthType DEF Kinds
  <2>3. /\ status' \in [TopUps -> Statuses]
        /\ \A u \in TopUps : status'[u] # "none" <=> status[u] # "none"
    BY <2>1 DEF TypeOK, Statuses, Unsettled
  <2>4. UNCHANGED <<owner, lapsed, aged, charge, refused, call, anomalies, heard, trips, today>>
    BY <1>16 DEF CreditTopupShortfall, clock, rail
  <2>5. QED
    BY <2>2, <2>3, <2>4 DEF TypeOK
<1>17. ASSUME NEW r \in Riders, NEW k \in Keys, CreditManual(r, k) PROVE TypeOK'
  <2>0. Post(r, "manual", k, 0, ManualCredit)
    BY <1>17 DEF CreditManual
  <2>1. /\ ledger' \in [Riders -> Seq(LedgerEntries)]
        /\ balance' \in [Riders -> Int]
    <3>1. "manual" \in Kinds /\ ManualCredit \in Int
      BY WalletAssumption DEF Kinds
    <3>2. QED
      BY <2>0, <3>1, PostType
  <2>2. QED
    BY <1>17, <2>1 DEF CreditManual, TypeOK, topUpRows, clock, rail
<1>18. ASSUME NEW d \in today, DayPasses(d) PROVE TypeOK'
  BY <1>18 DEF DayPasses, TypeOK, topUpRows, clock, rail
<1>19. ASSUME NEW r \in Riders, NEW k \in Keys, NEW amount \in Reversals,
              NEW i \in {0} \cup DOMAIN ledger[r], ReverseEntry(r, i, amount, k)
       PROVE  TypeOK'
  <2>1. i \in Nat /\ -amount \in Int
    BY WalletAssumption DEF TypeOK
  <2>2. /\ ledger' \in [Riders -> Seq(LedgerEntries)]
        /\ balance' \in [Riders -> Int]
    BY <1>19, <2>1, PostType DEF ReverseEntry, Kinds
  <2>3. QED
    BY <1>19, <2>2 DEF ReverseEntry, TypeOK, topUpRows, clock, rail
<1>20. ASSUME NEW r \in Riders, NEW j \in Jobs, CompleteJob(r, j) PROVE TypeOK'
  <2>1. /\ ledger' \in [Riders -> Seq(LedgerEntries)]
        /\ balance' \in [Riders -> Int]
    BY <1>20, PostType, WalletAssumption DEF CompleteJob, Kinds
  <2>2. /\ trips' = [trips EXCEPT ![r] = @ + 1]
        /\ UNCHANGED <<topUpRows, clock, rail, call, anomalies, heard, today>>
    BY <1>20 DEF CompleteJob
  <2>3. QED
    BY <2>1, <2>2 DEF TypeOK, topUpRows, clock, rail
<1>21. CASE UNCHANGED vars
  BY <1>21 DEF TypeOK, vars, topUpRows, clock, rail, money
<1>22. QED
  BY <1>1, <1>2, <1>3, <1>4, <1>5, <1>6, <1>7, <1>8, <1>9, <1>10, <1>11, <1>12, <1>13, <1>14,
     <1>15, <1>16, <1>17, <1>18, <1>19, <1>20, <1>21 DEF Next

\* TypeOK for every instance.
THEOREM TypeCorrect == Spec => []TypeOK
<1>1. QED
  BY InitTypeOK, NextTypeOK, PTL DEF Spec

-----------------------------------------------------------------------------
(***************************************************************************)
(* Every step is one of three: quiet, where no balance moves and no        *)
(* top-up settles into or out of a credit; the credit of one top-up; any   *)
(* other posting.                                                          *)
(***************************************************************************)
Quiet ==
  /\ UNCHANGED <<ledger, balance>>
  /\ \A t \in TopUps :
       /\ status[t] \in {"confirmed", "declined"} => status'[t] = status[t]
       /\ status'[t] = "confirmed" => status[t] = "confirmed"
       /\ status[t] # "none" => owner'[t] = owner[t]

Credited(t, amount) ==
  /\ status[t] \notin {"none", "confirmed"}
  /\ status' = [status EXCEPT ![t] = "confirmed"]
  /\ Post(owner[t], "topup", t, 0, amount)
  /\ UNCHANGED <<owner, charge, anomalies>>
  /\ \/ /\ amount = Asked /\ status[t] \in Unsettled
        /\ \E c \in Callers : call[c].stage = "crediting" /\ call[c].top = t
     \/ amount = Worth(t) /\ \E a \in anomalies : a[1] = t

OtherPost(r, kind, ref, of, amount) ==
  /\ Post(r, kind, ref, of, amount) /\ ~HasEntry(kind, ref)
  /\ kind = "reversal" => of \in {0} \cup DOMAIN ledger[r] /\ MayReverse(r, of, -amount)
  /\ UNCHANGED <<topUpRows, charge, anomalies>>

OtherKinds == Kinds \ {"topup"}

\* Every step is of one of the three kinds.
LEMMA Moves ==
  ASSUME TypeOK, [Next]_vars
  PROVE  \/ Quiet
         \/ \E t \in TopUps, amount \in Nat : Credited(t, amount)
         \/ \E r \in Riders, kind \in OtherKinds, ref \in Keys \cup Jobs, of \in Nat, amount \in Int :
              OtherPost(r, kind, ref, of, amount)
<1>1. ASSUME NEW t \in TopUps, NEW r \in Riders, CreateTopup(t, r) PROVE Quiet
  BY <1>1 DEF CreateTopup, Quiet, TypeOK, money
<1>2. ASSUME NEW t \in TopUps,
             InitiateRefused(t) \/ InitiateLost(t) \/ GetTopup(t) \/ Lapse(t) \/ AgeOut(t) \/ AlreadySettled(t)
               \/ FailedUpdate(t)
      PROVE  Quiet
  BY <1>2 DEF InitiateRefused, InitiateLost, GetTopup, Lapse, AgeOut, AlreadySettled, FailedUpdate,
              Decline, Expire, Unsettled, Quiet, TypeOK, topUpRows, money
<1>3. ASSUME NEW t \in TopUps,
             RailOpens(t) \/ RailRefuses(t) \/ (\E p \in Payments : RailPaid(t, p)) \/ RailFailed(t)
      PROVE  Quiet
  BY <1>3 DEF RailOpens, RailRefuses, RailPaid, RailFailed, SetCharge, Quiet, topUpRows, money
<1>4. ASSUME NEW c \in Callers,
             (\E t \in TopUps : Reconcile(c, t)) \/ Answer(c) \/ AskFails(c) \/ SettleShort(c)
               \/ SettleDeclined(c) \/ SettlePaid(c) \/ CreditRefused(c)
      PROVE  Quiet
  BY <1>4 DEF Reconcile, Answer, AskFails, SettleShort, SettleDeclined, SettlePaid, CreditRefused,
              Quiet, topUpRows, money
<1>5. ASSUME NEW c \in Callers, SettlePending(c) \/ SettleFailed(c) PROVE Quiet
  <2>1. call[c].top \in TopUps
    BY <1>5 DEF SettlePending, SettleFailed, Answered, TypeOK
  <2>2. \/ UNCHANGED status
        \/ Expire(call[c].top)
        \/ Decline(call[c].top)
    BY <1>5 DEF SettlePending, SettleFailed
  <2>3. UNCHANGED <<owner, ledger, balance>>
    BY <1>5 DEF SettlePending, SettleFailed, money
  <2>4. QED
    BY <2>1, <2>2, <2>3 DEF Expire, Decline, Unsettled, Quiet, TypeOK
<1>6. ASSUME NEW c \in Callers, CreditFromTopup(c)
      PROVE  \E t \in TopUps, amount \in Nat : Credited(t, amount)
  <2>1. call[c].top \in TopUps
    BY <1>6 DEF CreditFromTopup, TypeOK
  <2>2. Credited(call[c].top, Asked)
    BY <1>6 DEF CreditFromTopup, Claims, Credited, Unsettled, rail
  <2>3. Asked \in Nat
    BY WalletAssumption
  <2>4. QED
    BY <2>1, <2>2, <2>3
<1>7. ASSUME NEW t \in TopUps, CreditTopupShortfall(t)
      PROVE  \E u \in TopUps, amount \in Nat : Credited(u, amount)
  <2>1. Credited(t, Worth(t))
    BY <1>7 DEF CreditTopupShortfall, MayCreditShortfall, Credited, rail
  <2>2. QED
    BY <2>1, WorthType
<1>8. ASSUME NEW r \in Riders, NEW k \in Keys, CreditManual(r, k)
      PROVE  OtherPost(r, "manual", k, 0, ManualCredit)
  BY <1>8 DEF CreditManual, OtherPost, rail
<1>9. ASSUME NEW d \in today, DayPasses(d) PROVE Quiet
  BY <1>9 DEF DayPasses, Quiet, topUpRows
<1>10. ASSUME NEW r \in Riders, NEW k \in Keys, NEW amount \in Reversals,
              NEW i \in {0} \cup DOMAIN ledger[r], ReverseEntry(r, i, amount, k)
       PROVE  OtherPost(r, "reversal", k, i, -amount) /\ i \in Nat /\ -amount \in Int
  <2>1. amount \in Int /\ -amount \in Int /\ -(-amount) = amount
    BY WalletAssumption
  <2>2. OtherPost(r, "reversal", k, i, -amount)
    BY <1>10, <2>1 DEF ReverseEntry, OtherPost, rail
  <2>3. i \in Nat
    BY DEF TypeOK
  <2>4. QED
    BY <2>1, <2>2, <2>3
<1>11. ASSUME NEW r \in Riders, NEW j \in Jobs, CompleteJob(r, j)
       PROVE  OtherPost(r, "free_job", j, 0, 0) \/ OtherPost(r, "ride_commission", j, 0, -JobFee)
  BY <1>11 DEF CompleteJob, OtherPost, rail
<1>12. CASE UNCHANGED vars
  BY <1>12 DEF vars, Quiet, topUpRows, money
<1>13. /\ {"manual", "reversal", "free_job", "ride_commission"} \subseteq OtherKinds
       /\ ManualCredit \in Int /\ -JobFee \in Int
  BY WalletAssumption DEF OtherKinds, Kinds
<1>14. QED
  BY <1>1, <1>2, <1>3, <1>4, <1>5, <1>6, <1>7, <1>8, <1>9, <1>10, <1>11, <1>12, <1>13 DEF Next

\* A movement keeps the receipts of its account in a chain.
LEMMA PostChains ==
  ASSUME TypeOK, LedgerChains, NEW r \in Riders, NEW kind \in Kinds,
         NEW ref \in TopUps \cup Keys \cup Jobs, NEW of \in Nat, NEW amount \in Int,
         Post(r, kind, ref, of, amount)
  PROVE  LedgerChains'
<1> DEFINE e == Entry(r, kind, ref, of, amount)
           n == Len(ledger[r])
<1>1. /\ ledger'[r] = Append(ledger[r], e) /\ balance'[r] = balance[r] + amount
      /\ e \in LedgerEntries
      /\ \A s \in Riders \ {r} : ledger'[s] = ledger[s] /\ balance'[s] = balance[s]
  BY PostType
<1>2. ledger[r] \in Seq(LedgerEntries) /\ n \in Nat /\ balance[r] \in Int
  BY DEF TypeOK
<1>3. e.amount = amount /\ e.after = balance[r] + amount
  BY DEF Entry
<1> HIDE DEF e
<1>4. /\ Len(ledger'[r]) = n + 1 /\ ledger'[r][n + 1] = e
      /\ \A i \in 1..n : ledger'[r][i] = ledger[r][i]
  BY <1>1, <1>2
<1>5. balance[r] = IF n = 0 THEN 0 ELSE ledger[r][n].after
  BY DEF LedgerChains
<1>6. ASSUME NEW i \in 1..(n + 1)
      PROVE  ledger'[r][i].after =
               ledger'[r][i].amount + (IF i = 1 THEN 0 ELSE ledger'[r][i - 1].after)
  <2>1. CASE i \in 1..n
    <3>1. i - 1 \in 0..n
      BY <2>1, <1>2
    <3>2. ledger[r][i].after = ledger[r][i].amount + (IF i = 1 THEN 0 ELSE ledger[r][i - 1].after)
      BY <2>1 DEF LedgerChains
    <3>3. i # 1 => i - 1 \in 1..n
      BY <2>1, <1>2
    <3>4. QED
      BY <2>1, <1>4, <3>2, <3>3
  <2>2. CASE i = n + 1
    <3>1. n # 0 => n \in 1..n /\ ledger'[r][n] = ledger[r][n]
      BY <1>2, <1>4
    <3>2. i - 1 = n /\ (i = 1 <=> n = 0)
      BY <2>2, <1>2
    <3>3. balance[r] + amount = amount + balance[r]
      BY <1>2
    <3>4. QED
      BY <2>2, <1>3, <1>4, <1>5, <3>1, <3>2, <3>3
  <2>3. QED
    BY <2>1, <2>2, <1>2
<1>7. balance'[r] = IF n + 1 = 0 THEN 0 ELSE ledger'[r][n + 1].after
  BY <1>1, <1>2, <1>3, <1>4
<1>8. ASSUME NEW s \in Riders
      PROVE  /\ balance'[s] = IF Len(ledger'[s]) = 0 THEN 0 ELSE ledger'[s][Len(ledger'[s])].after
             /\ \A i \in 1..Len(ledger'[s]) :
                  ledger'[s][i].after =
                    ledger'[s][i].amount + (IF i = 1 THEN 0 ELSE ledger'[s][i - 1].after)
  <2>1. CASE s = r
    BY <2>1, <1>4, <1>6, <1>7
  <2>2. CASE s # r
    BY <2>2, <1>1 DEF LedgerChains
  <2>3. QED
    BY <2>1, <2>2
<1>9. QED
  BY <1>8 DEF LedgerChains

\* LedgerChains is inductive.
LEMMA NextLedgerChains == TypeOK /\ LedgerChains /\ [Next]_vars => LedgerChains'
<1> SUFFICES ASSUME TypeOK, LedgerChains, [Next]_vars PROVE LedgerChains'
  OBVIOUS
<1>1. CASE Quiet
  BY <1>1 DEF Quiet, LedgerChains
<1>2. ASSUME NEW t \in TopUps, NEW amount \in Nat, Credited(t, amount) PROVE LedgerChains'
  <2>1. owner[t] \in Riders /\ Post(owner[t], "topup", t, 0, amount) /\ amount \in Int
    BY <1>2 DEF Credited, TypeOK
  <2>2. QED
    BY <2>1, PostChains DEF Kinds
<1>3. ASSUME NEW r \in Riders, NEW kind \in OtherKinds, NEW ref \in Keys \cup Jobs, NEW of \in Nat,
             NEW amount \in Int, OtherPost(r, kind, ref, of, amount)
      PROVE  LedgerChains'
  BY <1>3, PostChains DEF OtherPost, OtherKinds
<1>4. QED
  BY <1>1, <1>2, <1>3, Moves

\* LedgerChains for every instance: the cached balance never drifts from the
\* ledger, whatever postings interleave.
THEOREM LedgerChained == Spec => []LedgerChains
<1>1. Init => LedgerChains
  BY DEF Init, LedgerChains
<1>2. QED
  BY <1>1, NextLedgerChains, TypeCorrect, PTL DEF Spec

-----------------------------------------------------------------------------
(***************************************************************************)
(* One credit per confirmed top-up.                                        *)
(***************************************************************************)
\* Which entries are a top-up's credit after a movement: those before it, and
\* the new one if it is one.
LEMMA PostCredits ==
  ASSUME TypeOK, NEW r \in Riders, NEW kind \in Kinds, NEW ref \in TopUps \cup Keys \cup Jobs,
         NEW of \in Nat, NEW amount \in Int, Post(r, kind, ref, of, amount)
  PROVE  LET e == Entry(r, kind, ref, of, amount)
             n == Len(ledger[r])
         IN  /\ \A s \in Riders \ {r} : ledger'[s] = ledger[s]
             /\ DOMAIN ledger'[r] = DOMAIN ledger[r] \cup {n + 1} /\ n + 1 \notin DOMAIN ledger[r]
             /\ \A i \in DOMAIN ledger[r] : ledger'[r][i] = ledger[r][i]
             /\ ledger'[r][n + 1] = e
             /\ e.kind = kind /\ e.ref = ref /\ e.amount = amount
<1> DEFINE e == Entry(r, kind, ref, of, amount)
           n == Len(ledger[r])
<1>1. /\ ledger'[r] = Append(ledger[r], e)
      /\ \A s \in Riders \ {r} : ledger'[s] = ledger[s]
  BY PostType
<1>2. ledger[r] \in Seq(LedgerEntries) /\ n \in Nat
  BY DEF TypeOK
<1>3. e.kind = kind /\ e.ref = ref /\ e.amount = amount
  BY DEF Entry
<1> HIDE DEF e
<1>4. DOMAIN ledger[r] = 1..n /\ DOMAIN Append(ledger[r], e) = 1..(n + 1)
  BY <1>2
<1>5. 1..(n + 1) = (1..n) \cup {n + 1} /\ n + 1 \notin 1..n
  BY <1>2
<1>6. \A i \in 1..n : Append(ledger[r], e)[i] = ledger[r][i]
  BY <1>2
<1>7. Append(ledger[r], e)[n + 1] = e
  BY <1>2
<1>8. QED
  BY <1>1, <1>3, <1>4, <1>5, <1>6, <1>7 DEF e

\* CreditMatchesStatus is inductive.
LEMMA NextCreditMatchesStatus ==
  TypeOK /\ CreditMatchesStatus /\ [Next]_vars => CreditMatchesStatus'
<1> SUFFICES ASSUME TypeOK, CreditMatchesStatus, [Next]_vars PROVE CreditMatchesStatus'
  OBVIOUS
<1>1. CASE Quiet
  <2>1. ASSUME NEW t \in TopUps PROVE status'[t] = "confirmed" <=> status[t] = "confirmed"
    BY <1>1 DEF Quiet
  <2>2. ASSUME NEW t \in TopUps, NEW r \in Riders, NEW i \in DOMAIN ledger[r], Credits(t, r, i)
        PROVE  owner'[t] = owner[t]
    BY <1>1, <2>2 DEF Quiet, CreditMatchesStatus
  <2>3. QED
    BY <1>1, <2>1, <2>2 DEF Quiet, CreditMatchesStatus, Credits
<1>2. ASSUME NEW u \in TopUps, NEW amount \in Nat, Credited(u, amount) PROVE CreditMatchesStatus'
  <2>0. PICK r \in Riders : r = owner[u]
    BY <1>2 DEF Credited, TypeOK
  <2> DEFINE n == Len(ledger[r])
  <2>1. r = owner[u] /\ amount \in Int /\ Post(r, "topup", u, 0, amount)
        /\ status' = [status EXCEPT ![u] = "confirmed"] /\ owner' = owner
    BY <1>2, <2>0 DEF Credited
  <2>2. \A s \in Riders : \A i \in DOMAIN ledger[s] : ~Credits(u, s, i)
    BY <1>2 DEF Credited, CreditMatchesStatus
  <2>3. /\ \A s \in Riders \ {r} : ledger'[s] = ledger[s]
        /\ DOMAIN ledger'[r] = DOMAIN ledger[r] \cup {n + 1} /\ n + 1 \notin DOMAIN ledger[r]
        /\ \A i \in DOMAIN ledger[r] : ledger'[r][i] = ledger[r][i]
        /\ ledger'[r][n + 1].kind = "topup" /\ ledger'[r][n + 1].ref = u
    BY <2>1, PostCredits DEF Kinds
  <2> HIDE DEF n
  <2>4. ASSUME NEW s \in Riders, NEW i \in DOMAIN ledger'[s], NEW t \in TopUps
        PROVE  Credits(t, s, i)' <=> \/ t = u /\ s = r /\ i = n + 1
                                     \/ i \in DOMAIN ledger[s] /\ Credits(t, s, i)
    <3>1. CASE s = r
      <4>1. CASE i = n + 1
        BY <3>1, <4>1, <2>3 DEF Credits
      <4>2. CASE i \in DOMAIN ledger[s]
        BY <3>1, <4>2, <2>3 DEF Credits
      <4>3. QED
        BY <3>1, <4>1, <4>2, <2>3
    <3>2. CASE s # r
      BY <3>2, <2>3 DEF Credits
    <3>3. QED
      BY <3>1, <3>2
  <2>5. \E i \in DOMAIN ledger'[r] : Credits(u, r, i)'
    BY <2>3 DEF Credits
  <2>6. \A s \in Riders : DOMAIN ledger[s] \subseteq DOMAIN ledger'[s]
    BY <2>3
  <2>7. ASSUME NEW t \in TopUps
        PROVE  /\ status'[t] = "confirmed" <=>
                    \E s \in Riders : \E i \in DOMAIN ledger'[s] : Credits(t, s, i)'
               /\ \A s \in Riders : \A i \in DOMAIN ledger'[s] :
                    Credits(t, s, i)' =>
                      s = owner'[t] /\ \A j \in DOMAIN ledger'[s] : Credits(t, s, j)' => i = j
    <3>1. CASE t = u
      BY <3>1, <2>1, <2>2, <2>4, <2>5 DEF TypeOK
    <3>2. CASE t # u
      <4>1. status'[t] = status[t]
        BY <3>2, <2>1 DEF TypeOK
      <4>2. QED
        BY <3>2, <4>1, <2>1, <2>4, <2>6 DEF CreditMatchesStatus
    <3>3. QED
      BY <3>1, <3>2
  <2>8. QED
    BY <2>7 DEF CreditMatchesStatus
<1>3. ASSUME NEW r \in Riders, NEW kind \in OtherKinds, NEW ref \in Keys \cup Jobs, NEW of \in Nat,
             NEW amount \in Int, OtherPost(r, kind, ref, of, amount)
      PROVE  CreditMatchesStatus'
  <2> DEFINE n == Len(ledger[r])
  <2>1. /\ \A s \in Riders \ {r} : ledger'[s] = ledger[s]
        /\ DOMAIN ledger'[r] = DOMAIN ledger[r] \cup {n + 1}
        /\ \A i \in DOMAIN ledger[r] : ledger'[r][i] = ledger[r][i]
        /\ ledger'[r][n + 1].kind = kind /\ kind # "topup"
    BY <1>3, PostCredits DEF OtherPost, OtherKinds
  <2> HIDE DEF n
  <2>2. ASSUME NEW s \in Riders, NEW i \in DOMAIN ledger'[s], NEW t \in TopUps
        PROVE  Credits(t, s, i)' <=> i \in DOMAIN ledger[s] /\ Credits(t, s, i)
    <3>1. CASE s = r
      BY <3>1, <2>1 DEF Credits
    <3>2. CASE s # r
      BY <3>2, <2>1 DEF Credits
    <3>3. QED
      BY <3>1, <3>2
  <2>3. \A s \in Riders : DOMAIN ledger[s] \subseteq DOMAIN ledger'[s]
    BY <2>1
  <2>4. status' = status /\ owner' = owner
    BY <1>3 DEF OtherPost, topUpRows
  <2>5. QED
    BY <2>2, <2>3, <2>4 DEF CreditMatchesStatus
<1>4. QED
  BY <1>1, <1>2, <1>3, Moves

\* CreditMatchesStatus for every instance: exactly one credit for a confirmed
\* top-up and none for any other.
THEOREM CreditedOnce == Spec => []CreditMatchesStatus
<1>1. Init => CreditMatchesStatus
  BY DEF Init, CreditMatchesStatus
<1>2. QED
  BY <1>1, NextCreditMatchesStatus, TypeCorrect, PTL DEF Spec

\* SettledIsFinal for every instance.
THEOREM SettledStays == Spec => SettledIsFinal
<1>1. ASSUME TypeOK, [Next]_vars, NEW t \in TopUps
      PROVE  /\ status[t] = "confirmed" => status'[t] = "confirmed"
             /\ status[t] = "declined" =>
                  \/ status'[t] = "declined"
                  \/ status'[t] = "confirmed" /\ \E a \in anomalies : a[1] = t
  <2>1. CASE Quiet
    BY <2>1 DEF Quiet
  <2>2. ASSUME NEW u \in TopUps, NEW amount \in Nat, Credited(u, amount)
        PROVE  /\ status[t] = "confirmed" => status'[t] = "confirmed"
               /\ status[t] = "declined" =>
                    \/ status'[t] = "declined"
                    \/ status'[t] = "confirmed" /\ \E a \in anomalies : a[1] = t
    BY <1>1, <2>2 DEF Credited, TypeOK, Unsettled
  <2>3. ASSUME NEW r \in Riders, NEW kind \in OtherKinds, NEW ref \in Keys \cup Jobs, NEW of \in Nat,
               NEW amount \in Int, OtherPost(r, kind, ref, of, amount)
        PROVE  status' = status
    BY <2>3 DEF OtherPost, topUpRows
  <2>4. QED
    BY <1>1, <2>1, <2>2, <2>3, Moves
<1>2. TypeOK /\ [Next]_vars =>
        [\A t \in TopUps :
          /\ status[t] = "confirmed" => status'[t] = "confirmed"
          /\ status[t] = "declined" =>
               \/ status'[t] = "declined"
               \/ status'[t] = "confirmed" /\ \E a \in anomalies : a[1] = t]_vars
  BY <1>1
<1>3. QED
  BY <1>2, TypeCorrect, PTL DEF Spec, SettledIsFinal

-----------------------------------------------------------------------------
(***************************************************************************)
(* The abstract ledger.                                                    *)
(***************************************************************************)
\* A posting of the abstract ledger, of one entry.
PostingOf(r, e) == [account |-> r, source |-> <<e.kind, e.ref>>, amount |-> e.amount]

\* What the postings are made of.
LEMMA PostingsMembers ==
  ASSUME NEW p
  PROVE  p \in Postings <=>
           \E r \in Riders : \E i \in DOMAIN ledger[r] : p = PostingOf(r, ledger[r][i])
BY DEF Postings, Entries, PostingOf

\* A movement whose source is new is a step of the abstract ledger.
LEMMA PostIsPosting ==
  ASSUME TypeOK, NEW r \in Riders, NEW kind \in Kinds, NEW ref \in TopUps \cup Keys \cup Jobs,
         NEW of \in Nat, NEW amount \in Int, Post(r, kind, ref, of, amount), ~HasEntry(kind, ref)
  PROVE  Promise!LedgerNext
<1> DEFINE p == [account |-> r, source |-> <<kind, ref>>, amount |-> amount]
           n == Len(ledger[r])
<1>1. /\ \A s \in Riders \ {r} : ledger'[s] = ledger[s]
      /\ DOMAIN ledger'[r] = DOMAIN ledger[r] \cup {n + 1}
      /\ \A i \in DOMAIN ledger[r] : ledger'[r][i] = ledger[r][i]
      /\ ledger'[r][n + 1].kind = kind /\ ledger'[r][n + 1].ref = ref
      /\ ledger'[r][n + 1].amount = amount
  BY PostCredits
<1> HIDE DEF n
<1>2. PostingOf(r, ledger'[r][n + 1]) = p
  BY <1>1 DEF PostingOf
<1>3. ASSUME NEW q
      PROVE  q \in Postings' <=>
               \E s \in Riders : \E i \in DOMAIN ledger'[s] : q = PostingOf(s, ledger'[s][i])
  BY DEF Postings, Entries, PostingOf
<1>4. \A s \in Riders : /\ DOMAIN ledger[s] \subseteq DOMAIN ledger'[s]
                        /\ \A i \in DOMAIN ledger[s] : ledger'[s][i] = ledger[s][i]
  BY <1>1
<1>5. \A s \in Riders : \A i \in DOMAIN ledger'[s] :
        i \in DOMAIN ledger[s] \/ PostingOf(s, ledger'[s][i]) = p
  BY <1>1, <1>2
<1>6. p \in Postings'
  BY <1>1, <1>2, <1>3
<1> HIDE DEF p
<1>7. Postings' = Postings \cup {p}
  <2>1. ASSUME NEW q \in Postings' PROVE q \in Postings \cup {p}
    <3> PICK s \in Riders : \E i \in DOMAIN ledger'[s] : q = PostingOf(s, ledger'[s][i])
      BY <1>3, <2>1
    <3>1. PICK i \in DOMAIN ledger'[s] : q = PostingOf(s, ledger'[s][i])
      OBVIOUS
    <3>2. CASE i \in DOMAIN ledger[s]
      BY <3>1, <3>2, <1>4, PostingsMembers
    <3>3. QED
      BY <3>1, <3>2, <1>5
  <2>2. ASSUME NEW q \in Postings PROVE q \in Postings'
    <3> PICK s \in Riders : \E i \in DOMAIN ledger[s] : q = PostingOf(s, ledger[s][i])
      BY <2>2, PostingsMembers
    <3>1. PICK i \in DOMAIN ledger[s] : q = PostingOf(s, ledger[s][i])
      OBVIOUS
    <3>2. QED
      BY <3>1, <1>3, <1>4
  <2>3. QED
    BY <2>1, <2>2, <1>6
<1>8. ASSUME NEW q \in Postings PROVE q.source # p.source
  <2> PICK s \in Riders : \E i \in DOMAIN ledger[s] : q = PostingOf(s, ledger[s][i])
    BY PostingsMembers
  <2>1. PICK i \in DOMAIN ledger[s] : q = PostingOf(s, ledger[s][i])
    OBVIOUS
  <2>2. ledger[s][i] \in Entries(s)
    BY DEF Entries
  <2>3. ~(ledger[s][i].kind = kind /\ ledger[s][i].ref = ref)
    BY <2>2 DEF HasEntry
  <2>4. q.source = <<ledger[s][i].kind, ledger[s][i].ref>> /\ p.source = <<kind, ref>>
    BY <2>1 DEF PostingOf, p
  <2>5. QED
    BY <2>3, <2>4
<1>9. p \in Postings' \ Postings
  BY <1>6, <1>8
<1>10. balance' = [balance EXCEPT ![p.account] = @ + p.amount]
  BY DEF Post, p
<1>11. QED
  BY <1>7, <1>8, <1>9, <1>10 DEF Promise!LedgerNext, Promise!Posting

\* Every step of the wallet is a step of the abstract ledger, or none.
LEMMA NextImplementsLedger ==
  TypeOK /\ CreditMatchesStatus /\ [Next]_vars => [Promise!LedgerNext]_<<balance, Postings>>
<1> SUFFICES ASSUME TypeOK, CreditMatchesStatus, [Next]_vars
             PROVE  [Promise!LedgerNext]_<<balance, Postings>>
  OBVIOUS
<1>1. CASE Quiet
  BY <1>1 DEF Quiet, Postings, Entries
<1>2. ASSUME NEW t \in TopUps, NEW amount \in Nat, Credited(t, amount) PROVE Promise!LedgerNext
  <2>1. owner[t] \in Riders /\ Post(owner[t], "topup", t, 0, amount) /\ amount \in Int
    BY <1>2 DEF Credited, TypeOK
  <2>2. ~HasEntry("topup", t)
    BY <1>2 DEF Credited, CreditMatchesStatus, Credits, HasEntry, Entries
  <2>3. QED
    BY <2>1, <2>2, PostIsPosting DEF Kinds
<1>3. ASSUME NEW r \in Riders, NEW kind \in OtherKinds, NEW ref \in Keys \cup Jobs, NEW of \in Nat,
             NEW amount \in Int, OtherPost(r, kind, ref, of, amount)
      PROVE  Promise!LedgerNext
  BY <1>3, PostIsPosting DEF OtherPost, OtherKinds
<1>4. QED
  BY <1>1, <1>2, <1>3, Moves

\* The wallet implements the abstract ledger in every instance.
THEOREM LedgerImplemented == Spec => ImplementsLedger
<1>1. Init => Promise!LedgerInit
  BY DEF Init, Promise!LedgerInit, Postings, Entries
<1>2. QED
  BY <1>1, NextImplementsLedger, TypeCorrect, CreditedOnce, PTL
     DEF Spec, ImplementsLedger, Promise!LedgerSpec

-----------------------------------------------------------------------------
(***************************************************************************)
(* No credit without a payment.                                            *)
(***************************************************************************)
\* What the calls and the anomaly rows say of the rail is true, and stays so:
\* a charge that was paid stays paid.
CallTruth ==
  \A c \in Callers :
    /\ call[c].stage \in {"answered", "crediting"} /\ call[c].answer.state = "paid"
         => charge[call[c].top] = call[c].answer
    /\ call[c].stage = "crediting" => call[c].answer.state = "paid" /\ ~Short(call[c].answer)

AnomalyTruth ==
  \A a \in anomalies :
    charge[a[1]].state = "paid" /\ (a[2] = "short_paid" => Short(charge[a[1]]))

CreditTruth ==
  \A t \in TopUps, r \in Riders : \A i \in DOMAIN ledger[r] :
    Credits(t, r, i) =>
      /\ charge[t].state = "paid"
      /\ \/ ledger[r][i].amount = Asked /\ ~Short(charge[t])
         \/ ledger[r][i].amount = Worth(t)

\* A charge that was paid is never touched again.
LEMMA PaidStays ==
  ASSUME TypeOK, [Next]_vars, NEW t \in TopUps, charge[t].state = "paid"
  PROVE  charge'[t] = charge[t]
<1>1. \A u \in TopUps : charge[u].state # "paid" =>
        (t # u /\ \A state, paid : SetCharge(u, state, paid) => charge'[t] = charge[t])
  BY DEF SetCharge, TypeOK
<1>2. ASSUME NEW u \in TopUps,
             RailOpens(u) \/ RailRefuses(u) \/ (\E p \in Payments : RailPaid(u, p)) \/ RailFailed(u)
      PROVE  charge'[t] = charge[t]
  BY <1>1, <1>2 DEF RailOpens, RailRefuses, RailPaid, RailFailed
<1>3. ASSUME NEW u \in TopUps,
             \/ InitiateRefused(u) \/ InitiateLost(u) \/ Lapse(u) \/ AgeOut(u) \/ GetTopup(u)
             \/ AlreadySettled(u) \/ FailedUpdate(u) \/ CreditTopupShortfall(u)
             \/ \E r \in Riders : CreateTopup(u, r)
             \/ \E c \in Callers : Reconcile(c, u)
      PROVE  charge'[t] = charge[t]
  BY <1>3 DEF InitiateRefused, InitiateLost, Lapse, AgeOut, GetTopup, AlreadySettled, FailedUpdate,
              CreditTopupShortfall, CreateTopup, Reconcile, rail
<1>4. ASSUME NEW c \in Callers,
             \/ Answer(c) \/ AskFails(c) \/ SettlePending(c) \/ SettleFailed(c) \/ SettleShort(c)
             \/ SettleDeclined(c) \/ SettlePaid(c) \/ CreditFromTopup(c) \/ CreditRefused(c)
      PROVE  charge'[t] = charge[t]
  BY <1>4 DEF Answer, AskFails, SettlePending, SettleFailed, SettleShort, SettleDeclined, SettlePaid,
              CreditFromTopup, CreditRefused, rail
<1>5. ASSUME NEW r \in Riders,
             \/ \E k \in Keys : CreditManual(r, k)
             \/ \E j \in Jobs : CompleteJob(r, j)
             \/ \E k \in Keys, amount \in Reversals :
                  \E i \in {0} \cup DOMAIN ledger[r] : ReverseEntry(r, i, amount, k)
      PROVE  charge'[t] = charge[t]
  BY <1>5 DEF CreditManual, CompleteJob, ReverseEntry, rail
<1>6. CASE \E d \in today : DayPasses(d)
  BY <1>6 DEF DayPasses, rail
<1>7. CASE UNCHANGED vars
  BY <1>7 DEF vars, rail
<1>8. QED
  BY <1>2, <1>3, <1>4, <1>5, <1>6, <1>7 DEF Next

\* What a step may make of one call.
LEMMA CallMoves ==
  ASSUME TypeOK, [Next]_vars, NEW c \in Callers
  PROVE  \/ call'[c] = call[c]
         \/ call'[c].stage \in {"idle", "asked"}
         \/ /\ call'[c].stage = "answered" /\ call'[c].top \in TopUps
            /\ call'[c].answer = charge[call'[c].top] /\ charge' = charge
         \/ /\ call'[c].stage = "crediting" /\ call[c].stage = "answered"
            /\ call'[c].top = call[c].top /\ call'[c].answer = call[c].answer
            /\ call[c].answer.state = "paid" /\ ~Short(call[c].answer)
<1> DEFINE Goal == \/ call'[c] = call[c]
                   \/ call'[c].stage \in {"idle", "asked"}
                   \/ /\ call'[c].stage = "answered" /\ call'[c].top \in TopUps
                      /\ call'[c].answer = charge[call'[c].top] /\ charge' = charge
                   \/ /\ call'[c].stage = "crediting" /\ call[c].stage = "answered"
                      /\ call'[c].top = call[c].top /\ call'[c].answer = call[c].answer
                      /\ call[c].answer.state = "paid" /\ ~Short(call[c].answer)
<1>1. ASSUME NEW u \in TopUps,
             \/ RailOpens(u) \/ RailRefuses(u) \/ (\E p \in Payments : RailPaid(u, p)) \/ RailFailed(u)
             \/ InitiateRefused(u) \/ InitiateLost(u) \/ Lapse(u) \/ AgeOut(u) \/ GetTopup(u)
             \/ AlreadySettled(u) \/ CreditTopupShortfall(u)
             \/ \E r \in Riders : CreateTopup(u, r)
      PROVE  call' = call
  BY <1>1 DEF RailOpens, RailRefuses, RailPaid, RailFailed, SetCharge, InitiateRefused, InitiateLost,
              Lapse, AgeOut, GetTopup, AlreadySettled, CreditTopupShortfall, CreateTopup
<1>2. ASSUME NEW r \in Riders,
             \/ \E k \in Keys : CreditManual(r, k)
             \/ \E j \in Jobs : CompleteJob(r, j)
             \/ \E k \in Keys, amount \in Reversals :
                  \E i \in {0} \cup DOMAIN ledger[r] : ReverseEntry(r, i, amount, k)
      PROVE  call' = call
  BY <1>2 DEF CreditManual, CompleteJob, ReverseEntry
<1>3. ASSUME NEW u \in TopUps, FailedUpdate(u) PROVE Goal
  <2>1. call' = [call EXCEPT !["webhook"] =
                   [Idle EXCEPT !.stage = "answered", !.top = u, !.answer = charge[u]]]
        /\ charge' = charge
    BY <1>3 DEF FailedUpdate, rail
  <2>2. CASE c = "webhook"
    BY <2>1, <2>2 DEF TypeOK, Idle
  <2>3. CASE c # "webhook"
    BY <2>1, <2>3 DEF TypeOK
  <2>4. QED
    BY <2>2, <2>3
<1>4. ASSUME NEW d \in Callers, NEW u \in TopUps, Reconcile(d, u) PROVE Goal
  BY <1>4 DEF Reconcile, TypeOK, Idle
<1>5. ASSUME NEW d \in Callers, Answer(d) PROVE Goal
  <2>1. call[d] \in Calls /\ call[d].top \in TopUps
    BY <1>5 DEF Answer, TypeOK
  <2>2. call' = [call EXCEPT ![d].stage = "answered", ![d].answer = charge[call[d].top]]
        /\ charge' = charge
    BY <1>5 DEF Answer, rail
  <2>3. CASE c = d
    BY <2>1, <2>2, <2>3 DEF TypeOK, Calls
  <2>4. CASE c # d
    BY <2>2, <2>4 DEF TypeOK
  <2>5. QED
    BY <2>3, <2>4
<1>6. ASSUME NEW d \in Callers,
             \/ AskFails(d) \/ SettlePending(d) \/ SettleFailed(d) \/ SettleShort(d)
             \/ SettleDeclined(d) \/ CreditFromTopup(d) \/ CreditRefused(d)
      PROVE  Goal
  <2>1. call' = [call EXCEPT ![d] = Idle]
    BY <1>6 DEF AskFails, SettlePending, SettleFailed, SettleShort, SettleDeclined, CreditFromTopup,
                CreditRefused, Done
  <2>2. QED
    BY <2>1 DEF TypeOK, Idle
<1>7. ASSUME NEW d \in Callers, SettlePaid(d) PROVE Goal
  <2>1. call[d] \in Calls /\ call' = [call EXCEPT ![d].stage = "crediting"]
        /\ call[d].stage = "answered" /\ call[d].answer.state = "paid" /\ ~Short(call[d].answer)
    BY <1>7 DEF SettlePaid, Answered, TypeOK
  <2>2. CASE c = d
    BY <2>1, <2>2 DEF TypeOK, Calls
  <2>3. CASE c # d
    BY <2>1, <2>3 DEF TypeOK
  <2>4. QED
    BY <2>2, <2>3
<1>8. CASE \E d \in today : DayPasses(d)
  BY <1>8 DEF DayPasses
<1>9. CASE UNCHANGED vars
  BY <1>9 DEF vars
<1>10. QED
  BY <1>1, <1>2, <1>3, <1>4, <1>5, <1>6, <1>7, <1>8, <1>9 DEF Next

\* CallTruth is inductive.
LEMMA NextCallTruth == TypeOK /\ CallTruth /\ [Next]_vars => CallTruth'
<1> SUFFICES ASSUME TypeOK, CallTruth, [Next]_vars, NEW c \in Callers
             PROVE  /\ call'[c].stage \in {"answered", "crediting"} /\ call'[c].answer.state = "paid"
                         => charge'[call'[c].top] = call'[c].answer
                    /\ call'[c].stage = "crediting" =>
                         call'[c].answer.state = "paid" /\ (~Short(call[c].answer))'
  BY DEF CallTruth
<1>1. call[c].stage # "idle" => call[c].top \in TopUps
  BY DEF TypeOK
<1>2. call[c].stage \in {"answered", "crediting"} /\ call[c].answer.state = "paid"
        => charge'[call[c].top] = call[c].answer
  BY <1>1, PaidStays DEF CallTruth
<1>3. CASE call'[c] = call[c]
  BY <1>2, <1>3 DEF CallTruth, Short
<1>4. CASE call'[c] # call[c]
  BY <1>2, <1>4, CallMoves DEF Short
<1>5. QED
  BY <1>3, <1>4

\* AnomalyTruth is inductive, given what the calls know.
LEMMA NextAnomalyTruth == TypeOK /\ CallTruth /\ AnomalyTruth /\ [Next]_vars => AnomalyTruth'
<1> SUFFICES ASSUME TypeOK, CallTruth, AnomalyTruth, [Next]_vars PROVE AnomalyTruth'
  OBVIOUS
<1>1. \A a \in anomalies : a[1] \in TopUps /\ charge'[a[1]] = charge[a[1]]
  BY PaidStays DEF AnomalyTruth, TypeOK
<1>2. ASSUME NEW c \in Callers, NEW kind,
             Answered(c, {"paid"}), kind = "short_paid" => Short(call[c].answer),
             anomalies' = anomalies \cup {<<call[c].top, kind>>}
      PROVE  AnomalyTruth'
  <2>1. call[c].top \in TopUps /\ charge[call[c].top] = call[c].answer /\ call[c].answer.state = "paid"
    BY <1>2 DEF Answered, TypeOK, CallTruth
  <2>2. charge'[call[c].top] = call[c].answer
    BY <2>1, PaidStays
  <2>3. ASSUME NEW a \in anomalies'
        PROVE  charge'[a[1]].state = "paid" /\ (a[2] = "short_paid" => charge'[a[1]].paid < Asked)
    <3>1. CASE a \in anomalies
      BY <3>1, <1>1 DEF AnomalyTruth, Short
    <3>2. CASE a = <<call[c].top, kind>>
      BY <3>2, <1>2, <2>1, <2>2 DEF Short
    <3>3. QED
      BY <1>2, <2>3, <3>1, <3>2
  <2>4. QED
    BY <2>3 DEF AnomalyTruth, Short
<1>3. CASE \E c \in Callers : SettleShort(c)
  BY <1>2, <1>3 DEF SettleShort
<1>4. CASE \E c \in Callers : SettleDeclined(c)
  BY <1>2, <1>4 DEF SettleDeclined
<1>5. CASE anomalies' = anomalies
  BY <1>1, <1>5 DEF AnomalyTruth, Short
<1>6. \/ \E c \in Callers : SettleShort(c)
      \/ \E c \in Callers : SettleDeclined(c)
      \/ anomalies' = anomalies
  BY DEF Next, vars, CreateTopup, InitiateRefused, InitiateLost, RailOpens, RailRefuses, RailPaid,
         RailFailed, SetCharge, Lapse, AgeOut, GetTopup, Reconcile, AlreadySettled, Answer, AskFails,
         FailedUpdate, SettlePending, SettleFailed, SettlePaid, CreditFromTopup, CreditRefused,
         CreditTopupShortfall, CreditManual, DayPasses, ReverseEntry, CompleteJob
<1>7. QED
  BY <1>3, <1>4, <1>5, <1>6

\* CreditTruth is inductive, given what the calls and the anomaly rows know.
LEMMA NextCreditTruth ==
  TypeOK /\ CallTruth /\ AnomalyTruth /\ CreditTruth /\ [Next]_vars => CreditTruth'
<1> SUFFICES ASSUME TypeOK, CallTruth, AnomalyTruth, CreditTruth, [Next]_vars PROVE CreditTruth'
  OBVIOUS
<1>1. ASSUME NEW t \in TopUps, NEW amount, charge[t].state = "paid",
             (amount = Asked /\ ~Short(charge[t])) \/ amount = Worth(t)
      PROVE  /\ charge'[t].state = "paid"
             /\ (amount = Asked /\ ~Short(charge'[t])) \/ amount = Worth(t)'
  BY <1>1, PaidStays DEF Short, Worth
<1>2. ASSUME NEW t \in TopUps, NEW r \in Riders, NEW i \in DOMAIN ledger[r], Credits(t, r, i)
      PROVE  /\ charge'[t].state = "paid"
             /\ \/ ledger[r][i].amount = Asked /\ ~Short(charge'[t])
                \/ ledger[r][i].amount = Worth(t)'
  BY <1>1, <1>2 DEF CreditTruth
<1>3. CASE Quiet
  BY <1>2, <1>3 DEF Quiet, CreditTruth, Credits, Short
<1>4. ASSUME NEW r \in Riders, NEW kind \in Kinds, NEW ref \in TopUps \cup Keys \cup Jobs,
             NEW of \in Nat, NEW amount \in Int, Post(r, kind, ref, of, amount),
             \A t \in TopUps : kind = "topup" /\ ref = t =>
               /\ charge[t].state = "paid"
               /\ (amount = Asked /\ ~Short(charge[t])) \/ amount = Worth(t)
      PROVE  CreditTruth'
  <2> DEFINE n == Len(ledger[r])
  <2>1. /\ \A s \in Riders \ {r} : ledger'[s] = ledger[s]
        /\ DOMAIN ledger'[r] = DOMAIN ledger[r] \cup {n + 1}
        /\ \A i \in DOMAIN ledger[r] : ledger'[r][i] = ledger[r][i]
        /\ ledger'[r][n + 1].kind = kind /\ ledger'[r][n + 1].ref = ref
        /\ ledger'[r][n + 1].amount = amount
    BY <1>4, PostCredits
  <2> HIDE DEF n
  <2>2. ASSUME NEW t \in TopUps, NEW s \in Riders, NEW i \in DOMAIN ledger'[s],
               ledger'[s][i].kind = "topup", ledger'[s][i].ref = t
        PROVE  /\ charge'[t].state = "paid"
               /\ \/ ledger'[s][i].amount = Asked /\ ~(charge'[t].paid < Asked)
                  \/ ledger'[s][i].amount = Worth(t)'
    <3>1. CASE s = r /\ i = n + 1
      BY <3>1, <2>1, <2>2, <1>1, <1>4 DEF Short
    <3>2. CASE i \in DOMAIN ledger[s] /\ ledger'[s][i] = ledger[s][i]
      BY <3>2, <2>2, <1>2 DEF Credits, Short
    <3>3. QED
      BY <3>1, <3>2, <2>1, <2>2
  <2>3. QED
    BY <2>2 DEF CreditTruth, Credits, Short
<1>5. ASSUME NEW t \in TopUps, NEW amount \in Nat, Credited(t, amount) PROVE CreditTruth'
  <2>1. owner[t] \in Riders /\ Post(owner[t], "topup", t, 0, amount) /\ amount \in Int
    BY <1>5 DEF Credited, TypeOK
  <2>2. CASE amount = Worth(t) /\ \E a \in anomalies : a[1] = t
    <3>1. charge[t].state = "paid"
      BY <2>2 DEF AnomalyTruth
    <3>2. QED
      BY <2>1, <2>2, <3>1, <1>4 DEF Kinds
  <2>3. ASSUME NEW c \in Callers, amount = Asked, call[c].stage = "crediting", call[c].top = t
        PROVE  CreditTruth'
    <3>1. charge[t] = call[c].answer /\ charge[t].state = "paid" /\ ~Short(charge[t])
      BY <2>3 DEF CallTruth
    <3>2. QED
      BY <2>1, <2>3, <3>1, <1>4 DEF Kinds
  <2>4. QED
    BY <1>5, <2>2, <2>3 DEF Credited
<1>6. ASSUME NEW r \in Riders, NEW kind \in OtherKinds, NEW ref \in Keys \cup Jobs, NEW of \in Nat,
             NEW amount \in Int, OtherPost(r, kind, ref, of, amount)
      PROVE  CreditTruth'
  BY <1>6, <1>4 DEF OtherPost, OtherKinds
<1>7. QED
  BY <1>3, <1>5, <1>6, Moves

\* What the wallet believes of the rail, in every instance.
LEMMA RailTruth == Spec => [](CallTruth /\ AnomalyTruth /\ CreditTruth)
<1>1. Init => CallTruth /\ AnomalyTruth /\ CreditTruth
  BY DEF Init, CallTruth, AnomalyTruth, CreditTruth, Idle
<1>2. QED
  BY <1>1, NextCallTruth, NextAnomalyTruth, NextCreditTruth, TypeCorrect, PTL DEF Spec

\* NoUnpaidCredit for every instance, whatever the fee, the amounts and the
\* callers.
THEOREM CreditIsPaid == Spec => []NoUnpaidCredit
<1>1. TypeOK /\ CreditTruth => NoUnpaidCredit
  <2> SUFFICES ASSUME TypeOK, CreditTruth, NEW t \in TopUps, NEW r \in Riders,
                      NEW i \in DOMAIN ledger[r], Credits(t, r, i)
               PROVE  charge[t].state = "paid" /\ ledger[r][i].amount <= charge[t].paid
    BY DEF NoUnpaidCredit
  <2>1. charge[t].paid \in Nat
    BY PaidType
  <2>2. Worth(t) <= charge[t].paid
    BY <2>1, WorthBound
  <2>3. QED
    BY <2>1, <2>2, WalletAssumption DEF CreditTruth, Short
<1>2. QED
  BY <1>1, TypeCorrect, RailTruth, PTL

\* ShortPaymentWorth for every instance: the credit of a short payment is the
\* largest that fits it, for every fee.
THEOREM ShortPaymentIsWorth == Spec => []ShortPaymentWorth
<1>1. TypeOK /\ CreditTruth /\ AnomalyTruth => ShortPaymentWorth
  <2> SUFFICES ASSUME TypeOK, CreditTruth, AnomalyTruth, NEW t \in TopUps, NEW r \in Riders,
                      NEW i \in DOMAIN ledger[r], Credits(t, r, i), <<t, "short_paid">> \in anomalies
               PROVE  /\ Fits(ledger[r][i].amount, charge[t].paid)
                      /\ ~Fits(ledger[r][i].amount + 1, charge[t].paid)
    BY DEF ShortPaymentWorth
  <2>1. charge[t].paid \in Nat /\ charge[t].paid < Asked
    BY PaidType DEF AnomalyTruth, Short
  <2>2. ledger[r][i].amount = Worth(t)
    BY <2>1 DEF CreditTruth, Short
  <2>3. Worth(t) = NetOfFee(charge[t].paid)
    BY <2>1, NetOfFeeBound, NetOfFeeFits, WalletAssumption DEF Worth
  <2>4. QED
    BY <2>1, <2>2, <2>3, NetOfFeeFits
<1>2. QED
  BY <1>1, TypeCorrect, RailTruth, PTL

-----------------------------------------------------------------------------
(***************************************************************************)
(* The reversals of an entry.                                              *)
(***************************************************************************)
AmountsOf(L) == [j \in DOMAIN L |-> L[j].amount]

\* The sum of the entries at some places of a ledger, as the code takes it.
SumOf(L, T) == MapThenSumSet(LAMBDA j : L[j].amount, T)

\* ReversalsOf and the sum in Reversed, of any ledger.
RevOf(L, i) == {j \in DOMAIN L : L[j].kind = "reversal" /\ L[j].of = i}
RevSum(L, i) == SumOf(L, RevOf(L, i))

\* A reversal names an entry of its own ledger, or none, and those that name
\* one entry stay within what it added.
Covered(L) ==
  /\ \A j \in DOMAIN L : L[j].kind = "reversal" => L[j].of \in {0} \cup DOMAIN L
  /\ \A i \in DOMAIN L : RevOf(L, i) # {} => -RevSum(L, i) <= L[i].amount

AllCovered == \A r \in Riders : Covered(ledger[r])

\* What a ledger is made of.
LEMMA LedgerParts ==
  ASSUME NEW L \in Seq(LedgerEntries)
  PROVE  /\ DOMAIN L = 1..Len(L) /\ Len(L) \in Nat /\ IsFiniteSet(DOMAIN L)
         /\ \A j \in DOMAIN L : L[j] \in LedgerEntries /\ L[j].amount \in Int /\ L[j].of \in Nat
<1>1. DOMAIN L = 1..Len(L) /\ Len(L) \in Nat
  OBVIOUS
<1>2. IsFiniteSet(DOMAIN L)
  BY <1>1, FS_Interval
<1>3. \A j \in DOMAIN L : L[j] \in LedgerEntries
  OBVIOUS
<1>4. QED
  BY <1>1, <1>2, <1>3 DEF LedgerEntries

\* The places of a ledger with one more entry.
LEMMA PositionsOfAppend ==
  ASSUME NEW L \in Seq(LedgerEntries), NEW e \in LedgerEntries
  PROVE  /\ DOMAIN L = 1..Len(L)
         /\ DOMAIN Append(L, e) = (1..Len(L)) \cup {Len(L) + 1}
         /\ Len(L) + 1 \notin 1..Len(L)
         /\ \A j \in 1..Len(L) : Append(L, e)[j] = L[j]
         /\ Append(L, e)[Len(L) + 1] = e
<1>1. Len(L) \in Nat /\ DOMAIN L = 1..Len(L) /\ DOMAIN Append(L, e) = 1..(Len(L) + 1)
  OBVIOUS
<1>2. 1..(Len(L) + 1) = (1..Len(L)) \cup {Len(L) + 1} /\ Len(L) + 1 \notin 1..Len(L)
  BY <1>1
<1>3. Append(L, e)[Len(L) + 1] = e /\ \A j \in 1..Len(L) : Append(L, e)[j] = L[j]
  OBVIOUS
<1>4. QED
  BY <1>1, <1>2, <1>3

\* The amounts at some places of a ledger can be summed.
LEMMA PlacesSum ==
  ASSUME NEW L \in Seq(LedgerEntries), NEW T \in SUBSET DOMAIN L
  PROVE  Summable(AmountsOf(L), T)
<1>1. IsFiniteSet(T)
  BY LedgerParts, FS_Subset
<1>2. QED
  BY <1>1, LedgerParts DEF Summable, AmountsOf

\* The sum the code takes is theirs, in whatever order it adds.
LEMMA SumIs ==
  ASSUME NEW L \in Seq(LedgerEntries), NEW T \in SUBSET DOMAIN L
  PROVE  SumOf(L, T) = Total(AmountsOf(L), T)
<1> DEFINE h == AmountsOf(L)
           Sums(it) == it = [s \in SUBSET T |->
                         IF s = {} THEN 0
                         ELSE L[CHOOSE x \in s : TRUE].amount + it[s \ {CHOOSE x \in s : TRUE}]]
           it == CHOOSE it : Sums(it)
<1>1. Summable(h, T) /\ IsFiniteSet(T)
  BY PlacesSum DEF Summable
<1>2. \A s \in SUBSET T : s # {} => h[Pick(s)] = L[CHOOSE x \in s : TRUE].amount
  <2>2. \A s \in SUBSET T : s # {} => Pick(s) \in s
    BY DEF Pick
  <2>3. \A x \in T : h[x] = L[x].amount
    BY DEF AmountsOf
  <2>4. QED
    BY <2>2, <2>3 DEF Pick
<1>3. \A jt : Sums(jt) <=> SumsOf(jt, h, T)
  <2> TAKE jt
  <2> DEFINE a(s) == IF s = {} THEN 0 ELSE L[CHOOSE x \in s : TRUE].amount
                                            + jt[s \ {CHOOSE x \in s : TRUE}]
             b(s) == IF s = {} THEN 0 ELSE h[Pick(s)] + jt[s \ {Pick(s)}]
  <2>1. \A s \in SUBSET T : a(s) = b(s)
    BY <1>2 DEF Pick
  <2>2. [s \in SUBSET T |-> a(s)] = [s \in SUBSET T |-> b(s)]
    <3> HIDE DEF a, b
    <3>1. QED
      BY <2>1
  <2>3. QED
    BY <2>2 DEF SumsOf
<1>4. SumOf(L, T) = it[T]
  BY DEF SumOf, MapThenSumSet, MapThenFoldSet
<1>5. Sums(it)
  <2> HIDE DEF Sums, h
  <2>1. PICK jt : SumsOf(jt, h, T)
    BY <1>1, SumsExist
  <2>2. Sums(jt)
    BY <1>3, <2>1
  <2>3. QED
    BY <2>2, Zenon
<1>6. PICK jt : SumsOf(jt, h, T) /\ Total(h, T) = jt[T]
  BY <1>1, TotalIs
<1>7. SumsOf(it, h, T)
  BY <1>3, <1>5
<1> HIDE DEF it, h
<1>8. it[T] = jt[T]
  BY <1>1, <1>6, <1>7, SumsAgree
<1>9. QED
  BY <1>4, <1>6, <1>8 DEF h

\* A new entry adds its amount to the sum of a ledger.
LEMMA WholeSum ==
  ASSUME NEW L \in Seq(LedgerEntries), NEW e \in LedgerEntries
  PROVE  /\ SumOf(L, DOMAIN L) \in Int
         /\ SumOf(Append(L, e), DOMAIN Append(L, e)) = SumOf(L, DOMAIN L) + e.amount
<1> DEFINE M == Append(L, e)
           n == Len(L)
<1>1. M \in Seq(LedgerEntries)
  OBVIOUS
<1>2. /\ DOMAIN L = 1..n /\ DOMAIN M = (1..n) \cup {n + 1} /\ n + 1 \notin 1..n
      /\ \A j \in 1..n : M[j] = L[j]
      /\ M[n + 1] = e
  BY PositionsOfAppend
<1> HIDE DEF M, n
<1>3. /\ SumOf(L, DOMAIN L) = Total(AmountsOf(L), DOMAIN L)
      /\ SumOf(M, DOMAIN M) = Total(AmountsOf(M), DOMAIN M)
      /\ Summable(AmountsOf(L), DOMAIN L) /\ Summable(AmountsOf(M), DOMAIN M)
  BY <1>1, SumIs, PlacesSum
<1>4. Total(AmountsOf(L), DOMAIN L) = Total(AmountsOf(M), DOMAIN L)
  <2>1. \A x \in DOMAIN L : AmountsOf(L)[x] = AmountsOf(M)[x]
    BY <1>2 DEF AmountsOf
  <2>2. Summable(AmountsOf(M), DOMAIN L)
    BY <1>2, <1>3, <2>1 DEF Summable
  <2>3. QED
    BY <1>3, <2>1, <2>2, TotalSame
<1>5. AmountsOf(M)[n + 1] = e.amount
  BY <1>2 DEF AmountsOf
<1>6. Total(AmountsOf(M), DOMAIN M) = Total(AmountsOf(M), DOMAIN L) + AmountsOf(M)[n + 1]
  <2> DEFINE g == AmountsOf(M)
             x == n + 1
             D == DOMAIN L
  <2>1. DOMAIN M = D \cup {x} /\ x \notin D /\ Summable(g, D \cup {x})
    BY <1>2, <1>3
  <2> HIDE DEF g, x, D
  <2>2. Total(g, D \cup {x}) = Total(g, D) + g[x]
    BY <2>1, TotalAdd
  <2>3. QED
    BY <2>1, <2>2 DEF g, x, D
<1>7. SumOf(L, DOMAIN L) \in Int
  BY <1>3, TotalType
<1>8. QED
  BY <1>3, <1>4, <1>5, <1>6, <1>7 DEF M

\* A new entry changes the sum of one entry only, the one it reverses, and
\* that by its amount.
LEMMA AppendSum ==
  ASSUME NEW L \in Seq(LedgerEntries), NEW e \in LedgerEntries, NEW i \in Nat
  PROVE  LET M == Append(L, e)
         IN  /\ RevSum(L, i) \in Int
             /\ RevOf(L, i) = {} => RevSum(L, i) = 0
             /\ IF e.kind = "reversal" /\ e.of = i
                THEN RevSum(M, i) = RevSum(L, i) + e.amount
                ELSE RevOf(M, i) = RevOf(L, i) /\ RevSum(M, i) = RevSum(L, i)
<1> DEFINE M == Append(L, e)
           n == Len(L)
           T == RevOf(L, i)
           U == RevOf(M, i)
<1>1. M \in Seq(LedgerEntries) /\ n \in Nat
  OBVIOUS
<1>2. /\ DOMAIN L = 1..n /\ DOMAIN M = (1..n) \cup {n + 1} /\ n + 1 \notin 1..n
      /\ \A j \in 1..n : M[j] = L[j]
      /\ M[n + 1] = e
  BY PositionsOfAppend
<1> HIDE DEF M, n
<1>3. /\ RevSum(L, i) = Total(AmountsOf(L), T) /\ RevSum(M, i) = Total(AmountsOf(M), U)
      /\ Summable(AmountsOf(L), T) /\ Summable(AmountsOf(M), U)
  <2>1. T \in SUBSET DOMAIN L /\ U \in SUBSET DOMAIN M
    BY DEF RevOf
  <2>2. QED
    BY <1>1, <2>1, SumIs, PlacesSum DEF RevSum
<1>4. T \subseteq 1..n /\ n + 1 \notin T
  BY <1>2 DEF RevOf
<1>5. \A x \in T : AmountsOf(L)[x] = AmountsOf(M)[x]
  BY <1>2, <1>4 DEF AmountsOf
<1>6. Total(AmountsOf(L), T) = Total(AmountsOf(M), T)
  BY <1>3, <1>5, TotalSame
<1>7. RevSum(L, i) \in Int /\ (T = {} => RevSum(L, i) = 0)
  BY <1>3, TotalType
<1>8. CASE e.kind = "reversal" /\ e.of = i
  <2>1. U = T \cup {n + 1}
    BY <1>2, <1>8 DEF RevOf
  <2>2. AmountsOf(M)[n + 1] = e.amount
    BY <1>2 DEF AmountsOf
  <2> HIDE DEF T, U
  <2> DEFINE g == AmountsOf(M)
             x == n + 1
  <2>3. x \notin T /\ Summable(g, T \cup {x})
    BY <1>3, <1>4, <2>1
  <2> HIDE DEF g, x
  <2>4. Total(g, T \cup {x}) = Total(g, T) + g[x]
    BY <2>3, TotalAdd
  <2>5. Total(AmountsOf(M), U) = Total(AmountsOf(M), T) + AmountsOf(M)[n + 1]
    BY <2>1, <2>4 DEF g, x
  <2>6. QED
    BY <1>3, <1>6, <1>7, <1>8, <2>2, <2>5 DEF M, T
<1>9. CASE ~(e.kind = "reversal" /\ e.of = i)
  <2>1. U = T
    BY <1>2, <1>9 DEF RevOf
  <2>2. QED
    BY <1>3, <1>6, <1>7, <1>9, <2>1 DEF M
<1>10. QED
  BY <1>8, <1>9

\* An entry that reverses no more than is left keeps a ledger covered.
LEMMA AppendCovered ==
  ASSUME NEW L \in Seq(LedgerEntries), NEW e \in LedgerEntries, Covered(L),
         e.kind = "reversal" =>
           /\ e.of \in {0} \cup DOMAIN L
           /\ e.of # 0 => -e.amount <= L[e.of].amount + RevSum(L, e.of)
  PROVE  Covered(Append(L, e))
<1> DEFINE M == Append(L, e)
           n == Len(L)
<1>1. n \in Nat /\ e.amount \in Int /\ e.of \in Nat
  BY DEF LedgerEntries
<1>2. /\ DOMAIN L = 1..n /\ DOMAIN M = (1..n) \cup {n + 1} /\ n + 1 \notin 1..n
      /\ \A j \in 1..n : M[j] = L[j]
      /\ M[n + 1] = e
  BY PositionsOfAppend
<1>3. \A i \in Nat : /\ RevSum(L, i) \in Int
                     /\ RevOf(L, i) = {} => RevSum(L, i) = 0
                     /\ e.kind = "reversal" /\ e.of = i => RevSum(M, i) = RevSum(L, i) + e.amount
                     /\ ~(e.kind = "reversal" /\ e.of = i) =>
                          RevOf(M, i) = RevOf(L, i) /\ RevSum(M, i) = RevSum(L, i)
  BY AppendSum
<1>4. \A j \in 1..n : L[j].amount \in Int
  BY <1>2, LedgerParts
<1> HIDE DEF M, n
<1>5. \A j \in DOMAIN M : M[j].kind = "reversal" => M[j].of \in {0} \cup DOMAIN M
  BY <1>2 DEF Covered
<1>6. ASSUME NEW i \in DOMAIN M, RevOf(M, i) # {}
      PROVE  -RevSum(M, i) <= M[i].amount
  <2>1. CASE e.kind = "reversal" /\ e.of = i
    <3>1. i \in 1..n /\ i # 0 /\ i \in Nat
      BY <1>1, <1>2, <2>1
    <3>2. -e.amount <= L[i].amount + RevSum(L, i) /\ RevSum(M, i) = RevSum(L, i) + e.amount
      BY <1>3, <2>1, <3>1
    <3>3. M[i].amount = L[i].amount /\ L[i].amount \in Int /\ RevSum(L, i) \in Int
      BY <1>2, <1>3, <1>4, <3>1
    <3> DEFINE a == e.amount
               b == L[i].amount
               c == RevSum(L, i)
    <3>4. a \in Int /\ b \in Int /\ c \in Int /\ -a <= b + c
      BY <1>1, <3>2, <3>3
    <3>5. RevSum(M, i) = c + a /\ M[i].amount = b
      BY <3>2, <3>3
    <3> HIDE DEF a, b, c
    <3>6. -(c + a) <= b
      BY <3>4
    <3>7. QED
      BY <3>5, <3>6
  <2>2. CASE ~(e.kind = "reversal" /\ e.of = i)
    <3>1. i \in Nat /\ RevOf(L, i) # {} /\ RevSum(M, i) = RevSum(L, i)
      BY <1>1, <1>2, <1>3, <1>6, <2>2
    <3>2. i \in 1..n
      <4>1. PICK j \in 1..n : L[j].kind = "reversal" /\ L[j].of = i
        BY <1>2, <3>1 DEF RevOf
      <4>2. QED
        BY <1>1, <1>2, <4>1 DEF Covered
    <3>3. QED
      BY <1>2, <3>1, <3>2 DEF Covered
  <2>3. QED
    BY <2>1, <2>2
<1>7. QED
  BY <1>5, <1>6 DEF Covered, M

\* AllCovered is inductive.
LEMMA NextAllCovered == TypeOK /\ AllCovered /\ [Next]_vars => AllCovered'
<1> SUFFICES ASSUME TypeOK, AllCovered, [Next]_vars PROVE AllCovered'
  OBVIOUS
<1>1. CASE Quiet
  BY <1>1 DEF Quiet, AllCovered
<1>2. ASSUME NEW r \in Riders, NEW kind \in Kinds, NEW ref \in TopUps \cup Keys \cup Jobs,
             NEW of \in Nat, NEW amount \in Int, Post(r, kind, ref, of, amount),
             kind = "reversal" => of \in {0} \cup DOMAIN ledger[r] /\ MayReverse(r, of, -amount)
      PROVE  AllCovered'
  <2> DEFINE e == Entry(r, kind, ref, of, amount)
  <2>1. /\ ledger'[r] = Append(ledger[r], e) /\ e \in LedgerEntries
        /\ \A s \in Riders \ {r} : ledger'[s] = ledger[s]
    BY <1>2, PostType
  <2>2. e.kind = kind /\ e.of = of /\ e.amount = amount
    BY DEF Entry
  <2> HIDE DEF e
  <2>3. ledger[r] \in Seq(LedgerEntries)
    BY DEF TypeOK
  <2>4. Reversed(r, of) = -RevSum(ledger[r], of)
    BY DEF Reversed, RevSum, SumOf, ReversalsOf, RevOf
  <2>5. RevSum(ledger[r], of) \in Int
    BY <2>1, <2>3, AppendSum
  <2>6. kind = "reversal" /\ of # 0 => -amount <= ledger[r][of].amount + RevSum(ledger[r], of)
    <3>1. of \in DOMAIN ledger[r] => ledger[r][of].amount \in Int
      BY <2>3, LedgerParts
    <3>2. QED
      BY <1>2, <2>4, <2>5, <3>1 DEF MayReverse
  <2>7. Covered(ledger[r])
    BY DEF AllCovered
  <2>8. Covered(Append(ledger[r], e))
    BY <1>2, <2>1, <2>2, <2>3, <2>6, <2>7, AppendCovered
  <2>9. QED
    BY <2>1, <2>8 DEF AllCovered
<1>3. ASSUME NEW t \in TopUps, NEW amount \in Nat, Credited(t, amount) PROVE AllCovered'
  <2>1. owner[t] \in Riders /\ Post(owner[t], "topup", t, 0, amount) /\ amount \in Int
    BY <1>3 DEF Credited, TypeOK
  <2>2. QED
    BY <2>1, <1>2 DEF Kinds
<1>4. ASSUME NEW r \in Riders, NEW kind \in OtherKinds, NEW ref \in Keys \cup Jobs, NEW of \in Nat,
             NEW amount \in Int, OtherPost(r, kind, ref, of, amount)
      PROVE  AllCovered'
  BY <1>4, <1>2 DEF OtherPost, OtherKinds
<1>5. QED
  BY <1>1, <1>3, <1>4, Moves

\* ReversalsWithinCredit for every instance: the console never takes back more
\* of an entry than it added, however many reversals name it and however they
\* interleave with the account's other movements.
THEOREM ReversalsCapped == Spec => []ReversalsWithinCredit
<1>1. Init => AllCovered
  BY DEF Init, AllCovered, Covered
<1>2. AllCovered => ReversalsWithinCredit
  BY DEF AllCovered, Covered, ReversalsWithinCredit, Reversed, RevSum, SumOf, ReversalsOf, RevOf
<1>3. QED
  BY <1>1, <1>2, NextAllCovered, TypeCorrect, PTL DEF Spec

-----------------------------------------------------------------------------
(***************************************************************************)
(* The balance and the ledger                                              *)
(***************************************************************************)
Balanced == \A r \in Riders : balance[r] = SumOf(ledger[r], DOMAIN ledger[r])

\* A movement moves the balance of its account and the sum of its ledger alike.
LEMMA NextBalanced == TypeOK /\ Balanced /\ [Next]_vars => Balanced'
<1> SUFFICES ASSUME TypeOK, Balanced, [Next]_vars PROVE Balanced'
  OBVIOUS
<1>1. CASE Quiet
  BY <1>1 DEF Quiet, Balanced
<1>2. ASSUME NEW r \in Riders, NEW kind \in Kinds, NEW ref \in TopUps \cup Keys \cup Jobs,
             NEW of \in Nat, NEW amount \in Int, Post(r, kind, ref, of, amount)
      PROVE  Balanced'
  <2> DEFINE e == Entry(r, kind, ref, of, amount)
  <2>1. /\ ledger'[r] = Append(ledger[r], e) /\ e \in LedgerEntries
        /\ \A s \in Riders \ {r} : ledger'[s] = ledger[s] /\ balance'[s] = balance[s]
        /\ balance'[r] = balance[r] + amount
    BY <1>2, PostType DEF Post, TypeOK
  <2>2. e.amount = amount
    BY DEF Entry
  <2> HIDE DEF e
  <2>3. SumOf(ledger'[r], DOMAIN ledger'[r]) = SumOf(ledger[r], DOMAIN ledger[r]) + amount
    BY <2>1, <2>2, WholeSum DEF TypeOK
  <2>4. QED
    BY <2>1, <2>3 DEF Balanced
<1>3. ASSUME NEW t \in TopUps, NEW amount \in Nat, Credited(t, amount) PROVE Balanced'
  <2>1. owner[t] \in Riders /\ Post(owner[t], "topup", t, 0, amount) /\ amount \in Int
    BY <1>3 DEF Credited, TypeOK
  <2>2. QED
    BY <2>1, <1>2 DEF Kinds
<1>4. ASSUME NEW r \in Riders, NEW kind \in OtherKinds, NEW ref \in Keys \cup Jobs, NEW of \in Nat,
             NEW amount \in Int, OtherPost(r, kind, ref, of, amount)
      PROVE  Balanced'
  BY <1>4, <1>2 DEF OtherPost, OtherKinds
<1>5. QED
  BY <1>1, <1>3, <1>4, Moves

\* BalanceIsSum for every instance: the nightly wallet-integrity check of the
\* balances, in the state of any moment, never finds a mismatch.
THEOREM BalanceTotals == Spec => []BalanceIsSum
<1>1. Init => Balanced
  <2> SUFFICES ASSUME Init, NEW r \in Riders PROVE balance[r] = SumOf(ledger[r], DOMAIN ledger[r])
    BY DEF Balanced
  <2>1. balance[r] = 0 /\ ledger[r] = <<>> /\ <<>> \in Seq(LedgerEntries) /\ DOMAIN <<>> = {}
    BY DEF Init
  <2>2. SumOf(<<>>, {}) = Total(AmountsOf(<<>>), {}) /\ Summable(AmountsOf(<<>>), {})
    BY <2>1, SumIs, PlacesSum
  <2>3. QED
    BY <2>1, <2>2, TotalType
<1>2. Balanced => BalanceIsSum
  BY DEF Balanced, BalanceIsSum, SumOf
<1>3. QED
  BY <1>1, <1>2, NextBalanced, TypeCorrect, PTL DEF Spec
=============================================================================
