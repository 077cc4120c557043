------------------------------- MODULE Wallet -------------------------------
(***************************************************************************)
(* A rider's prepaid wallet (wallet/): top-ups through Paynow, the credits *)
(* and reversals of the console, and the commission of completed jobs.     *)
(*                                                                         *)
(* One top-up may be settled by the sweep, by Paynow's webhook and by an   *)
(* operator's re-poll at once. Each of them is a call that reads the row,  *)
(* asks the rail, reads the row again and only then writes; what is        *)
(* written is a compare-and-swap on the row's status, and a movement of    *)
(* the balance under the account's row lock. Time is three flags: the      *)
(* approve window of a top-up is over (lapsed), the sweep no longer looks  *)
(* at it (aged), a manual credit is out of the rolling day (today).        *)
(*                                                                         *)
(* The rail is external: charge is what Paynow's own record says.          *)
(***************************************************************************)
EXTENDS Integers, Sequences, FiniteSets, FiniteSetsExt

CONSTANTS
  Riders, TopUps,
  NoRider, NoTopUp,
  Asked,         \* the credit a top-up asks for, in cents
  Payments,      \* what the rail may report paid, fee included, in cents
  FeePerMille,   \* TOPUP.feePct, in tenths of a percent
  Callers,       \* the settling calls that may be under way at once
  LateRail,      \* the rail pays a charge it called failed
  Jobs, JobFee,  \* jobs, and the commission of one
  FreeJobs,      \* COMMISSION.freeFirstJobs
  Keys,          \* idempotency keys of the console's forms
  ManualCredit,  \* what one manual credit adds
  ManualPerDay,  \* manual credits the rolling daily cap allows
  Reversals,     \* amounts a reversal may take
  MaxEntries     \* bound: a ledger this long gets no manual credit and no job,
                 \* a longer one no reversal

ASSUME WalletAssumption ==
  /\ NoRider \notin Riders /\ NoTopUp \notin TopUps
  /\ Asked \in Nat \ {0} /\ Payments \subseteq Nat \ {0} /\ FeePerMille \in Nat
  /\ Callers \subseteq {"sweep", "webhook", "repoll"}
  /\ LateRail \in BOOLEAN
  /\ JobFee \in Nat \ {0} /\ FreeJobs \in Nat
  /\ ManualCredit \in Nat \ {0} /\ ManualPerDay \in Nat
  /\ Reversals \subseteq Nat \ {0} /\ MaxEntries \in Nat

VARIABLES
  status,     \* top_ups.status; "none" = no row yet
  owner,      \* top_ups.rider_id
  lapsed,     \* top-ups past expires_at
  aged,       \* top-ups the sweep has given up
  charge,     \* the rail's record of the charge: its state, what was paid, and
              \* whether it was paid after it had failed
  refused,    \* initiate calls the rail has refused, the decline not yet written
  call,       \* the settling calls under way
  anomalies,  \* topup.anomaly rows: <<top-up, kind>>
  heard,      \* declined top-ups whose paid webhook was acknowledged
  ledger,     \* commission_ledger, per rider, oldest first
  balance,    \* commission_accounts.balance
  trips,      \* riders.trips_count
  today       \* manual credits of the last 24 hours: <<rider, key>>

topUpRows == <<status, owner>>
clock == <<lapsed, aged>>
rail == <<charge, refused>>
money == <<ledger, balance, trips, today>>
vars == <<topUpRows, clock, rail, call, anomalies, heard, money>>

Unsettled == {"pending", "expired"}
Statuses == Unsettled \cup {"none", "declined", "confirmed"}
ChargeStates == {"none", "open", "refused", "failed", "paid"}
NoCharge == [state |-> "none", paid |-> 0, late |-> FALSE]

Stages == {"idle", "asked", "answered", "crediting"}
Idle == [stage |-> "idle", top |-> NoTopUp, seen |-> "none", answer |-> NoCharge]

\* The kinds of entry, and what each refers to: a top-up, a form, a job.
Kinds == {"topup", "manual", "free_job", "ride_commission", "reversal"}

Init ==
  /\ status = [t \in TopUps |-> "none"]
  /\ owner = [t \in TopUps |-> NoRider]
  /\ lapsed = {} /\ aged = {}
  /\ charge = [t \in TopUps |-> NoCharge]
  /\ refused = {}
  /\ call = [c \in Callers |-> Idle]
  /\ anomalies = {} /\ heard = {}
  /\ ledger = [r \in Riders |-> <<>>]
  /\ balance = [r \in Riders |-> 0]
  /\ trips = [r \in Riders |-> 0]
  /\ today = {}

-----------------------------------------------------------------------------
(***************************************************************************)
(* The ledger: every movement is an entry and a balance, written under the *)
(* account's row lock. `of` is the place of the entry a reversal names.    *)
(***************************************************************************)
Entry(r, kind, ref, of, amount) ==
  [kind |-> kind, ref |-> ref, of |-> of, amount |-> amount, after |-> balance[r] + amount]

\* Faulty variant of Post: the balance is not written.
PostEntryOnly(r, kind, ref, of, amount) ==
  /\ ledger' = [ledger EXCEPT ![r] = Append(@, Entry(r, kind, ref, of, amount))]
  /\ balance' = balance

Post(r, kind, ref, of, amount) ==
  /\ ledger' = [ledger EXCEPT ![r] = Append(@, Entry(r, kind, ref, of, amount))]
  /\ balance' = [balance EXCEPT ![r] = @ + amount]

Entries(r) == {ledger[r][i] : i \in DOMAIN ledger[r]}
HasEntry(kind, ref) == \E r \in Riders : \E e \in Entries(r) : e.kind = kind /\ e.ref = ref

\* topupFee, rounded up to the cent.
Fee(amount) == (amount * FeePerMille + 999) \div 1000

Fits(n, paid) == n + Fee(n) <= paid

\* netOfTopupFee, where its two loops stop: at a credit that fits the payment
\* while the next one does not.
NetOfFee(paid) == CHOOSE n \in 0..paid : Fits(n, paid) /\ ~Fits(n + 1, paid)

-----------------------------------------------------------------------------
(***************************************************************************)
(* Opening a top-up. createTopup writes the row, then calls the rail; its  *)
(* answer may be lost, and only a refusal changes the row.                 *)
(***************************************************************************)
\* Faulty variant of CreateTopup: nobody's row.
CreateTopupUnowned(t, r) ==
  /\ status[t] = "none"
  /\ status' = [status EXCEPT ![t] = "pending"]
  /\ UNCHANGED <<owner, clock, rail, call, anomalies, heard, money>>

CreateTopup(t, r) ==
  /\ status[t] = "none"
  /\ status' = [status EXCEPT ![t] = "pending"]
  /\ owner' = [owner EXCEPT ![t] = r]
  /\ UNCHANGED <<clock, rail, call, anomalies, heard, money>>

\* declineTopup: the compare-and-swap.
Decline(t) ==
  status' = [status EXCEPT ![t] = IF @ \in Unsettled THEN "declined" ELSE @]

InitiateRefused(t) ==
  /\ t \in refused
  /\ Decline(t)
  /\ refused' = refused \ {t}
  /\ UNCHANGED <<owner, clock, charge, call, anomalies, heard, money>>

InitiateLost(t) ==
  /\ t \in refused
  /\ refused' = refused \ {t}
  /\ UNCHANGED <<topUpRows, clock, charge, call, anomalies, heard, money>>

SetCharge(t, state, paid) ==
  /\ charge' = [charge EXCEPT ![t] =
                  [state |-> state, paid |-> paid, late |-> charge[t].state = "failed"]]
  /\ UNCHANGED <<topUpRows, clock, call, anomalies, heard, money>>

RailOpens(t) ==
  /\ status[t] # "none" /\ charge[t].state = "none"
  /\ SetCharge(t, "open", 0) /\ UNCHANGED refused

RailRefuses(t) ==
  /\ status[t] # "none" /\ charge[t].state = "none"
  /\ SetCharge(t, "refused", 0) /\ refused' = refused \cup {t}

\* The rider approves on the phone, at the rail's price or for less.
RailPaid(t, paid) ==
  /\ charge[t].state = "open" \/ (LateRail /\ charge[t].state = "failed")
  /\ SetCharge(t, "paid", paid) /\ UNCHANGED refused

RailFailed(t) ==
  /\ charge[t].state = "open"
  /\ SetCharge(t, "failed", 0) /\ UNCHANGED refused

Lapse(t) ==
  /\ status[t] # "none" /\ t \notin lapsed
  /\ lapsed' = lapsed \cup {t}
  /\ UNCHANGED <<topUpRows, aged, rail, call, anomalies, heard, money>>

AgeOut(t) ==
  /\ t \in lapsed \ aged
  /\ aged' = aged \cup {t}
  /\ UNCHANGED <<topUpRows, lapsed, rail, call, anomalies, heard, money>>

Expire(t) == status' = [status EXCEPT ![t] = IF @ = "pending" THEN "expired" ELSE @]

\* getTopup: the app polls an intent whose window is over.
GetTopup(t) ==
  /\ status[t] = "pending" /\ t \in lapsed
  /\ Expire(t)
  /\ UNCHANGED <<owner, clock, rail, call, anomalies, heard, money>>

-----------------------------------------------------------------------------
(***************************************************************************)
(* Settling a top-up. reconcileTopup reads the row and asks the rail;      *)
(* settleTopupFromRail applies the answer.                                 *)
(***************************************************************************)
\* The sweep asks about the unsettled ones it has not given up; a webhook that
\* says paid, and an operator, ask about any. A settled one is not asked about.
Reconcile(c, t) ==
  /\ call[c] = Idle
  /\ status[t] \in Unsettled
  /\ c = "sweep" => t \notin aged
  /\ c = "webhook" => charge[t].state = "paid"
  /\ call' = [call EXCEPT ![c] = [Idle EXCEPT !.stage = "asked", !.top = t, !.seen = status[t]]]
  /\ UNCHANGED <<topUpRows, clock, rail, anomalies, heard, money>>

\* The webhook's paid update meets a declined top-up (a confirmed one is left
\* alone too, and nothing is kept of it).
AlreadySettled(t) ==
  /\ "webhook" \in Callers /\ call["webhook"] = Idle
  /\ status[t] = "declined" /\ charge[t].state = "paid"
  /\ heard' = heard \cup {t}
  /\ UNCHANGED <<topUpRows, clock, rail, call, anomalies, money>>

\* The rail answers with its record of that moment.
Answer(c) ==
  /\ call[c].stage = "asked"
  /\ call' = [call EXCEPT ![c].stage = "answered", ![c].answer = charge[call[c].top]]
  /\ UNCHANGED <<topUpRows, clock, rail, anomalies, heard, money>>

\* The rail cannot be reached: the webhook applies the update it was sent
\* (Answer has the same effect there), the others give up.
AskFails(c) ==
  /\ c # "webhook" /\ call[c].stage = "asked"
  /\ call' = [call EXCEPT ![c] = Idle]
  /\ UNCHANGED <<topUpRows, clock, rail, anomalies, heard, money>>

\* An update that does not say paid is applied as it is.
FailedUpdate(t) ==
  /\ "webhook" \in Callers /\ call["webhook"] = Idle
  /\ charge[t].state = "failed" /\ status[t] # "none"
  /\ call' = [call EXCEPT !["webhook"] =
                [Idle EXCEPT !.stage = "answered", !.top = t, !.answer = charge[t]]]
  /\ UNCHANGED <<topUpRows, clock, rail, anomalies, heard, money>>

Answered(c, states) == call[c].stage = "answered" /\ call[c].answer.state \in states

\* The webhook said paid of a top-up that was declined.
Claimless(c) ==
  c = "webhook" /\ call[c].answer.state = "paid" /\ status[call[c].top] = "declined"

\* The end of a call.
Done(c) ==
  /\ call' = [call EXCEPT ![c] = Idle]
  /\ heard' = IF Claimless(c) THEN heard \cup {call[c].top} ELSE heard

SettlePending(c) ==
  /\ Answered(c, {"none", "open", "refused"})
  /\ IF call[c].seen = "pending" /\ call[c].top \in lapsed
     THEN Expire(call[c].top) ELSE UNCHANGED status
  /\ Done(c)
  /\ UNCHANGED <<owner, clock, rail, anomalies, money>>

SettleFailed(c) ==
  /\ Answered(c, {"failed"})
  /\ Decline(call[c].top)
  /\ Done(c)
  /\ UNCHANGED <<owner, clock, rail, anomalies, money>>

\* Faulty variant of Short: the amount paid is not asked.
ShortNever(answer) == FALSE

Short(answer) == answer.paid < Asked

SettleShort(c) ==
  /\ Answered(c, {"paid"}) /\ Short(call[c].answer)
  /\ anomalies' = anomalies \cup {<<call[c].top, "short_paid">>}
  /\ Done(c)
  /\ UNCHANGED <<topUpRows, clock, rail, money>>

SettleDeclined(c) ==
  /\ Answered(c, {"paid"}) /\ ~Short(call[c].answer)
  /\ status[call[c].top] = "declined"
  /\ anomalies' = anomalies \cup {<<call[c].top, "paid_on_declined">>}
  /\ Done(c)
  /\ UNCHANGED <<topUpRows, clock, rail, money>>

SettlePaid(c) ==
  /\ Answered(c, {"paid"}) /\ ~Short(call[c].answer)
  /\ status[call[c].top] # "declined"
  /\ call' = [call EXCEPT ![c].stage = "crediting"]
  /\ UNCHANGED <<topUpRows, clock, rail, anomalies, heard, money>>

\* Faulty variants of Claims: the late payment refused, and the status as it
\* was read.
ClaimsPendingOnly(t) == status[t] = "pending"
ClaimsAny(t) == TRUE

\* creditFromTopup: an expired intent is still claimed.
Claims(t) == status[t] \in Unsettled

CreditFromTopup(c) ==
  LET t == call[c].top
  IN  /\ call[c].stage = "crediting" /\ Claims(t)
      /\ status' = [status EXCEPT ![t] = "confirmed"]
      /\ Post(owner[t], "topup", t, 0, Asked)
      /\ Done(c)
      /\ UNCHANGED <<owner, clock, rail, anomalies, trips, today>>

CreditRefused(c) ==
  /\ call[c].stage = "crediting" /\ ~Claims(call[c].top)
  /\ Done(c)
  /\ UNCHANGED <<topUpRows, clock, rail, anomalies, money>>

-----------------------------------------------------------------------------
(***************************************************************************)
(* The console's corrections, and the commission of a completed job.       *)
(***************************************************************************)
HasRoom(r) == Len(ledger[r]) < MaxEntries

Worth(t) == LET net == NetOfFee(charge[t].paid) IN IF net < Asked THEN net ELSE Asked

\* Faulty variant of MayCreditShortfall: the row's status is not asked.
MayCreditAgain(t) == \E a \in anomalies : a[1] = t

\* creditTopupShortfall, under the top-up's row lock, of a reported payment.
MayCreditShortfall(t) ==
  /\ \E a \in anomalies : a[1] = t
  /\ status[t] \notin {"none", "confirmed"} /\ ~HasEntry("topup", t)

CreditTopupShortfall(t) ==
  /\ MayCreditShortfall(t)
  /\ Worth(t) > 0
  /\ status' = [status EXCEPT ![t] = "confirmed"]
  /\ Post(owner[t], "topup", t, 0, Worth(t))
  /\ UNCHANGED <<owner, clock, rail, call, anomalies, heard, trips, today>>

\* creditManual: the key is the new row's unique provider_ref.
CreditManual(r, k) ==
  /\ HasRoom(r)
  /\ ~HasEntry("manual", k)
  /\ Cardinality({d \in today : d[1] = r}) < ManualPerDay
  /\ Post(r, "manual", k, 0, ManualCredit)
  /\ today' = today \cup {<<r, k>>}
  /\ UNCHANGED <<topUpRows, clock, rail, call, anomalies, heard, trips>>

DayPasses(d) ==
  /\ today' = today \ {d}
  /\ UNCHANGED <<topUpRows, clock, rail, call, anomalies, heard, ledger, balance, trips>>

ReversalsOf(r, i) == {j \in DOMAIN ledger[r] : ledger[r][j].kind = "reversal" /\ ledger[r][j].of = i}
Reversed(r, i) == -MapThenSumSet(LAMBDA j : ledger[r][j].amount, ReversalsOf(r, i))

\* Faulty variant of MayReverse: against the entry alone, not what is left of it.
MayReverseWhole(r, i, amount) ==
  i # 0 => /\ ledger[r][i].amount > 0
           /\ amount <= ledger[r][i].amount

\* A named entry is a credit, and no more than is left of it is taken.
MayReverse(r, i, amount) ==
  i # 0 => /\ ledger[r][i].amount > 0
           /\ amount <= ledger[r][i].amount - Reversed(r, i)

\* reverseEntry, naming an entry or (i = 0) none.
ReverseEntry(r, i, amount, k) ==
  /\ Len(ledger[r]) <= MaxEntries
  /\ ~HasEntry("reversal", k)
  /\ MayReverse(r, i, amount)
  /\ Post(r, "reversal", k, i, -amount)
  /\ UNCHANGED <<topUpRows, clock, rail, call, anomalies, heard, trips, today>>

\* chargeCommission, in the transaction that completes the job: a free job is
\* a receipt of zero. A replayed completion stops at its own compare-and-swap.
CompleteJob(r, j) ==
  /\ HasRoom(r)
  /\ ~HasEntry("free_job", j) /\ ~HasEntry("ride_commission", j)
  /\ trips' = [trips EXCEPT ![r] = @ + 1]
  /\ IF trips[r] + 1 <= FreeJobs THEN Post(r, "free_job", j, 0, 0)
                                 ELSE Post(r, "ride_commission", j, 0, -JobFee)
  /\ UNCHANGED <<topUpRows, clock, rail, call, anomalies, heard, today>>

Next ==
  \/ \E t \in TopUps, r \in Riders : CreateTopup(t, r)
  \/ \E t \in TopUps : InitiateRefused(t)
  \/ \E t \in TopUps : InitiateLost(t)
  \/ \E t \in TopUps : RailOpens(t)
  \/ \E t \in TopUps : RailRefuses(t)
  \/ \E t \in TopUps, p \in Payments : RailPaid(t, p)
  \/ \E t \in TopUps : RailFailed(t)
  \/ \E t \in TopUps : Lapse(t)
  \/ \E t \in TopUps : AgeOut(t)
  \/ \E t \in TopUps : GetTopup(t)
  \/ \E c \in Callers, t \in TopUps : Reconcile(c, t)
  \/ \E t \in TopUps : AlreadySettled(t)
  \/ \E c \in Callers : Answer(c)
  \/ \E c \in Callers : AskFails(c)
  \/ \E t \in TopUps : FailedUpdate(t)
  \/ \E c \in Callers : SettlePending(c)
  \/ \E c \in Callers : SettleFailed(c)
  \/ \E c \in Callers : SettleShort(c)
  \/ \E c \in Callers : SettleDeclined(c)
  \/ \E c \in Callers : SettlePaid(c)
  \/ \E c \in Callers : CreditFromTopup(c)
  \/ \E c \in Callers : CreditRefused(c)
  \/ \E t \in TopUps : CreditTopupShortfall(t)
  \/ \E r \in Riders, k \in Keys : CreditManual(r, k)
  \/ \E d \in today : DayPasses(d)
  \/ \E r \in Riders, k \in Keys, amount \in Reversals :
       \E i \in {0} \cup DOMAIN ledger[r] : ReverseEntry(r, i, amount, k)
  \/ \E r \in Riders, j \in Jobs : CompleteJob(r, j)

Spec == Init /\ [][Next]_vars

\* The sweep runs every minute on a timer of its own and asks about every
\* top-up of its batch; a lookup that keeps failing is retried every tick and
\* in the end gets through; what follows an answer is not waiting for anyone.
SweepFairness ==
  /\ \A t \in TopUps :
       /\ SF_vars(Reconcile("sweep", t))
       /\ SF_vars(Answer("sweep") /\ call["sweep"].top = t)
  /\ WF_vars(SettlePending("sweep")) /\ WF_vars(SettleFailed("sweep"))
  /\ WF_vars(SettleShort("sweep")) /\ WF_vars(SettleDeclined("sweep"))
  /\ WF_vars(SettlePaid("sweep"))
  /\ WF_vars(CreditFromTopup("sweep")) /\ WF_vars(CreditRefused("sweep"))

FairSpec == Spec /\ SweepFairness

-----------------------------------------------------------------------------
(***************************************************************************)
(* Properties                                                              *)
(***************************************************************************)
Charges == [state : ChargeStates, paid : Payments \cup {0}, late : BOOLEAN]
Calls == [stage : Stages, top : TopUps \cup {NoTopUp}, seen : Unsettled \cup {"none"},
          answer : Charges]
LedgerEntries == [kind : Kinds, ref : TopUps \cup Keys \cup Jobs, of : Nat,
                  amount : Int, after : Int]

\* Every row and call has the shape the schema and the handlers give it, and a
\* top-up that exists has an owner to credit.
TypeOK ==
  /\ status \in [TopUps -> Statuses]
  /\ owner \in [TopUps -> Riders \cup {NoRider}]
  /\ \A t \in TopUps : status[t] # "none" => owner[t] \in Riders
  /\ lapsed \subseteq TopUps /\ aged \subseteq TopUps
  /\ charge \in [TopUps -> Charges]
  /\ refused \subseteq TopUps
  /\ call \in [Callers -> Calls]
  /\ \A c \in Callers : call[c].stage # "idle" =>
       call[c].top \in TopUps /\ status[call[c].top] # "none"
  /\ anomalies \subseteq TopUps \X {"short_paid", "paid_on_declined"}
  /\ heard \subseteq TopUps
  /\ ledger \in [Riders -> Seq(LedgerEntries)]
  /\ balance \in [Riders -> Int]
  /\ trips \in [Riders -> Nat]
  /\ today \subseteq Riders \X Keys

\* The cached balance is where the ledger ends, and every receipt's
\* balance-after follows from the one before it, however credits, debits and
\* reversals of one account interleave.
LedgerChains ==
  \A r \in Riders :
    LET n == Len(ledger[r])
    IN  /\ balance[r] = IF n = 0 THEN 0 ELSE ledger[r][n].after
        /\ \A i \in 1..n :
             ledger[r][i].after = ledger[r][i].amount + (IF i = 1 THEN 0 ELSE ledger[r][i - 1].after)

\* "Every account's cached balance equals the sum of its ledger rows" (the
\* first check of wallet-integrity), at any moment and not only at night.
BalanceIsSum ==
  \A r \in Riders :
    balance[r] = MapThenSumSet(LAMBDA i : ledger[r][i].amount, DOMAIN ledger[r])

\* Entry i of r's ledger is the credit of a top-up.
Credits(t, r, i) == ledger[r][i].kind = "topup" /\ ledger[r][i].ref = t

\* A top-up is confirmed when and only when it was credited, once, to its
\* owner, whichever of the sweep, the webhook, the re-poll and the console's
\* shortfall credit got there first (wallet-integrity checks 2 and 4).
CreditMatchesStatus ==
  \A t \in TopUps :
    /\ status[t] = "confirmed" <=> \E r \in Riders : \E i \in DOMAIN ledger[r] : Credits(t, r, i)
    /\ \A r \in Riders : \A i \in DOMAIN ledger[r] :
         Credits(t, r, i) =>
           r = owner[t] /\ \A j \in DOMAIN ledger[r] : Credits(t, r, j) => i = j

\* The wallet credits no money that did not move: a top-up's credit is within
\* what the rail says was paid.
NoUnpaidCredit ==
  \A t \in TopUps, r \in Riders : \A i \in DOMAIN ledger[r] :
    Credits(t, r, i) => charge[t].state = "paid" /\ ledger[r][i].amount <= charge[t].paid

\* A short payment credits the largest amount that fits it with its fee, to
\* the cent: neither the rider nor Lynia loses the rounding.
ShortPaymentWorth ==
  \A t \in TopUps, r \in Riders : \A i \in DOMAIN ledger[r] :
    LET credited == ledger[r][i].amount
    IN  Credits(t, r, i) /\ <<t, "short_paid">> \in anomalies =>
          Fits(credited, charge[t].paid) /\ ~Fits(credited + 1, charge[t].paid)

\* The reversals that name one entry take back no more than it added, although
\* each is within the cap on its own.
ReversalsWithinCredit ==
  \A r \in Riders : \A i \in DOMAIN ledger[r] :
    ReversalsOf(r, i) # {} => Reversed(r, i) <= ledger[r][i].amount

\* A settled top-up moves only when ops credit a payment on record: no late
\* answer, sweep or webhook re-opens it.
SettledIsFinal ==
  [][\A t \in TopUps :
       /\ status[t] = "confirmed" => status'[t] = "confirmed"
       /\ status[t] = "declined" =>
            \/ status'[t] = "declined"
            \/ status'[t] = "confirmed" /\ \E a \in anomalies : a[1] = t]_vars

\* What the ledgers hold, as postings of the abstract ledger.
Postings ==
  UNION {{[account |-> r, source |-> <<e.kind, e.ref>>, amount |-> e.amount] : e \in Entries(r)} :
           r \in Riders}

Promise == INSTANCE Ledger WITH Accounts <- Riders, funds <- balance, postings <- Postings

\* Each source moves a balance once, by what its entry says, and no entry is
\* ever changed or removed.
ImplementsLedger == Promise!LedgerSpec

\* A payment, on a charge the rail had not called failed, whose webhook never
\* came is found by the sweep: as long as it still looks at the top-up, the
\* payment ends on the balance or in front of ops.
PaidIsSettled ==
  \A t \in TopUps :
    charge[t].state = "paid" /\ ~charge[t].late ~>
      \/ status[t] = "confirmed"
      \/ \E a \in anomalies : a[1] = t
      \/ t \in aged

\* "if one ever does, the money moved and we didn't credit it, so make it loud
\* for ops rather than silently skipping": a paid webhook that was acknowledged
\* on a declined top-up left an anomaly row.
PaidOnDeclinedIsLoud ==
  \A t \in heard : status[t] = "declined" => \E a \in anomalies : a[1] = t
=============================================================================
