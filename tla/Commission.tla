----------------------------- MODULE Commission ----------------------------
(***************************************************************************)
(* What a completed parcel owes: a rounded percentage of the fare, floored *)
(* against the suggested fare, and nothing for a rider's first jobs        *)
(* (packages/shared/src/policy.ts and money.ts). Amounts are in cents and  *)
(* a rate is a whole percentage.                                           *)
(***************************************************************************)
EXTENDS Integers

CONSTANTS
  BasisFloor,   \* basisFloorPct of the order's suggested fare, in cents
  FreeJobs      \* COMMISSION.freeFirstJobs

ASSUME CommissionAssumption == {BasisFloor, FreeJobs} \subseteq Nat

\* commissionBasis
Basis(fare) == IF fare < BasisFloor THEN BasisFloor ELSE fare

\* perRideCommission, on the basis of the fare: percentOf rounds half up.
CommissionOn(fare, rate) == (Basis(fare) * rate + 50) \div 100

\* isFreeJob, of a job's ordinal among the rider's completions.
IsFreeJob(ordinal) == 1 <= ordinal /\ ordinal <= FreeJobs

NoBill == [kind |-> "none", rate |-> 0, amount |-> 0]

\* chargeCommission: the ledger row a completion writes, if any.
Charge(ordinal, fare, rate) ==
  IF CommissionOn(fare, rate) = 0 THEN NoBill
  ELSE IF IsFreeJob(ordinal) THEN [kind |-> "free_job", rate |-> rate, amount |-> 0]
  ELSE [kind |-> "ride_commission", rate |-> rate, amount |-> CommissionOn(fare, rate)]

\* adjustFare: the difference of two commissions, each rounded on its own.
Correction(from, to, rate) == CommissionOn(to, rate) - CommissionOn(from, rate)
=============================================================================
