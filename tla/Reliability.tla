---------------------------- MODULE Reliability ----------------------------
(***************************************************************************)
(* A rider's standing: the score the trips move, the automatic hold it     *)
(* trips and clears, and the velocity guard (riders/reliability.ts with    *)
(* the weights of packages/shared/src/policy.ts). Pure: the handlers of    *)
(* Trip apply these operators under the rider's row lock.                  *)
(*                                                                         *)
(* Two things are left out. A hold from before the held_reason column has  *)
(* no reason and behaves like a reliability hold. And the velocity counts  *)
(* look 14 days back, which is longer than any behaviour checked.          *)
(***************************************************************************)
EXTENDS Integers

CONSTANTS
  MaxScore,            \* RELIABILITY.MAX (MIN is 0)
  HoldBelow,           \* RELIABILITY.ON_HOLD_BELOW
  ClearAt,             \* RELIABILITY.ON_HOLD_CLEAR_AT
  Recover,             \* RELIABILITY.RECOVER_PER_COMPLETION
  PrePickupCancel,     \* RELIABILITY.PENALTY.prePickupCancel
  UndeliveredPenalties,\* what undeliveredPenalty may return, by the reason given
  LowRating,           \* RELIABILITY.PENALTY.lowRating
  VelocityMin          \* UNDELIVERED_ABUSE.minCount

ASSUME ReliabilityAssumption ==
  /\ {MaxScore, HoldBelow, ClearAt, Recover, PrePickupCancel, LowRating} \subseteq Nat
  /\ HoldBelow <= ClearAt /\ ClearAt <= MaxScore
  /\ UndeliveredPenalties \subseteq Nat
  /\ VelocityMin \in Nat \ {0}

\* heldReason; "none" is a rider who is not on hold.
Holds == {"none", "reliability", "velocity"}

\* accountStatus, which only ops write.
Accounts == {"active", "suspended", "banned"}

\* The standing of a rider row. cooling: cooldownUntil is in the future.
Standings == [score : 0..MaxScore, hold : Holds, strikes : Nat, account : Accounts,
              online : BOOLEAN, cooling : BOOLEAN]

Fresh == [score |-> MaxScore, hold |-> "none", strikes |-> 0, account |-> "active",
          online |-> FALSE, cooling |-> FALSE]

Clamp(n) == IF n < 0 THEN 0 ELSE IF MaxScore < n THEN MaxScore ELSE n

\* What a low or a high score does to the hold that was there.
HoldAfter(hold, score, suspended) ==
  CASE score < HoldBelow /\ ~suspended -> IF hold = "none" THEN "reliability" ELSE hold
    [] score >= ClearAt /\ hold # "velocity" -> "none"
    [] OTHER -> hold

\* Faulty variants of ApplyDelta: no clamp, and a velocity hold that recovers.
ApplyDeltaUnclamped(st, delta, suspended) ==
  [st EXCEPT !.score = @ + delta, !.hold = HoldAfter(@, st.score + delta, suspended)]

ApplyDeltaSelfClears(st, delta, suspended) ==
  LET score == Clamp(st.score + delta)
  IN  [st EXCEPT !.score = score,
                 !.hold = IF score >= ClearAt THEN "none" ELSE HoldAfter(@, score, suspended)]

\* applyReliabilityDelta
ApplyDelta(st, delta, suspended) ==
  LET score == Clamp(st.score + delta)
  IN  [st EXCEPT !.score = score, !.hold = HoldAfter(@, score, suspended)]

\* shouldFlagUndeliveredVelocity: enough failed hand-offs, and half or more of
\* the finished ones (UNDELIVERED_ABUSE.rate is 0.5).
FlagsVelocity(undelivered, completed, suspended) ==
  /\ ~suspended
  /\ VelocityMin <= undelivered
  /\ completed <= undelivered

\* Faulty variant of Demote: the hold alone.
DemoteStaysOnline(before, after) == after

\* A hold newly applied pulls the rider offline in the same write.
Demote(before, after) ==
  [after EXCEPT !.online = @ /\ ~(before.hold = "none" /\ after.hold # "none")]
=============================================================================
