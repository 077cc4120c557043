----------------------------- MODULE MCAuction -----------------------------
(***************************************************************************)
(* Small instances of Auction for TLC.                                     *)
(***************************************************************************)
EXTENDS Auction, TLC

\* Orders and riders are interchangeable where no order is a clone; used by
\* runs without liveness.
Symmetric == Permutations(Orders) \cup Permutations(Riders)
=============================================================================
