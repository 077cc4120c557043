------------------------------- MODULE MCTrip -------------------------------
(***************************************************************************)
(* Small instances of Trip for TLC.                                        *)
(***************************************************************************)
EXTENDS Trip, TLC

\* Order rows are interchangeable.
Symmetric == Permutations(Orders)
=============================================================================
