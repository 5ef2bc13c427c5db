----------------------------- MODULE MCTracking -----------------------------
(* Instances of Tracking for TLC. *)
EXTENDS Tracking, TLC

CONSTANTS r1, r2

TwoRefreshes == {r1, r2}

\* Refreshes are told apart by their state only.
AnyRefresh == Permutations({r1, r2})
=============================================================================
