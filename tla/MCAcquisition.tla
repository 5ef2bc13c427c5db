--------------------------- MODULE MCAcquisition ---------------------------
(* Small instances of Acquisition for TLC. *)
EXTENDS Acquisition, TLC

CONSTANTS t1, p1, p2

\* Two public requests of one tenant.
SharedTenants == p1 :> t1 @@ p2 :> t1
=============================================================================
