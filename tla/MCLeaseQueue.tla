---------------------------- MODULE MCLeaseQueue ----------------------------
(* Small instances of LeaseQueue for TLC. *)
EXTENDS LeaseQueue, TLC

\* Rows and worker processes are interchangeable.
Interchangeable == Permutations(Jobs) \cup Permutations(Workers)
=============================================================================
