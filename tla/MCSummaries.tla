----------------------------- MODULE MCSummaries -----------------------------
(* Instances of Summaries for TLC. *)
EXTENDS Summaries, TLC
=============================================================================
