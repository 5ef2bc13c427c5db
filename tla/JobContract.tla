---------------------------- MODULE JobContract ----------------------------
(***************************************************************************)
(* What the durable queue promises to the code that enqueues jobs, with no *)
(* worker, lease or clock in sight: a submitted job is started at most     *)
(* max_attempts times, may be started again until it settles, and once it  *)
(* has settled it stays settled until the scheduler forgets it.  The       *)
(* modules of the pipeline rely on this contract; LeaseQueue implements it.*)
(***************************************************************************)
EXTENDS Integers

CONSTANTS Jobs, Keys, AttemptLimits, NoKey

VARIABLES status, key, attempts, limit

cvars == <<status, key, attempts, limit>>

CInit ==
    /\ status = [j \in Jobs |-> "free"]
    /\ key = [j \in Jobs |-> NoKey]
    /\ attempts = [j \in Jobs |-> 0]
    /\ limit = [j \in Jobs |-> 0]

\* A key names at most one job that is not yet forgotten.
Submit(j, k, m) ==
    /\ status[j] = "free"
    /\ \A i \in Jobs : key[i] = k => status[i] \in {"free", "purged"}
    /\ status' = [status EXCEPT ![j] = "pending"]
    /\ key' = [key EXCEPT ![j] = k]
    /\ limit' = [limit EXCEPT ![j] = m]
    /\ UNCHANGED attempts

\* A job starts only while it has attempts left.
Begin(j) ==
    /\ status[j] = "pending"
    /\ attempts[j] < limit[j]
    /\ status' = [status EXCEPT ![j] = "processing"]
    /\ attempts' = [attempts EXCEPT ![j] = @ + 1]
    /\ UNCHANGED <<key, limit>>

Finish(j) ==
    /\ status[j] = "processing"
    /\ status' = [status EXCEPT ![j] = "completed"]
    /\ UNCHANGED <<key, attempts, limit>>

\* Some started jobs stop: those with attempts left wait for another one or are
\* given up (a permanent failure), those without are given up.
Interrupt(S, givenUp) ==
    /\ S # {}
    /\ givenUp \subseteq S
    /\ \A j \in S : status[j] = "processing"
    /\ \A j \in S \ givenUp : attempts[j] < limit[j]
    /\ status' = [j \in Jobs |-> IF j \in givenUp THEN "dead"
                                 ELSE IF j \in S THEN "pending" ELSE status[j]]
    /\ UNCHANGED <<key, attempts, limit>>

Forget(j) ==
    /\ status[j] \in {"completed", "dead"}
    /\ status' = [status EXCEPT ![j] = "purged"]
    /\ UNCHANGED <<key, attempts, limit>>

CNext ==
    \/ \E j \in Jobs : \/ \E k \in Keys, m \in AttemptLimits : Submit(j, k, m)
                       \/ Begin(j)
                       \/ Finish(j)
                       \/ Forget(j)
    \/ \E S \in SUBSET Jobs : \E givenUp \in SUBSET S : Interrupt(S, givenUp)

CSpec == CInit /\ [][CNext]_cvars
=============================================================================
