-------------------------- MODULE LeaseQueueProofs --------------------------
(***************************************************************************)
(* Theorems about LeaseQueue, for every number of rows, processes, slots   *)
(* and database errors.                                                    *)
(***************************************************************************)
EXTENDS LeaseQueue, TLAPS

-----------------------------------------------------------------------------
(* Type correctness *)

\* The row that FAIL_SQL leaves behind, whichever branch it takes.
LEMMA FailRowType ==
    ASSUME TypeOK, NEW w, NEW j, NEW permanent \in BOOLEAN, FailRow(w, j, permanent)
    PROVE  /\ status' \in [Jobs -> RowStatus]
           /\ key' \in [Jobs -> Keys \cup {NoKey}]
           /\ attempts' \in [Jobs -> Nat]
           /\ limit' \in [Jobs -> Nat]
           /\ owner' \in [Jobs -> Workers \cup {NoWorker}]
           /\ beat' \in [Jobs -> {"none", "fresh", "stale"}]
           /\ due' \in [Jobs -> BOOLEAN]
<1> DEFINE buried == permanent \/ Exhausted(j)
<1>1. CASE Owns(w, j) /\ buried
  <2>1. due' = [due EXCEPT ![j] = due[j]]
    BY <1>1 DEF FailRow
  <2>2. due' = due
    BY <2>1, due \in [Jobs -> BOOLEAN], Zenon DEF TypeOK
  <2> QED BY <1>1, <2>2 DEF TypeOK, FailRow, RowStatus
<1>2. CASE Owns(w, j) /\ ~buried
  BY <1>2 DEF TypeOK, FailRow, RowStatus
<1>3. CASE ~Owns(w, j)
  BY <1>3 DEF TypeOK, FailRow, table
<1> QED BY <1>1, <1>2, <1>3

\* No slot step leaves the types: the steps of _slot_loop and _run_job.
LEMMA SlotStepType ==
    ASSUME TypeOK, NEW e \in Execs, SlotStep(e)
    PROVE  TypeOK'
<1>0. e[1] \in Workers BY DEF Execs
<1>1. CASE \E j \in Jobs : Claim(e, j)
  BY <1>0, <1>1 DEF TypeOK, Claim, ClaimRow, NoDbError, RowStatus, SlotState
<1>2. CASE RejectContract(e)
  BY <1>2 DEF TypeOK, RejectContract, NoDbError, table, SlotState
<1>3. CASE Start(e)
  BY <1>3 DEF TypeOK, Start, LeaveJob, NoDbError, SlotState, HbState
<1>4. CASE \E o \in {"returned", "raised", "raisedPermanent"} : HandlerEnds(e, o)
  BY <1>4 DEF TypeOK, HandlerEnds, NoDbError, table, SlotState
<1>5. CASE Complete(e)
  BY <1>5 DEF TypeOK, Complete, CompleteRow, LeaveJob, NoDbError, table, RowStatus,
              SlotState, HbState
<1>6. CASE Fail(e)
  BY <1>6, FailRowType DEF TypeOK, Fail, LeaveJob, NoDbError, SlotState, HbState
<1> QED BY <1>1, <1>2, <1>3, <1>4, <1>5, <1>6 DEF SlotStep

\* Nor does a database call that raises.
LEMMA DbErrorStepType ==
    ASSUME TypeOK, NEW e \in Execs, DbErrorStep(e)
    PROVE  TypeOK'
<1>0. e[1] \in Workers BY DEF Execs
<1>1. CASE ClaimFails(e)
  BY <1>0, <1>1 DEF TypeOK, ClaimFails, ClaimRow, LoseSlot, DbFails, table, RowStatus,
                    SlotState, HbState
<1>2. CASE StartFails(e)
  BY <1>2 DEF TypeOK, StartFails, DbFails, SlotState
<1>3. CASE HeartbeatFails(e)
  BY <1>3 DEF TypeOK, HeartbeatFails, DbFails, table, HbState
<1>4. CASE CompleteFails(e)
  BY <1>4 DEF TypeOK, CompleteFails, CompleteRow, DbFails, table, RowStatus, SlotState
<1>5. CASE FailFails(e)
  <2>1. CASE UNCHANGED table
    BY <1>5, <2>1 DEF TypeOK, FailFails, LoseSlot, DbFails, table, SlotState, HbState
  <2>2. CASE FailRow(e[1], held[e], pc[e] = "raisedPermanent")
    <3>1. (pc[e] = "raisedPermanent") \in BOOLEAN OBVIOUS
    <3>2. /\ status' \in [Jobs -> RowStatus]
          /\ key' \in [Jobs -> Keys \cup {NoKey}]
          /\ attempts' \in [Jobs -> Nat]
          /\ limit' \in [Jobs -> Nat]
          /\ owner' \in [Jobs -> Workers \cup {NoWorker}]
          /\ beat' \in [Jobs -> {"none", "fresh", "stale"}]
          /\ due' \in [Jobs -> BOOLEAN]
      BY <2>2, <3>1, FailRowType
    <3> QED BY <1>5, <3>2
            DEF TypeOK, FailFails, LoseSlot, DbFails, SlotState, HbState
  <2> QED BY <1>5, <2>1, <2>2 DEF FailFails
<1> QED BY <1>1, <1>2, <1>3, <1>4, <1>5 DEF DbErrorStep

\* Starting, draining, ending or killing a worker process, and its reclaimer,
\* keep the types.
LEMMA ProcessStepType ==
    ASSUME TypeOK, NEW w \in Workers, ProcessStep(w)
    PROVE  TypeOK'
<1>1. CASE StartWorker(w)
  BY <1>1 DEF TypeOK, StartWorker, table, ProcState, SlotState
<1>2. CASE Drain(w)
  BY <1>2 DEF TypeOK, Drain, table, ProcState, SlotState
<1>3. CASE Exit(w) \/ Crash(w)
  BY <1>3 DEF TypeOK, Exit, Crash, StopProcess, table, ProcState, SlotState, HbState
<1>4. CASE Reclaim(w)
  BY <1>4 DEF TypeOK, Reclaim, ReclaimRows, NoDbError, slots, RowStatus
<1>5. CASE ReclaimFails(w)
  BY <1>5 DEF TypeOK, ReclaimFails, ReclaimRows, DbFails, slots, table, RowStatus
<1> QED BY <1>1, <1>2, <1>3, <1>4, <1>5 DEF ProcessStep

\* Enqueueing, the passing of time and the retention purge keep the types.
LEMMA RowStepType ==
    ASSUME TypeOK, NEW j \in Jobs, RowStep(j)
    PROVE  TypeOK'
<1>1. CASE \E k \in Keys, m \in AttemptLimits : Enqueue(j, k, m)
  BY <1>1, ConstantsAssumption DEF TypeOK, Enqueue, slots, RowStatus
<1>2. CASE HeartbeatExpires(j)
  BY <1>2 DEF TypeOK, HeartbeatExpires, slots
<1>3. CASE BackoffElapses(j)
  BY <1>3 DEF TypeOK, BackoffElapses, slots
<1>4. CASE Purge(j)
  BY <1>4 DEF TypeOK, Purge, slots, RowStatus
<1> QED BY <1>1, <1>2, <1>3, <1>4 DEF RowStep

\* Every reachable state of the table jobs and of the worker processes is well
\* typed.
THEOREM TypeCorrect == Spec => []TypeOK
<1>1. Init => TypeOK
  BY DEF Init, TypeOK, RowStatus, ProcState, SlotState, HbState
<1>2. TypeOK /\ [Next]_vars => TypeOK'
  <2> SUFFICES ASSUME TypeOK, [Next]_vars PROVE TypeOK'
    OBVIOUS
  <2>1. CASE \E e \in Execs : SlotStep(e)
    BY <2>1, SlotStepType
  <2>2. CASE \E e \in Execs : Heartbeat(e)
    BY <2>2 DEF TypeOK, Heartbeat, NoDbError, HbState
  <2>3. CASE \E e \in Execs : DbErrorStep(e)
    BY <2>3, DbErrorStepType
  <2>4. CASE \E w \in Workers : ProcessStep(w)
    BY <2>4, ProcessStepType
  <2>5. CASE \E j \in Jobs : RowStep(j)
    BY <2>5, RowStepType
  <2>6. CASE UNCHANGED vars
    BY <2>6 DEF TypeOK, vars
  <2> QED BY <2>1, <2>2, <2>3, <2>4, <2>5, <2>6 DEF Next
<1> QED BY <1>1, <1>2, PTL DEF Spec

-----------------------------------------------------------------------------
(* What a step does to the rows *)

\* The effect of a claim on a row, without the promise that an attempt is left.
Starts(j) ==
    /\ status[j] = "pending"
    /\ status' = [status EXCEPT ![j] = "processing"]
    /\ attempts' = [attempts EXCEPT ![j] = @ + 1]
    /\ UNCHANGED <<key, limit>>

\* The ways a step may change the rows, as the contract sees them.
RowEffect ==
    \/ \E j \in Jobs, k \in Keys, m \in AttemptLimits : Contract!Submit(j, k, m)
    \/ \E j \in Jobs : Starts(j) \/ Contract!Finish(j) \/ Contract!Forget(j)
    \/ \E S \in SUBSET Jobs : \E givenUp \in SUBSET S : Contract!Interrupt(S, givenUp)
    \/ UNCHANGED Contract!cvars

\* A claim starts the row.
LEMMA ClaimEffect ==
    ASSUME NEW w, NEW j \in Jobs, Claimable(j), ClaimRow(w, j)
    PROVE  RowEffect
<1>1. Starts(j) BY DEF Claimable, ClaimRow, Starts
<1> QED BY <1>1 DEF RowEffect

\* COMPLETE_SQL finishes a row its caller owns, and touches no other.
LEMMA CompleteEffect ==
    ASSUME TypeOK, NEW w, NEW j, j \in Jobs, CompleteRow(w, j)
    PROVE  RowEffect
<1>1. CASE Owns(w, j)
  <2>1. Contract!Finish(j) BY <1>1 DEF CompleteRow, Owns, Contract!Finish
  <2> QED BY <2>1 DEF RowEffect
<1>2. CASE ~Owns(w, j)
  BY <1>2 DEF CompleteRow, RowEffect, Contract!cvars, table
<1> QED BY <1>1, <1>2

\* FAIL_SQL interrupts a row its caller owns: given up when the failure is
\* permanent or the attempts are used up.
LEMMA FailEffect ==
    ASSUME TypeOK, NEW w, NEW j \in Jobs, NEW permanent \in BOOLEAN,
           FailRow(w, j, permanent)
    PROVE  RowEffect
<1>1. CASE Owns(w, j) /\ (permanent \/ Exhausted(j))
  <2>1. Contract!Interrupt({j}, {j})
    BY <1>1 DEF TypeOK, FailRow, Owns, Contract!Interrupt
  <2> QED BY <2>1 DEF RowEffect
<1>2. CASE Owns(w, j) /\ ~(permanent \/ Exhausted(j))
  <2>1. Contract!Interrupt({j}, {})
    BY <1>2 DEF TypeOK, FailRow, Owns, Exhausted, Contract!Interrupt
  <2> QED BY <2>1 DEF RowEffect
<1>3. CASE ~Owns(w, j)
  BY <1>3 DEF FailRow, RowEffect, Contract!cvars, table
<1> QED BY <1>1, <1>2, <1>3

\* RECLAIM_SQL interrupts the stale rows it takes, all in one statement.
LEMMA ReclaimEffect ==
    ASSUME TypeOK, NEW S \in SUBSET StaleRows, ReclaimRows(S)
    PROVE  RowEffect
<1> DEFINE G == {j \in S : Exhausted(j)}
<1>1. S \in SUBSET Jobs /\ G \in SUBSET S BY DEF StaleRows
<1>2. CASE S = {}
  <2>1. status' = status BY <1>2 DEF TypeOK, ReclaimRows
  <2> QED BY <2>1 DEF ReclaimRows, RowEffect, Contract!cvars
<1>3. CASE S # {}
  <2>1. \A j \in S : status[j] = "processing" BY DEF StaleRows
  <2>2. \A j \in S \ G : attempts[j] < limit[j]
    BY <1>1 DEF TypeOK, Exhausted
  <2>3. Contract!Interrupt(S, G)
    BY <1>1, <1>3, <2>1, <2>2 DEF TypeOK, ReclaimRows, Contract!Interrupt
  <2> QED BY <1>1, <2>3 DEF RowEffect
<1> QED BY <1>2, <1>3

\* A slot that works on a job holds a row.
HoldsRow == \A e \in Execs : pc[e] \in Active => held[e] \in Jobs

\* Every step of the queue and its workers is one of the row effects.
LEMMA StepEffect ==
    ASSUME TypeOK, HoldsRow, [Next]_vars
    PROVE  RowEffect
<1>1. ASSUME NEW e \in Execs, SlotStep(e) PROVE RowEffect
  <2>1. CASE \E j \in Jobs : Claim(e, j)
    BY <2>1, ClaimEffect DEF Claim
  <2>2. CASE RejectContract(e) \/ Start(e)
            \/ \E o \in {"returned", "raised", "raisedPermanent"} : HandlerEnds(e, o)
    BY <2>2 DEF RejectContract, Start, HandlerEnds, RowEffect, Contract!cvars, table
  <2>3. CASE Complete(e)
    <3>1. held[e] \in Jobs BY <2>3 DEF HoldsRow, Complete, Active
    <3> QED BY <2>3, <3>1, CompleteEffect DEF Complete
  <2>4. CASE Fail(e)
    <3>1. held[e] \in Jobs BY <2>4 DEF HoldsRow, Fail, Active
    <3>2. (pc[e] = "raisedPermanent") \in BOOLEAN OBVIOUS
    <3> QED BY <2>4, <3>1, <3>2, FailEffect DEF Fail
  <2> QED BY <1>1, <2>1, <2>2, <2>3, <2>4 DEF SlotStep
<1>2. ASSUME NEW e \in Execs, DbErrorStep(e) PROVE RowEffect
  <2>0. UNCHANGED table => RowEffect BY DEF RowEffect, Contract!cvars, table
  <2>1. CASE ClaimFails(e)
    BY <2>0, <2>1, ClaimEffect DEF ClaimFails
  <2>2. CASE StartFails(e) \/ HeartbeatFails(e)
    BY <2>2 DEF StartFails, HeartbeatFails, RowEffect, Contract!cvars, table
  <2>3. CASE CompleteFails(e)
    <3>1. held[e] \in Jobs BY <2>3 DEF HoldsRow, CompleteFails, Active
    <3> QED BY <2>0, <2>3, <3>1, CompleteEffect DEF CompleteFails
  <2>4. CASE FailFails(e)
    <3>1. held[e] \in Jobs BY <2>4 DEF HoldsRow, FailFails, Active
    <3>2. (pc[e] = "raisedPermanent") \in BOOLEAN OBVIOUS
    <3> QED BY <2>0, <2>4, <3>1, <3>2, FailEffect DEF FailFails
  <2> QED BY <1>2, <2>1, <2>2, <2>3, <2>4 DEF DbErrorStep
<1>3. ASSUME NEW w \in Workers, ProcessStep(w) PROVE RowEffect
  <2>0. UNCHANGED table => RowEffect BY DEF RowEffect, Contract!cvars, table
  <2>1. CASE StartWorker(w) \/ Drain(w) \/ Exit(w) \/ Crash(w)
    BY <2>0, <2>1 DEF StartWorker, Drain, Exit, Crash, StopProcess
  <2>2. CASE Reclaim(w)
    BY <2>2, ReclaimEffect DEF Reclaim
  <2>3. CASE ReclaimFails(w)
    BY <2>0, <2>3, ReclaimEffect DEF ReclaimFails
  <2> QED BY <1>3, <2>1, <2>2, <2>3 DEF ProcessStep
<1>4. ASSUME NEW j \in Jobs, RowStep(j) PROVE RowEffect
  <2>1. ASSUME NEW k \in Keys, NEW m \in AttemptLimits, Enqueue(j, k, m)
        PROVE  RowEffect
    <3>1. Contract!Submit(j, k, m)
      BY <2>1 DEF TypeOK, Enqueue, InTable, RowStatus, Contract!Submit
    <3> QED BY <3>1 DEF RowEffect
  <2>2. CASE HeartbeatExpires(j) \/ BackoffElapses(j)
    BY <2>2 DEF HeartbeatExpires, BackoffElapses, RowEffect, Contract!cvars
  <2>3. CASE Purge(j)
    <3>1. Contract!Forget(j) BY <2>3 DEF Purge, Terminal, Contract!Forget
    <3> QED BY <3>1 DEF RowEffect
  <2> QED BY <1>4, <2>1, <2>2, <2>3 DEF RowStep
<1>5. ASSUME NEW e \in Execs, Heartbeat(e) PROVE RowEffect
  BY <1>5 DEF Heartbeat, RowEffect, Contract!cvars
<1>6. CASE UNCHANGED vars
  BY <1>6 DEF vars, RowEffect, Contract!cvars
<1> QED BY <1>1, <1>2, <1>3, <1>4, <1>5, <1>6 DEF Next

-----------------------------------------------------------------------------
(* The retry budget and the contract *)

\* RetryBudget is not inductive by itself: a row is submitted with the attempts
\* it was born with.
BudgetInv ==
    /\ RetryBudget
    /\ \A j \in Jobs : status[j] = "free" => attempts[j] = 0

\* A step with an effect the contract allows keeps every row within its attempts.
LEMMA BudgetStep ==
    ASSUME TypeOK, BudgetInv, RowEffect
    PROVE  BudgetInv'
<1>1. ASSUME NEW j \in Jobs, NEW k \in Keys, NEW m \in AttemptLimits,
             Contract!Submit(j, k, m)
      PROVE  BudgetInv'
  BY <1>1, ConstantsAssumption DEF TypeOK, BudgetInv, RetryBudget, Contract!Submit
<1>2. ASSUME NEW j \in Jobs, Starts(j) PROVE BudgetInv'
  BY <1>2 DEF TypeOK, BudgetInv, RetryBudget, Starts
<1>3. ASSUME NEW j \in Jobs, Contract!Finish(j) \/ Contract!Forget(j) PROVE BudgetInv'
  BY <1>3 DEF TypeOK, BudgetInv, RetryBudget, Contract!Finish, Contract!Forget
<1>4. ASSUME NEW S \in SUBSET Jobs, NEW G \in SUBSET S, Contract!Interrupt(S, G)
      PROVE  BudgetInv'
  BY <1>4 DEF TypeOK, BudgetInv, RetryBudget, Contract!Interrupt
<1>5. CASE UNCHANGED Contract!cvars
  BY <1>5 DEF BudgetInv, RetryBudget, Contract!cvars
<1> QED BY <1>1, <1>2, <1>3, <1>4, <1>5 DEF RowEffect

-----------------------------------------------------------------------------
(* What a slot holds *)

\* Slot e takes up row j under the number of its new attempt.
TakesUp(e, j) ==
    /\ pc[e] \notin Active
    /\ status[j] = "pending"
    /\ status' = [status EXCEPT ![j] = "processing"]
    /\ owner' = [owner EXCEPT ![j] = e[1]]
    /\ attempts' = [attempts EXCEPT ![j] = @ + 1]
    /\ pc' = [pc EXCEPT ![e] = "claimed"]
    /\ held' = [held EXCEPT ![e] = j]
    /\ lease' = [lease EXCEPT ![e] = attempts[j] + 1]

\* A slot that works after the step worked on the same row before it.
HoldsOn ==
    \A f \in Execs : pc'[f] \in Active =>
        pc[f] \in Active /\ held'[f] = held[f] /\ lease'[f] = lease[f]

SlotEffect ==
    \/ \E e \in Execs, j \in Jobs : TakesUp(e, j)
    \/ HoldsOn

\* A slot takes up a row only by claiming it.
LEMMA StepSlotEffect ==
    ASSUME TypeOK, [Next]_vars
    PROVE  SlotEffect
<1>1. ASSUME NEW e \in Execs, SlotStep(e) PROVE SlotEffect
  <2>1. ASSUME NEW j \in Jobs, Claim(e, j) PROVE SlotEffect
    <3>1. TakesUp(e, j)
      BY <2>1 DEF Claim, Claimable, ClaimRow, TakesUp, Active
    <3> QED BY <3>1 DEF SlotEffect
  <2>2. CASE RejectContract(e)
    BY <2>2 DEF TypeOK, RejectContract, SlotEffect, HoldsOn, Active
  <2>3. CASE Start(e)
    BY <2>3 DEF TypeOK, Start, LeaveJob, SlotEffect, HoldsOn, Active
  <2>4. CASE \E o \in {"returned", "raised", "raisedPermanent"} : HandlerEnds(e, o)
    BY <2>4 DEF TypeOK, HandlerEnds, SlotEffect, HoldsOn, Active
  <2>5. CASE Complete(e) \/ Fail(e)
    BY <2>5 DEF TypeOK, Complete, Fail, LeaveJob, SlotEffect, HoldsOn, Active
  <2> QED BY <1>1, <2>1, <2>2, <2>3, <2>4, <2>5 DEF SlotStep
<1>2. ASSUME NEW e \in Execs, DbErrorStep(e) PROVE SlotEffect
  <2>1. CASE ClaimFails(e) \/ FailFails(e)
    BY <2>1 DEF TypeOK, ClaimFails, FailFails, LoseSlot, SlotEffect, HoldsOn, Active
  <2>2. CASE StartFails(e) \/ CompleteFails(e) \/ HeartbeatFails(e)
    BY <2>2 DEF TypeOK, StartFails, CompleteFails, HeartbeatFails, SlotEffect, HoldsOn,
                Active
  <2> QED BY <1>2, <2>1, <2>2 DEF DbErrorStep
<1>3. ASSUME NEW w \in Workers, ProcessStep(w) PROVE SlotEffect
  <2>1. CASE StartWorker(w) \/ Drain(w)
    BY <2>1 DEF TypeOK, StartWorker, Drain, SlotEffect, HoldsOn, Active
  <2>2. CASE Exit(w) \/ Crash(w)
    BY <2>2 DEF TypeOK, Exit, Crash, StopProcess, SlotEffect, HoldsOn, Active
  <2>3. CASE Reclaim(w) \/ ReclaimFails(w)
    BY <2>3 DEF Reclaim, ReclaimFails, slots, SlotEffect, HoldsOn
  <2> QED BY <1>3, <2>1, <2>2, <2>3 DEF ProcessStep
<1>4. ASSUME NEW j \in Jobs, RowStep(j) PROVE SlotEffect
  BY <1>4 DEF RowStep, Enqueue, HeartbeatExpires, BackoffElapses, Purge, slots,
              SlotEffect, HoldsOn
<1>5. ASSUME NEW e \in Execs, Heartbeat(e) PROVE SlotEffect
  BY <1>5 DEF Heartbeat, SlotEffect, HoldsOn
<1>6. CASE UNCHANGED vars
  BY <1>6 DEF vars, SlotEffect, HoldsOn
<1> QED BY <1>1, <1>2, <1>3, <1>4, <1>5, <1>6 DEF Next

\* A row comes to a new owner only with a new attempt: no other statement writes
\* worker_id, except to clear it.
OwnerEffect ==
    \A i \in Jobs : \/ owner'[i] \in {owner[i], NoWorker}
                   \/ attempts'[i] > attempts[i]

\* The same for a claim, whether or not its slot lives to see the answer.
LEMMA ClaimOwner ==
    ASSUME TypeOK, NEW w, NEW j \in Jobs, ClaimRow(w, j)
    PROVE  OwnerEffect
  BY DEF TypeOK, ClaimRow, OwnerEffect

\* FAIL_SQL clears the owner or leaves it.
LEMMA FailOwner ==
    ASSUME TypeOK, NEW w, NEW j, NEW permanent, FailRow(w, j, permanent)
    PROVE  OwnerEffect
<1>1. owner' = owner \/ owner' = [owner EXCEPT ![j] = NoWorker]
  BY DEF FailRow, table
<1> QED BY <1>1 DEF TypeOK, OwnerEffect

\* Every step of the queue gives a row a new owner only by counting an attempt.
LEMMA StepOwner ==
    ASSUME TypeOK, [Next]_vars
    PROVE  OwnerEffect
<1>0. UNCHANGED owner => OwnerEffect
  BY DEF OwnerEffect
<1>1. ASSUME NEW w, NEW j, CompleteRow(w, j) PROVE OwnerEffect
  BY <1>0, <1>1 DEF CompleteRow, table
<1>2. ASSUME NEW e \in Execs, SlotStep(e) PROVE OwnerEffect
  <2>1. ASSUME NEW j \in Jobs, Claim(e, j) PROVE OwnerEffect
    BY <2>1, ClaimOwner DEF Claim
  <2>2. CASE RejectContract(e) \/ Start(e)
            \/ \E o \in {"returned", "raised", "raisedPermanent"} : HandlerEnds(e, o)
    BY <1>0, <2>2 DEF RejectContract, Start, HandlerEnds, table
  <2>3. CASE Complete(e) \/ Fail(e)
    BY <1>1, <2>3, FailOwner DEF Complete, Fail
  <2> QED BY <1>2, <2>1, <2>2, <2>3 DEF SlotStep
<1>3. ASSUME NEW e \in Execs, DbErrorStep(e) PROVE OwnerEffect
  <2>1. CASE ClaimFails(e)
    BY <1>0, <2>1, ClaimOwner DEF ClaimFails, table
  <2>2. CASE StartFails(e) \/ HeartbeatFails(e)
    BY <1>0, <2>2 DEF StartFails, HeartbeatFails, table
  <2>3. CASE CompleteFails(e) \/ FailFails(e)
    BY <1>0, <1>1, <2>3, FailOwner DEF CompleteFails, FailFails, table
  <2> QED BY <1>3, <2>1, <2>2, <2>3 DEF DbErrorStep
<1>4. ASSUME NEW w \in Workers, ProcessStep(w) PROVE OwnerEffect
  <2>1. CASE StartWorker(w) \/ Drain(w) \/ Exit(w) \/ Crash(w)
    BY <1>0, <2>1 DEF StartWorker, Drain, Exit, Crash, StopProcess, table
  <2>2. ASSUME NEW S \in SUBSET StaleRows, ReclaimRows(S) PROVE OwnerEffect
    BY <2>2 DEF TypeOK, ReclaimRows, OwnerEffect
  <2> QED BY <1>0, <1>4, <2>1, <2>2 DEF ProcessStep, Reclaim, ReclaimFails, table
<1>5. ASSUME NEW j \in Jobs, RowStep(j) PROVE OwnerEffect
  BY <1>0, <1>5 DEF RowStep, Enqueue, HeartbeatExpires, BackoffElapses, Purge
<1>6. ASSUME NEW e \in Execs, Heartbeat(e) PROVE OwnerEffect
  BY <1>0, <1>6 DEF Heartbeat
<1>7. CASE UNCHANGED vars
  BY <1>0, <1>7 DEF vars
<1> QED BY <1>2, <1>3, <1>4, <1>5, <1>6, <1>7 DEF Next

-----------------------------------------------------------------------------
(* The inductive invariant *)

\* Everything the theorems below need of a reachable state.
IndInv ==
    /\ TypeOK
    /\ BudgetInv
    /\ HoldsRow
    /\ LeasesUnique

\* Attempts are counted up and never down.
LEMMA AttemptsGrow ==
    ASSUME TypeOK, RowEffect
    PROVE  \A j \in Jobs : attempts'[j] \in Nat /\ attempts[j] <= attempts'[j]
  BY DEF TypeOK, RowEffect, Starts, Contract!Submit, Contract!Finish, Contract!Forget,
         Contract!Interrupt, Contract!cvars

\* A claim hands out a number that no other slot holds, because the numbers in
\* use do not exceed the count that the claim raises.
LEMMA LeaseStep ==
    ASSUME TypeOK, TypeOK', HoldsRow, LeasesUnique, RowEffect, SlotEffect
    PROVE  HoldsRow' /\ LeasesUnique'
<1>1. \A j \in Jobs : attempts'[j] \in Nat /\ attempts[j] <= attempts'[j]
  BY AttemptsGrow
<1>2. ASSUME NEW e \in Execs, NEW j \in Jobs, TakesUp(e, j)
      PROVE  HoldsRow' /\ LeasesUnique'
  <2>1. HoldsRow' BY <1>2 DEF TypeOK, HoldsRow, TakesUp
  <2>2. \A f \in Execs : f # e => pc'[f] = pc[f] /\ held'[f] = held[f] /\ lease'[f] = lease[f]
    BY <1>2 DEF TypeOK, TakesUp
  <2>3. held'[e] = j /\ lease'[e] = attempts[j] + 1 /\ attempts'[j] = attempts[j] + 1
    BY <1>2 DEF TypeOK, TakesUp
  <2>4. \A f \in Execs : f # e /\ pc[f] \in Active => lease[f] <= attempts[held[f]]
    BY DEF LeasesUnique
  <2>5. \A f \in Execs : f # e /\ pc'[f] \in Active
                            => lease'[f] <= attempts'[held'[f]]
    BY <1>1, <2>2, <2>4 DEF TypeOK, HoldsRow
  <2>6. \A f \in Execs : (f # e /\ pc'[f] \in Active /\ held'[f] = j)
                            => lease'[f] # lease'[e]
    BY <2>2, <2>3, <2>4 DEF TypeOK
  <2>7. \A f, g \in Execs : (f # e /\ g # e /\ f # g /\ pc'[f] \in Active
                                /\ pc'[g] \in Active /\ held'[f] = held'[g])
                            => lease'[f] # lease'[g]
    BY <2>2 DEF LeasesUnique
  <2>8. lease'[e] <= attempts'[held'[e]]
    BY <2>3 DEF TypeOK
  <2>9. LeasesUnique'
    BY <2>3, <2>5, <2>6, <2>7, <2>8 DEF LeasesUnique
  <2> QED BY <2>1, <2>9
<1>3. CASE HoldsOn
  <2>1. HoldsRow' BY <1>3 DEF HoldsRow, HoldsOn
  <2>2. \A f \in Execs : pc'[f] \in Active => lease'[f] <= attempts'[held'[f]]
    BY <1>1, <1>3 DEF TypeOK, HoldsRow, HoldsOn, LeasesUnique
  <2>3. LeasesUnique' BY <1>3, <2>2 DEF HoldsOn, LeasesUnique
  <2> QED BY <2>1, <2>3
<1> QED BY <1>2, <1>3 DEF SlotEffect

\* The inductive invariant holds in every reachable state.
LEMMA InvHolds == Spec => []IndInv
<1>1. Init => BudgetInv /\ HoldsRow /\ LeasesUnique
  BY DEF Init, BudgetInv, RetryBudget, HoldsRow, LeasesUnique, Active
<1>2. TypeOK /\ TypeOK' /\ BudgetInv /\ HoldsRow /\ LeasesUnique /\ [Next]_vars
        => BudgetInv' /\ HoldsRow' /\ LeasesUnique'
  BY StepEffect, StepSlotEffect, BudgetStep, LeaseStep
<1> QED BY <1>1, <1>2, TypeCorrect, PTL DEF Spec, IndInv

-----------------------------------------------------------------------------
(* Theorems *)

\* No row of jobs is claimed more than max_attempts times, and a pending row has
\* an attempt left, whatever fails and whoever takes the row back.
THEOREM BudgetKept == Spec => []RetryBudget
<1>1. IndInv => RetryBudget BY DEF IndInv, BudgetInv
<1> QED BY <1>1, InvHolds, PTL

\* The attempt number returned by claim identifies one execution, for any number
\* of processes and slots.
THEOREM LeasesAreUnique == Spec => []LeasesUnique
<1>1. IndInv => LeasesUnique BY DEF IndInv
<1> QED BY <1>1, InvHolds, PTL

\* Completed and dead rows are final: no late complete, fail or reclaim changes
\* them.
THEOREM SettledStaysSettled == Spec => SettledIsFinal
<1>1. IndInv /\ [Next]_vars =>
        [\A j \in Jobs : status[j] \in Terminal =>
            /\ status'[j] \in {status[j], "purged"}
            /\ attempts'[j] = attempts[j]]_vars
  <2> SUFFICES ASSUME IndInv, [Next]_vars, NEW j \in Jobs, status[j] \in Terminal
               PROVE  /\ status'[j] \in {status[j], "purged"}
                      /\ attempts'[j] = attempts[j]
    OBVIOUS
  <2>1. TypeOK /\ RowEffect BY StepEffect DEF IndInv
  <2> QED BY <2>1 DEF TypeOK, RowEffect, Terminal, Starts, Contract!Submit,
                      Contract!Finish, Contract!Forget, Contract!Interrupt,
                      Contract!cvars
<1> QED BY <1>1, InvHolds, PTL DEF Spec, SettledIsFinal

\* The leased table and its workers implement the contract that the pipeline
\* relies on.
THEOREM QueueImplementsContract == Spec => ImplementsContract
<1>1. Init => Contract!CInit BY DEF Init, Contract!CInit
<1>2. IndInv /\ [Next]_vars => [Contract!CNext]_(Contract!cvars)
  <2> SUFFICES ASSUME IndInv, [Next]_vars PROVE [Contract!CNext]_(Contract!cvars)
    OBVIOUS
  <2>1. RowEffect BY StepEffect DEF IndInv
  <2>2. ASSUME NEW j \in Jobs, Starts(j) PROVE Contract!CNext
    <3>1. Contract!Begin(j)
      BY <2>2 DEF IndInv, BudgetInv, RetryBudget, Starts, Contract!Begin
    <3> QED BY <3>1 DEF Contract!CNext
  <2> QED BY <2>1, <2>2 DEF RowEffect, Contract!CNext
<1> QED BY <1>1, <1>2, InvHolds, PTL DEF Spec, ImplementsContract, Contract!CSpec

\* The row of the latest claim belongs to the process that made it or to nobody.
LatestClaimOwns ==
    \A f \in Execs : (pc[f] \in Active /\ lease[f] = attempts[held[f]])
                        => owner[held[f]] \in {f[1], NoWorker}

\* A process whose row another process has claimed again is fenced off from
\* heartbeat, complete and fail, for any number of processes and slots.
THEOREM StaleWorkersFenced == Spec => []StaleWorkerFenced
<1>1. Init => LatestClaimOwns BY DEF Init, LatestClaimOwns, Active
<1>2. IndInv /\ LatestClaimOwns /\ [Next]_vars => LatestClaimOwns'
  <2> SUFFICES ASSUME IndInv, LatestClaimOwns, [Next]_vars, NEW f \in Execs,
                      pc'[f] \in Active, lease'[f] = attempts'[held'[f]]
               PROVE  owner'[held'[f]] \in {f[1], NoWorker}
    BY DEF LatestClaimOwns
  <2>1. SlotEffect /\ RowEffect BY StepSlotEffect, StepEffect DEF IndInv
  <2>2. ASSUME NEW e \in Execs, NEW j \in Jobs, TakesUp(e, j)
        PROVE  owner'[held'[f]] \in {f[1], NoWorker}
    <3>1. CASE f = e BY <2>2, <3>1 DEF IndInv, TypeOK, TakesUp
    <3>2. CASE f # e
      <4>1. pc[f] \in Active /\ held'[f] = held[f] /\ lease'[f] = lease[f]
        BY <2>2, <3>2 DEF IndInv, TypeOK, TakesUp
      <4>2. lease[f] <= attempts[held[f]] /\ held[f] \in Jobs
        BY <4>1 DEF IndInv, LeasesUnique, HoldsRow
      <4>3. held[f] # j BY <2>2, <4>1, <4>2 DEF IndInv, TypeOK, TakesUp
      <4> QED BY <2>2, <4>1, <4>2, <4>3 DEF IndInv, TypeOK, TakesUp, LatestClaimOwns
    <3> QED BY <3>1, <3>2
  <2>3. CASE HoldsOn
    <3>1. pc[f] \in Active /\ held'[f] = held[f] /\ lease'[f] = lease[f]
      BY <2>3 DEF HoldsOn
    <3>2. lease[f] <= attempts[held[f]] /\ held[f] \in Jobs
      BY <3>1 DEF IndInv, LeasesUnique, HoldsRow
    <3>3. attempts'[held[f]] \in Nat /\ attempts[held[f]] <= attempts'[held[f]]
      BY <2>1, <3>2, AttemptsGrow DEF IndInv
    <3>4. attempts[held[f]] = lease[f] /\ attempts'[held[f]] = attempts[held[f]]
      BY <3>1, <3>2, <3>3 DEF IndInv, TypeOK
    <3>5. owner'[held[f]] \in {owner[held[f]], NoWorker}
      BY <3>2, <3>4, StepOwner DEF IndInv, TypeOK, OwnerEffect
    <3> QED BY <3>1, <3>4, <3>5 DEF LatestClaimOwns
  <2> QED BY <2>1, <2>2, <2>3 DEF SlotEffect
<1>3. LatestClaimOwns => StaleWorkerFenced
  BY ConstantsAssumption DEF LatestClaimOwns, StaleWorkerFenced, Owns, Execs
<1> QED BY <1>1, <1>2, <1>3, InvHolds, PTL DEF Spec
=============================================================================
