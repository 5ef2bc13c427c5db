----------------------------- MODULE LeaseQueue -----------------------------
(***************************************************************************)
(* The durable job queue of app/queue.py (table jobs, sql/001_init.sql)    *)
(* and the worker processes of app/worker.py that run it.                  *)
(*                                                                         *)
(* A row of jobs is leased to a worker process: claim writes worker_id and *)
(* counts the attempt, the heartbeat loop renews the lease, complete and   *)
(* fail are accepted only from the owner, and the reclaimer of any worker  *)
(* takes back a row whose heartbeat is older than stale_after_seconds.     *)
(*                                                                         *)
(* Every SQL statement is one atomic step.  Time is abstracted to the two  *)
(* comparisons the code makes: whether run_at has passed (due) and whether *)
(* last_heartbeat is too old (beat).  The order of claims (ORDER BY        *)
(* priority, run_at) is left open: every caller uses the default priority, *)
(* and SKIP LOCKED skips rows that another session is looking at.          *)
(***************************************************************************)
EXTENDS Integers, FiniteSets

CONSTANTS
    Jobs,           \* rows the table jobs may ever hold (bound)
    Keys,           \* idempotency keys
    SummaryKeys,    \* keys of generate_process_summary jobs
    AttemptLimits,  \* values callers pass as max_attempts
    Workers,        \* worker ids: one per process ever started (bound)
    Slots,          \* slot indexes of a process: range(settings.concurrency)
    MaxDbErrors,    \* bound on database calls that raise
    NoWorker,       \* SQL NULL in worker_id
    NoJob,          \* no row in the hands of a slot
    NoKey           \* a row not yet inserted

\* _validate_max_attempts accepts 1..100; the rest is the choice of distinct
\* null values.
ASSUME ConstantsAssumption ==
    /\ SummaryKeys \subseteq Keys
    /\ AttemptLimits \subseteq 1..100
    /\ MaxDbErrors \in Nat
    /\ NoWorker \notin Workers
    /\ NoJob \notin Jobs
    /\ NoKey \notin Keys

VARIABLES
    \* table jobs
    status,     \* [Jobs -> RowStatus]
    key,        \* idempotency_key
    attempts,   \* attempts
    limit,      \* max_attempts
    owner,      \* worker_id
    beat,       \* last_heartbeat: NULL, recent, or older than stale_after
    due,        \* run_at <= NOW()
    \* worker processes
    proc,       \* [Workers -> life cycle of the process]
    reclaimer,  \* [Workers -> state of the task _reclaimer_loop]
    pc,         \* [Execs -> where _slot_loop of that slot is]
    held,       \* row returned by claim
    lease,      \* row["attempts"] as returned by claim
    hb,         \* state of heartbeat_task
    dbErrors    \* database calls that raised so far

table == <<status, key, attempts, limit, owner, beat, due>>
slots == <<pc, held, lease, hb>>
vars  == <<status, key, attempts, limit, owner, beat, due,
           proc, reclaimer, pc, held, lease, hb, dbErrors>>

Execs == Workers \X Slots

\* "free" is a row not yet inserted, "purged" one deleted by the scheduler.
RowStatus  == {"free", "pending", "processing", "completed", "dead", "purged"}
Terminal   == {"completed", "dead"}
InTable    == {"pending", "processing", "completed", "dead"}
ProcState  == {"new", "up", "draining", "down"}
SlotState  == {"off", "idle", "claimed", "running", "returned",
               "raised", "raisedPermanent", "lost"}
Active     == {"claimed", "running", "returned", "raised", "raisedPermanent"}
HbState    == {"none", "alive", "ended", "failed"}

TypeOK ==
    /\ status \in [Jobs -> RowStatus]
    /\ key \in [Jobs -> Keys \cup {NoKey}]
    /\ attempts \in [Jobs -> Nat]
    /\ limit \in [Jobs -> Nat]
    /\ owner \in [Jobs -> Workers \cup {NoWorker}]
    /\ beat \in [Jobs -> {"none", "fresh", "stale"}]
    /\ due \in [Jobs -> BOOLEAN]
    /\ proc \in [Workers -> ProcState]
    /\ reclaimer \in [Workers -> {"off", "running", "lost"}]
    /\ pc \in [Execs -> SlotState]
    /\ held \in [Execs -> Jobs \cup {NoJob}]
    /\ lease \in [Execs -> Nat]
    /\ hb \in [Execs -> HbState]
    /\ dbErrors \in Nat

Init ==
    /\ status = [j \in Jobs |-> "free"]
    /\ key = [j \in Jobs |-> NoKey]
    /\ attempts = [j \in Jobs |-> 0]
    /\ limit = [j \in Jobs |-> 0]
    /\ owner = [j \in Jobs |-> NoWorker]
    /\ beat = [j \in Jobs |-> "none"]
    /\ due = [j \in Jobs |-> FALSE]
    /\ proc = [w \in Workers |-> "new"]
    /\ reclaimer = [w \in Workers |-> "off"]
    /\ pc = [e \in Execs |-> "off"]
    /\ held = [e \in Execs |-> NoJob]
    /\ lease = [e \in Execs |-> 0]
    /\ hb = [e \in Execs |-> "none"]
    /\ dbErrors = 0

-----------------------------------------------------------------------------
(* The statements of app/queue.py *)

\* Slip: the WHERE clause forgets worker_id.
OwnsAnyWorker(w, j) == status[j] = "processing"

\* Slip: the WHERE clause forgets the status.
OwnsAnyStatus(w, j) == owner[j] = w

\* The WHERE clause of HEARTBEAT_SQL, COMPLETE_SQL and FAIL_SQL.
Owns(w, j) == owner[j] = w /\ status[j] = "processing"

\* ENQUEUE_SQL; a conflict on the idempotency key inserts nothing.  run_at is
\* NOW() for every caller.
Enqueue(j, k, m) ==
    /\ status[j] = "free"
    /\ \A i \in Jobs : key[i] = k => status[i] \notin InTable
    /\ status' = [status EXCEPT ![j] = "pending"]
    /\ key' = [key EXCEPT ![j] = k]
    /\ limit' = [limit EXCEPT ![j] = m]
    /\ due' = [due EXCEPT ![j] = TRUE]
    /\ UNCHANGED <<attempts, owner, beat, proc, reclaimer, slots, dbErrors>>

Claimable(j) == status[j] = "pending" /\ due[j]

\* CLAIM_JOB_SQL
ClaimRow(w, j) ==
    /\ status' = [status EXCEPT ![j] = "processing"]
    /\ owner' = [owner EXCEPT ![j] = w]
    /\ beat' = [beat EXCEPT ![j] = "fresh"]
    /\ attempts' = [attempts EXCEPT ![j] = @ + 1]
    /\ UNCHANGED <<key, limit, due>>

\* COMPLETE_SQL leaves worker_id in place.
CompleteRow(w, j) ==
    IF Owns(w, j)
    THEN /\ status' = [status EXCEPT ![j] = "completed"]
         /\ beat' = [beat EXCEPT ![j] = "fresh"]
         /\ UNCHANGED <<key, attempts, limit, owner, due>>
    ELSE UNCHANGED table

\* Slip: > for >=.
ExhaustedLate(j) == attempts[j] > limit[j]

Exhausted(j) == attempts[j] >= limit[j]

\* Slip: a status that the enum job_status does not have.
FailRowMisnamed(w, j, permanent) ==
    /\ Owns(w, j)
    /\ status' = [status EXCEPT ![j] = IF permanent \/ Exhausted(j)
                                       THEN "failed" ELSE "pending"]
    /\ due' = [due EXCEPT ![j] = FALSE]
    /\ owner' = [owner EXCEPT ![j] = NoWorker]
    /\ beat' = [beat EXCEPT ![j] = "none"]
    /\ UNCHANGED <<key, attempts, limit>>

\* FAIL_SQL: the retry waits for its backoff.
FailRow(w, j, permanent) ==
    IF Owns(w, j)
    THEN LET buried == permanent \/ Exhausted(j)
         IN  /\ status' = [status EXCEPT ![j] = IF buried THEN "dead" ELSE "pending"]
             /\ due' = [due EXCEPT ![j] = IF buried THEN @ ELSE FALSE]
             /\ owner' = [owner EXCEPT ![j] = NoWorker]
             /\ beat' = [beat EXCEPT ![j] = "none"]
             /\ UNCHANGED <<key, attempts, limit>>
    ELSE UNCHANGED table

\* Slip: only rows with an attempt left are taken back.
StaleRowsToRetry ==
    {j \in Jobs : status[j] = "processing" /\ beat[j] = "stale" /\ ~Exhausted(j)}

\* RECLAIM_SQL
StaleRows == {j \in Jobs : status[j] = "processing" /\ beat[j] = "stale"}

\* Slip: the interrupted attempt is not counted.
ReclaimRowsRefund(S) ==
    /\ status' = [j \in Jobs |-> IF j \in S THEN "pending" ELSE status[j]]
    /\ owner' = [j \in Jobs |-> IF j \in S THEN NoWorker ELSE owner[j]]
    /\ beat' = [j \in Jobs |-> IF j \in S THEN "none" ELSE beat[j]]
    /\ attempts' = [j \in Jobs |-> IF j \in S THEN attempts[j] - 1 ELSE attempts[j]]
    /\ UNCHANGED <<key, limit, due>>

ReclaimRows(S) ==
    /\ status' = [j \in Jobs |-> IF j \in S
                                 THEN IF Exhausted(j) THEN "dead" ELSE "pending"
                                 ELSE status[j]]
    /\ owner' = [j \in Jobs |-> IF j \in S THEN NoWorker ELSE owner[j]]
    /\ beat' = [j \in Jobs |-> IF j \in S THEN "none" ELSE beat[j]]
    /\ UNCHANGED <<key, attempts, limit, due>>

-----------------------------------------------------------------------------
(* One slot of a worker: _slot_loop, process_one and _run_job *)

\* The finally clause of _run_job: the heartbeat task is cancelled and awaited.
\* If it had ended with an exception, awaiting it raises out of _slot_loop and
\* the slot is lost; otherwise the loop goes on unless the process drains.
LeaveJob(e) ==
    /\ pc' = [pc EXCEPT ![e] = IF hb[e] = "failed" THEN "lost"
                               ELSE IF proc[e[1]] = "up" THEN "idle" ELSE "off"]
    /\ held' = [held EXCEPT ![e] = NoJob]
    /\ lease' = [lease EXCEPT ![e] = 0]
    /\ hb' = [hb EXCEPT ![e] = "none"]

\* The exception of a failed database call leaves _slot_loop for good.
LoseSlot(e) ==
    /\ pc' = [pc EXCEPT ![e] = "lost"]
    /\ held' = [held EXCEPT ![e] = NoJob]
    /\ lease' = [lease EXCEPT ![e] = 0]
    /\ hb' = [hb EXCEPT ![e] = "none"]

DbFails ==
    /\ dbErrors < MaxDbErrors
    /\ dbErrors' = dbErrors + 1

NoDbError == UNCHANGED dbErrors

\* process_one: stop_event is clear and claim returns a row.
Claim(e, j) ==
    /\ pc[e] = "idle"
    /\ proc[e[1]] = "up"
    /\ Claimable(j)
    /\ ClaimRow(e[1], j)
    /\ pc' = [pc EXCEPT ![e] = "claimed"]
    /\ held' = [held EXCEPT ![e] = j]
    /\ lease' = [lease EXCEPT ![e] = attempts[j] + 1]
    /\ UNCHANGED <<proc, reclaimer, hb>>
    /\ NoDbError

\* claim raises; the connection may break before or after the commit.
ClaimFails(e) ==
    /\ pc[e] = "idle"
    /\ proc[e[1]] = "up"
    /\ DbFails
    /\ \/ UNCHANGED table
       \/ \E j \in Jobs : Claimable(j) /\ ClaimRow(e[1], j)
    /\ LoseSlot(e)
    /\ UNCHANGED <<proc, reclaimer>>

\* _resolve_job_contract: an unknown task or malformed payload is permanent.
\* No heartbeat is started for it.
RejectContract(e) ==
    /\ pc[e] = "claimed"
    /\ pc' = [pc EXCEPT ![e] = "raisedPermanent"]
    /\ UNCHANGED <<table, proc, reclaimer, held, lease, hb>>
    /\ NoDbError

\* Summary jobs first confirm the lease in the transaction that publishes
\* "generating"; a lost lease abandons the job.  Then the heartbeat task and
\* the handler start.
Start(e) ==
    /\ pc[e] = "claimed"
    /\ UNCHANGED <<status, key, attempts, limit, owner, due, proc, reclaimer>>
    /\ NoDbError
    /\ IF key[held[e]] \in SummaryKeys /\ ~Owns(e[1], held[e])
       THEN LeaveJob(e) /\ UNCHANGED beat
       ELSE /\ pc' = [pc EXCEPT ![e] = "running"]
            /\ hb' = [hb EXCEPT ![e] = "alive"]
            /\ beat' = IF key[held[e]] \in SummaryKeys
                       THEN [beat EXCEPT ![held[e]] = "fresh"] ELSE beat
            /\ UNCHANGED <<held, lease>>

\* The start transaction of a summary job raises; a raise after its commit
\* leaves the renewed heartbeat behind.
StartFails(e) ==
    /\ pc[e] = "claimed"
    /\ key[held[e]] \in SummaryKeys
    /\ DbFails
    /\ \/ UNCHANGED beat
       \/ Owns(e[1], held[e]) /\ beat' = [beat EXCEPT ![held[e]] = "fresh"]
    /\ pc' = [pc EXCEPT ![e] = "raised"]
    /\ UNCHANGED <<status, key, attempts, limit, owner, due, proc, reclaimer,
                   held, lease, hb>>

\* One turn of _heartbeat_loop.
Heartbeat(e) ==
    /\ hb[e] = "alive"
    /\ IF Owns(e[1], held[e])
       THEN /\ beat' = [beat EXCEPT ![held[e]] = "fresh"]
            /\ UNCHANGED hb
       ELSE /\ hb' = [hb EXCEPT ![e] = "ended"]
            /\ UNCHANGED beat
    /\ UNCHANGED <<status, key, attempts, limit, owner, due, proc, reclaimer,
                   pc, held, lease>>
    /\ NoDbError

\* The heartbeat raises: the task ends, the handler runs on without it.
HeartbeatFails(e) ==
    /\ hb[e] = "alive"
    /\ DbFails
    /\ hb' = [hb EXCEPT ![e] = "failed"]
    /\ UNCHANGED <<table, proc, reclaimer, pc, held, lease>>

\* The handler returns, raises, raises PermanentTaskError, or is cancelled by
\* wait_for after task_timeout_seconds (a TimeoutError, like any exception).
HandlerEnds(e, outcome) ==
    /\ pc[e] = "running"
    /\ pc' = [pc EXCEPT ![e] = outcome]
    /\ UNCHANGED <<table, proc, reclaimer, held, lease, hb>>
    /\ NoDbError

Complete(e) ==
    /\ pc[e] = "returned"
    /\ CompleteRow(e[1], held[e])
    /\ LeaveJob(e)
    /\ UNCHANGED <<proc, reclaimer>>
    /\ NoDbError

\* complete raises: the exception branch of _run_job takes over, whether or not
\* the transaction was committed.
CompleteFails(e) ==
    /\ pc[e] = "returned"
    /\ DbFails
    /\ UNCHANGED table \/ CompleteRow(e[1], held[e])
    /\ pc' = [pc EXCEPT ![e] = "raised"]
    /\ UNCHANGED <<proc, reclaimer, held, lease, hb>>

Fail(e) ==
    /\ pc[e] \in {"raised", "raisedPermanent"}
    /\ FailRow(e[1], held[e], pc[e] = "raisedPermanent")
    /\ LeaveJob(e)
    /\ UNCHANGED <<proc, reclaimer>>
    /\ NoDbError

\* fail raises inside the exception branch: nothing catches it.
FailFails(e) ==
    /\ pc[e] \in {"raised", "raisedPermanent"}
    /\ DbFails
    /\ UNCHANGED table \/ FailRow(e[1], held[e], pc[e] = "raisedPermanent")
    /\ LoseSlot(e)
    /\ UNCHANGED <<proc, reclaimer>>

-----------------------------------------------------------------------------
(* The worker process *)

\* One turn of _reclaimer_loop; SKIP LOCKED passes over the stale rows that a
\* transaction of another session holds.
Reclaim(w) ==
    /\ reclaimer[w] = "running"
    /\ \E S \in SUBSET StaleRows : S # {} /\ ReclaimRows(S)
    /\ UNCHANGED <<proc, reclaimer, slots>>
    /\ NoDbError

\* The reclaim transaction raises: the task ends and nobody awaits it.
ReclaimFails(w) ==
    /\ reclaimer[w] = "running"
    /\ DbFails
    /\ UNCHANGED table \/ \E S \in SUBSET StaleRows : ReclaimRows(S)
    /\ reclaimer' = [reclaimer EXCEPT ![w] = "lost"]
    /\ UNCHANGED <<proc, slots>>

\* Worker.__init__ draws a new worker_id, run starts the slots.
StartWorker(w) ==
    /\ proc[w] = "new"
    /\ proc' = [proc EXCEPT ![w] = "up"]
    /\ reclaimer' = [reclaimer EXCEPT ![w] = "running"]
    /\ pc' = [e \in Execs |-> IF e[1] = w THEN "idle" ELSE pc[e]]
    /\ UNCHANGED <<table, held, lease, hb, dbErrors>>

\* Bound: the deployment restarts a worker that ends (restart: unless-stopped),
\* under a new id, and the ids of the model are finite.  A process ends only
\* while there is an id left for its successor.
Replaceable == \E v \in Workers : proc[v] = "new"

\* SIGTERM: stop_event is set, the reclaimer is cancelled, idle slots leave
\* their loop, active ones may finish.
Drain(w) ==
    /\ proc[w] = "up"
    /\ Replaceable
    /\ proc' = [proc EXCEPT ![w] = "draining"]
    /\ reclaimer' = [reclaimer EXCEPT ![w] = "off"]
    /\ pc' = [e \in Execs |-> IF e[1] = w /\ pc[e] = "idle" THEN "off" ELSE pc[e]]
    /\ UNCHANGED <<table, held, lease, hb, dbErrors>>

\* All tasks of the process are gone; its rows stay as they are.
StopProcess(w) ==
    /\ proc' = [proc EXCEPT ![w] = "down"]
    /\ reclaimer' = [reclaimer EXCEPT ![w] = "off"]
    /\ pc' = [e \in Execs |-> IF e[1] = w THEN "off" ELSE pc[e]]
    /\ held' = [e \in Execs |-> IF e[1] = w THEN NoJob ELSE held[e]]
    /\ lease' = [e \in Execs |-> IF e[1] = w THEN 0 ELSE lease[e]]
    /\ hb' = [e \in Execs |-> IF e[1] = w THEN "none" ELSE hb[e]]
    /\ UNCHANGED <<table, dbErrors>>

\* The slots have drained, or the grace period is over and the pending slots
\* are cancelled.
Exit(w) == proc[w] = "draining" /\ StopProcess(w)

\* SIGKILL, out of memory, loss of the host.
Crash(w) == proc[w] \in {"up", "draining"} /\ Replaceable /\ StopProcess(w)

-----------------------------------------------------------------------------
(* Time and retention *)

\* stale_after_seconds pass without a heartbeat.
HeartbeatExpires(j) ==
    /\ status[j] = "processing"
    /\ beat[j] = "fresh"
    /\ beat' = [beat EXCEPT ![j] = "stale"]
    /\ UNCHANGED <<status, key, attempts, limit, owner, due, proc, reclaimer,
                   slots, dbErrors>>

\* The backoff of _retry_backoff_seconds passes.
BackoffElapses(j) ==
    /\ status[j] = "pending"
    /\ ~due[j]
    /\ due' = [due EXCEPT ![j] = TRUE]
    /\ UNCHANGED <<status, key, attempts, limit, owner, beat, proc, reclaimer,
                   slots, dbErrors>>

\* Slip: the retention query forgets the status.
PurgeAny(j) ==
    /\ status[j] \in InTable
    /\ status' = [status EXCEPT ![j] = "purged"]
    /\ UNCHANGED <<key, attempts, limit, owner, beat, due, proc, reclaimer,
                   slots, dbErrors>>

\* purge_terminal_jobs of the scheduler, after job_retention_days.
Purge(j) ==
    /\ status[j] \in Terminal
    /\ status' = [status EXCEPT ![j] = "purged"]
    /\ UNCHANGED <<key, attempts, limit, owner, beat, due, proc, reclaimer,
                   slots, dbErrors>>

-----------------------------------------------------------------------------
SlotStep(e) ==
    \/ \E j \in Jobs : Claim(e, j)
    \/ RejectContract(e)
    \/ Start(e)
    \/ \E o \in {"returned", "raised", "raisedPermanent"} : HandlerEnds(e, o)
    \/ Complete(e)
    \/ Fail(e)

DbErrorStep(e) ==
    \/ ClaimFails(e)
    \/ StartFails(e)
    \/ HeartbeatFails(e)
    \/ CompleteFails(e)
    \/ FailFails(e)

ProcessStep(w) ==
    \/ StartWorker(w)
    \/ Drain(w)
    \/ Exit(w)
    \/ Crash(w)
    \/ Reclaim(w)
    \/ ReclaimFails(w)

RowStep(j) ==
    \/ \E k \in Keys, m \in AttemptLimits : Enqueue(j, k, m)
    \/ HeartbeatExpires(j)
    \/ BackoffElapses(j)
    \/ Purge(j)

Next ==
    \/ \E e \in Execs : SlotStep(e) \/ Heartbeat(e) \/ DbErrorStep(e)
    \/ \E w \in Workers : ProcessStep(w)
    \/ \E j \in Jobs : RowStep(j)

Spec == Init /\ [][Next]_vars

\* Nobody renews the lease of row j: no live heartbeat task of its owner.
Unattended(j) ==
    \A e \in Execs : ~(hb[e] = "alive" /\ held[e] = j /\ e[1] = owner[j])

\* The event loop keeps running the slots and the reclaimer of a live process,
\* a process that ended is started again, and time passes.  Crashes, signals,
\* database errors, submissions and purges are never promised.
Fairness ==
    /\ \A e \in Execs : WF_vars(SlotStep(e)) /\ WF_vars(Heartbeat(e))
    /\ \A w \in Workers : /\ WF_vars(StartWorker(w))
                          /\ WF_vars(Exit(w))
                          /\ WF_vars(Reclaim(w))
    /\ \A j \in Jobs : /\ WF_vars(BackoffElapses(j))
                       /\ WF_vars(Unattended(j) /\ HeartbeatExpires(j))

FairSpec == Spec /\ Fairness
-----------------------------------------------------------------------------
(* Properties *)

\* A row that can be claimed has an attempt left, and no row is ever claimed
\* more than max_attempts times, whoever fails it or takes it back: the claim
\* counts the attempt, FAIL_SQL and RECLAIM_SQL compare it.
RetryBudget ==
    \A j \in Jobs : /\ status[j] = "pending" => attempts[j] < limit[j]
                    /\ attempts[j] <= limit[j]

\* The attempt number returned by claim identifies one execution: two slots, of
\* one process or of two, never work on a row under the same number, and no slot
\* holds a number the row has not reached.
LeasesUnique ==
    \A e \in Execs : pc[e] \in Active =>
        /\ lease[e] <= attempts[held[e]]
        /\ \A f \in Execs : (f # e /\ pc[f] \in Active /\ held[f] = held[e])
                                => lease[f] # lease[e]

\* Once another process has claimed a row again, the process that lost it fails
\* the ownership test of heartbeat, complete and fail, however late its
\* executions come back: worker_id fences off processes, for any number of slots.
StaleWorkerFenced ==
    \A e, f \in Execs :
        (/\ pc[e] \in Active /\ pc[f] \in Active
         /\ held[e] = held[f] /\ e[1] # f[1]
         /\ lease[f] = attempts[held[f]])
            => ~Owns(e[1], held[e])

\* docs/migrations/worker-crash-recovery.md:11, read of executions: "the stale
\* worker can no longer heartbeat, complete, or fail the job after ownership
\* changes".  The slots of one process share worker_id, so an execution whose row
\* was reclaimed and claimed again by another slot of its own process still
\* passes the test; TLC finds it with one process of two slots.
StaleExecutionFenced ==
    \A e \in Execs : (pc[e] \in Active /\ Owns(e[1], held[e]))
                        => lease[e] = attempts[held[e]]

\* A completed or dead row changes no more, except that the scheduler deletes
\* it: neither a late execution nor a reclaimer resurrects it.
SettledIsFinal ==
    [][\A j \in Jobs : status[j] \in Terminal =>
            /\ status'[j] \in {status[j], "purged"}
            /\ attempts'[j] = attempts[j]]_vars

\* Every submitted job is completed or given up, through crashes, drains, lost
\* leases and retries, as long as database calls succeed.
EveryJobSettles ==
    \A j \in Jobs :
        status[j] = "pending" ~> status[j] \in Terminal \cup {"purged"} \/ dbErrors > 0

\* "A crashed worker must not leave a job permanently stuck in processing."
NeverStuckProcessing ==
    \A j \in Jobs : status[j] = "processing" ~> status[j] # "processing"

\* The queue and its workers implement the contract of module JobContract.
Contract == INSTANCE JobContract
ImplementsContract == Contract!CSpec
=============================================================================
