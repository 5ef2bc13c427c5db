----------------------------- MODULE Ingestion -----------------------------
(***************************************************************************)
(* How the lawsuit responses of the provider Judit become versions of a    *)
(* process: the callbacks of app/api.py, stage_version, finalize_version   *)
(* and preferred_judit_version of app/processes.py, and the finalizer job  *)
(* of app/judit_tasks.py.                                                  *)
(*                                                                         *)
(* One process (one CNJ) is modelled.  Its versions are identified by the  *)
(* response id they were staged from.  The provider sends, for each        *)
(* request, lawsuit responses and a completion, in any order, late,        *)
(* repeatedly or never; a response may be sent again with other data,      *)
(* another cached flag or for another request.                             *)
(*                                                                         *)
(* Transactions are split where another session can come in between: a     *)
(* callback transaction takes its timestamp, then stages under the lock of *)
(* the process row and looks for a completion, then commits; a finalizer   *)
(* prepares outside its transaction, reads the preferred version in it,    *)
(* and applies it under the lock.                                          *)
(***************************************************************************)
EXTENDS Integers, FiniteSets

CONSTANTS
    Requests,       \* Judit request ids
    Sources,        \* response ids: one version of the process each
    Lawsuits,       \* lawsuit callbacks: [cb : callback id, src, req, cached, data]
    Completions,    \* completion callbacks: [cb : callback id, req]
    Forgotten,      \* callback ids, requests and job keys old enough to be purged
    NoData,         \* data of a response without response_data
    Hooks,          \* callback transactions that may be open at once (bound)
    Runs,           \* handlers that may run at once: slots of the workers (bound)
    MaxAttempts,    \* max_attempts of finalize_judit_request
    OneWorker,      \* the handlers run in slots of one worker, which share its id
    NoCallback,     \* callback without callback_id
    NoSource,       \* SQL NULL in a version column
    NoRequest       \* judit_request_id where there is no row

ASSUME IngestionAssumption ==
    /\ \A ev \in Lawsuits :
         ev.src \in Sources /\ ev.req \in Requests /\ ev.cached \in BOOLEAN
    /\ \A ev \in Completions : ev.req \in Requests
    /\ MaxAttempts \in Nat \ {0}
    /\ OneWorker \in BOOLEAN
    /\ NoSource \notin Sources \cup Requests
    /\ NoRequest \notin Requests

VARIABLES
    deliveries,   \* callback ids in judit_deliveries
    completed,    \* requests in judit_request_completions
    hook,         \* [Hooks -> callback transaction]
    \* table process_versions
    made,         \* created_at; 0 where there is no row
    data,         \* source_payload
    askedBy,      \* judit_request_id
    cached,       \* source_cached_response
    finalized,    \* finalized
    derived,      \* semantic_fingerprint: what finalize_version was given
    equiv,        \* equivalent_to_version_id
    provenance,   \* rows in process_datajud_field_provenance
    \* table processes
    current,      \* current_version_id
    \* table jobs
    job,          \* status of the finalizer jobs
    attempts,     \* attempts of the finalizer jobs
    followUps,    \* generation jobs the finalizers have enqueued
    run           \* [Runs -> handler of a finalizer job]

rows  == <<made, data, askedBy, cached, finalized, derived, equiv, provenance, current>>
queue == <<job, attempts>>
vars  == <<deliveries, completed, hook, made, data, askedBy, cached, finalized,
           derived, equiv, provenance, current, job, attempts, followUps, run>>

\* judit-finalize:{r} is <<r, NoSource>>, judit-finalize-repair:{r}:{s} is <<r, s>>.
JobKeys == Requests \X (Sources \cup {NoSource})

\* summary:{s} or attachments:{s} is <<s, NoSource>>, summary-repair:{s}:{r} is <<s, r>>.
FollowUpKeys == Sources \X (Requests \cup {NoSource})

\* What finalize_version derives: the response data, enriched by DataJud or not.
Datas  == {ev.data : ev \in Lawsuits} \cup {NoData}
Fields == Datas \X BOOLEAN

Idle     == [pc |-> "idle"]
Closed   == [pc |-> "closed"]

TypeOK ==
    /\ completed \subseteq Requests
    /\ made \in [Sources -> Nat]
    /\ data \in [Sources -> Datas]
    /\ askedBy \in [Sources -> Requests \cup {NoRequest}]
    /\ cached \in [Sources -> BOOLEAN]
    /\ finalized \in [Sources -> BOOLEAN]
    /\ derived \in [Sources -> Fields]
    /\ equiv \in [Sources -> Sources \cup {NoSource}]
    /\ provenance \in [Sources -> BOOLEAN]
    /\ current \in Sources \cup {NoSource}
    /\ job \in [JobKeys -> {"free", "pending", "processing", "completed", "dead"}]
    /\ attempts \in [JobKeys -> Nat]
    /\ followUps \subseteq FollowUpKeys
    /\ \A h \in Hooks : hook[h].pc \in {"closed", "open", "staged"}
    /\ \A x \in Runs : run[x].pc \in {"idle", "prepared", "read", "applied"}

Init ==
    /\ deliveries = {}
    /\ completed = {}
    /\ hook = [h \in Hooks |-> Closed]
    /\ made = [s \in Sources |-> 0]
    /\ data = [s \in Sources |-> NoData]
    /\ askedBy = [s \in Sources |-> NoRequest]
    /\ cached = [s \in Sources |-> FALSE]
    /\ finalized = [s \in Sources |-> FALSE]
    /\ derived = [s \in Sources |-> <<NoData, FALSE>>]
    /\ equiv = [s \in Sources |-> NoSource]
    /\ provenance = [s \in Sources |-> FALSE]
    /\ current = NoSource
    /\ job = [k \in JobKeys |-> "free"]
    /\ attempts = [k \in JobKeys |-> 0]
    /\ followUps = {}
    /\ run = [x \in Runs |-> Idle]

-----------------------------------------------------------------------------
(* Shared pieces *)

Staged(s) == made[s] > 0

\* stage_version and finalize_version hold the row of processes until commit.
ProcessLocked == \E h \in Hooks : hook[h].pc = "staged"

\* enqueue with an idempotency key: a key in use inserts nothing.
WithJob(k) == IF job[k] = "free" THEN [job EXCEPT ![k] = "pending"] ELSE job

\* preferred_judit_version: fresh data before cached data, then the latest.
Preferred(r) ==
    LET mine == {s \in Sources : askedBy[s] = r /\ Staged(s)}
        best == {s \in mine : ~cached[s]}
        pool == IF best # {} THEN best ELSE mine
    IN  {s \in pool : \A o \in pool : made[o] <= made[s]}

-----------------------------------------------------------------------------
(* judit_webhook *)

\* NOW() of a transaction that begins: not before any instant still on record.
\* Instants are numbered without gaps and two may be the same.
Instants == 1..(Cardinality(Sources) + Cardinality(Hooks))

OnRecord == {0} \cup {made[s] : s \in Sources}
                \cup {hook[h].at : h \in {g \in Hooks : hook[g].pc # "closed"}}

IsNow(t) == \E u \in OnRecord : t \in {u, u + 1} /\ \A v \in OnRecord : v <= u

\* The transaction of a lawsuit callback begins; NOW() is fixed here.
OpenLawsuit(h, ev, t) ==
    /\ hook[h].pc = "closed"
    /\ IsNow(t)
    /\ hook' = [hook EXCEPT ![h] = [pc |-> "open", ev |-> ev, at |-> t]]
    /\ UNCHANGED <<deliveries, completed, rows, queue, followUps, run>>

\* _record_delivery, stage_version and _request_was_completed: a repeated
\* callback id ends the transaction, otherwise it locks the process row and
\* notes whether the completion is there yet.
StageLawsuit(h) ==
    /\ hook[h].pc = "open"
    /\ ~ProcessLocked
    /\ hook' = [hook EXCEPT ![h] =
                    IF @.ev.cb \in deliveries THEN Closed
                    ELSE [pc |-> "staged", ev |-> @.ev, at |-> @.at,
                          late |-> @.ev.req \in completed]]
    /\ UNCHANGED <<deliveries, completed, rows, queue, followUps, run>>

\* The columns of the upsert that keep their value in a finalized row.
Upsert(s, column, value) == [column EXCEPT ![s] = IF finalized[s] THEN @ ELSE value]

\* Mutant of StageVersion: the CASE on finalized is missing for source_payload.
StageVersionRefresh(ev, t) ==
    /\ made' = [made EXCEPT ![ev.src] = IF @ = 0 THEN t ELSE @]
    /\ data' = [data EXCEPT ![ev.src] = ev.data]
    /\ askedBy' = Upsert(ev.src, askedBy, ev.req)
    /\ cached' = Upsert(ev.src, cached, ev.cached)
    /\ UNCHANGED <<finalized, derived, equiv, provenance, current>>

\* The upsert of stage_version: a finalized row keeps its source; any other takes
\* source, request and cached flag of the latest callback.
StageVersion(ev, t) ==
    /\ made' = [made EXCEPT ![ev.src] = IF @ = 0 THEN t ELSE @]
    /\ data' = Upsert(ev.src, data, ev.data)
    /\ askedBy' = Upsert(ev.src, askedBy, ev.req)
    /\ cached' = Upsert(ev.src, cached, ev.cached)
    /\ UNCHANGED <<finalized, derived, equiv, provenance, current>>

\* The transaction commits: delivery, version and repair job become visible.
CommitLawsuit(h) ==
    /\ hook[h].pc = "staged"
    /\ LET ev == hook[h].ev
       IN  /\ deliveries' = deliveries \cup ({ev.cb} \ {NoCallback})
           /\ StageVersion(ev, hook[h].at)
           /\ job' = IF hook[h].late THEN WithJob(<<ev.req, ev.src>>) ELSE job
    /\ hook' = [hook EXCEPT ![h] = Closed]
    /\ UNCHANGED <<completed, attempts, followUps, run>>

\* The API process dies or the database refuses the commit.
AbortLawsuit(h) ==
    /\ hook[h].pc \in {"open", "staged"}
    /\ hook' = [hook EXCEPT ![h] = Closed]
    /\ UNCHANGED <<deliveries, completed, rows, queue, followUps, run>>

\* A completion callback: _record_request_completion and the finalizer job.
ReceiveCompletion(ev) ==
    /\ ev.cb \notin deliveries
    /\ deliveries' = deliveries \cup ({ev.cb} \ {NoCallback})
    /\ completed' = completed \cup {ev.req}
    /\ job' = WithJob(<<ev.req, NoSource>>)
    /\ UNCHANGED <<hook, rows, attempts, followUps, run>>

-----------------------------------------------------------------------------
(* The scheduler forgets what has outlived its retention; the provider may     *)
(* send a forgotten callback again.                                            *)

PurgeDelivery(cb) ==
    /\ cb \in deliveries
    /\ deliveries' = deliveries \ {cb}
    /\ UNCHANGED <<completed, hook, rows, queue, followUps, run>>

PurgeCompletion(r) ==
    /\ r \in completed
    /\ completed' = completed \ {r}
    /\ UNCHANGED <<deliveries, hook, rows, queue, followUps, run>>

\* No handler outlives the retention of its job.
PurgeJob(k) ==
    /\ job[k] \in {"completed", "dead"}
    /\ \A x \in Runs : run[x].pc # "idle" => run[x].key # k
    /\ job' = [job EXCEPT ![k] = "free"]
    /\ attempts' = [attempts EXCEPT ![k] = 0]
    /\ UNCHANGED <<deliveries, completed, hook, rows, followUps, run>>

-----------------------------------------------------------------------------
(* finalize_judit_request, over the contract of module JobContract *)

\* No lawsuit response, or one without response data.
NothingToFinalize(r) ==
    Preferred(r) = {} \/ \E s \in Preferred(r) : data[s] = NoData

\* A worker starts the job and the handler prepares the fields of the preferred
\* version, if there is one, outside of any transaction.  DataJud enriches a
\* version that is not finalized, or is not available.
Prepare(x, k) ==
    /\ run[x].pc = "idle"
    /\ job[k] = "pending"
    /\ job' = [job EXCEPT ![k] = "processing"]
    /\ attempts' = [attempts EXCEPT ![k] = @ + 1]
    /\ \/ /\ NothingToFinalize(k[1])
          /\ run' = [run EXCEPT ![x] = [pc |-> "prepared", key |-> k, lease |-> attempts[k] + 1,
                                        src |-> NoSource]]
       \/ \E s \in Preferred(k[1]), enriched \in BOOLEAN :
            /\ data[s] # NoData
            /\ finalized[s] => ~enriched
            /\ run' = [run EXCEPT ![x] =
                         [pc |-> "prepared", key |-> k, lease |-> attempts[k] + 1,
                          src |-> s, fields |-> <<data[s], enriched>>]]
    /\ UNCHANGED <<deliveries, completed, hook, rows, followUps>>

\* The handler's transaction reads the preferred version again, with its cached
\* flag, before it takes any lock.  Without one, or with one that has no response
\* data, the handler is done.  The prepared fields are used if the version is the
\* one prepared for.
Read(x) ==
    /\ run[x].pc = "prepared"
    /\ \/ /\ NothingToFinalize(run[x].key[1])
          /\ run' = [run EXCEPT ![x] = [pc |-> "applied", key |-> @.key, lease |-> @.lease]]
       \/ \E s \in Preferred(run[x].key[1]) :
            /\ data[s] # NoData
            /\ run' = [run EXCEPT ![x] =
                         [pc |-> "read", key |-> @.key, lease |-> @.lease, src |-> s,
                          cached |-> cached[s],
                          fields |-> IF @.src = s THEN @.fields ELSE <<data[s], FALSE>>]]
    /\ UNCHANGED <<deliveries, completed, hook, rows, queue, followUps>>

\* Mutant of Unchanged: the fingerprint leaves out the fields DataJud enriches.
UnchangedPartly(f) == current # NoSource /\ derived[current][1] = f[1]

\* Mutant of Outranks: the last finalizer wins.
OutranksAlways(s) == TRUE

\* finalize_version under the locks of process and candidate: the candidate is
\* set aside if the current version has the same fingerprint, and promoted
\* otherwise unless the current version was staged later.
Unchanged(f) == current # NoSource /\ derived[current] = f

Outranks(s) == current = NoSource \/ made[s] >= made[current]

FinalizeVersion(s, f) ==
    IF finalized[s]
    THEN UNCHANGED <<made, data, askedBy, cached, finalized, derived, equiv, current>>
    ELSE /\ finalized' = [finalized EXCEPT ![s] = TRUE]
         /\ derived' = [derived EXCEPT ![s] = f]
         /\ equiv' = [equiv EXCEPT ![s] = IF Unchanged(f) THEN current ELSE NoSource]
         /\ current' = IF ~Unchanged(f) /\ Outranks(s) THEN s ELSE current
         /\ UNCHANGED <<made, data, askedBy, cached>>

\* The current version has a summary that may be published: one of its
\* generation jobs has delivered, which module Ingestion leaves open.
MayReuseSummary == \E k \in followUps : k[1] = current'

\* Mutant of FollowUp: promotion is taken for the first promotion only.
FollowUpOnce(s, r, fromCache) ==
    followUps' = IF current = NoSource /\ current' = s /\ ~fromCache
                 THEN followUps \cup {<<s, NoSource>>} ELSE followUps

\* What finalizing s for request r enqueues: the attachments or summary job of a
\* promoted version that did not come from the cache when it was read, nothing if
\* the summary of the current version can be reused, else the repair of the
\* version s was set aside for.
FollowUp(s, r, fromCache) ==
    \/ /\ current' = s /\ ~fromCache
       /\ followUps' = followUps \cup {<<s, NoSource>>}
    \/ /\ ~(current' = s /\ ~fromCache)
       /\ \/ /\ MayReuseSummary
             /\ UNCHANGED followUps
          \/ followUps' = IF current' # s /\ equiv'[s] # NoSource
                          THEN followUps \cup {<<equiv'[s], r>>} ELSE followUps

\* The transaction: the version is finalized, the DataJud decisions that were
\* prepared replace those on record, and the follow-up job is enqueued.
Apply(x) ==
    /\ run[x].pc = "read"
    /\ ~ProcessLocked
    /\ LET s == run[x].src
       IN  /\ FinalizeVersion(s, run[x].fields)
           /\ provenance' = [provenance EXCEPT ![s] = @ \/ run[x].fields[2]]
           /\ FollowUp(s, run[x].key[1], run[x].cached)
    /\ run' = [run EXCEPT ![x] = [pc |-> "applied", key |-> @.key, lease |-> @.lease]]
    /\ UNCHANGED <<deliveries, completed, hook, queue>>

\* A worker ends a job only under its own id; a handler whose job was started
\* again is kept from it in another worker, not in another slot of the same one.
HoldsLease(x) ==
    /\ job[run[x].key] = "processing"
    /\ OneWorker \/ attempts[run[x].key] = run[x].lease

Complete(x) ==
    /\ run[x].pc = "applied"
    /\ job' = IF HoldsLease(x) THEN [job EXCEPT ![run[x].key] = "completed"] ELSE job
    /\ run' = [run EXCEPT ![x] = Idle]
    /\ UNCHANGED <<deliveries, completed, hook, rows, attempts, followUps>>

\* Mutant: retries without end.

GiveBackAlways(k) == [job EXCEPT ![k] = IF attempts[k] > MaxAttempts THEN "dead" ELSE "pending"]

GiveBack(k) == [job EXCEPT ![k] = IF attempts[k] >= MaxAttempts THEN "dead" ELSE "pending"]

\* The handler raises or times out; an open transaction is rolled back.
Fail(x) ==
    /\ run[x].pc # "idle"
    /\ job' = IF HoldsLease(x) THEN GiveBack(run[x].key) ELSE job
    /\ run' = [run EXCEPT ![x] = Idle]
    /\ UNCHANGED <<deliveries, completed, hook, rows, attempts, followUps>>

\* Mutant of Reclaim: only jobs with an attempt left are taken back.
ReclaimToRetry(k) ==
    /\ job[k] = "processing" /\ attempts[k] < MaxAttempts
    /\ job' = GiveBack(k)
    /\ UNCHANGED <<deliveries, completed, hook, rows, attempts, followUps, run>>

\* The lease expires; the handler may still be running.
Reclaim(k) ==
    /\ job[k] = "processing"
    /\ job' = GiveBack(k)
    /\ UNCHANGED <<deliveries, completed, hook, rows, attempts, followUps, run>>

\* The worker process dies with its handler.
Die(x) ==
    /\ run[x].pc # "idle"
    /\ run' = [run EXCEPT ![x] = Idle]
    /\ UNCHANGED <<deliveries, completed, hook, rows, queue, followUps>>

-----------------------------------------------------------------------------
HookStep(h) ==
    \/ \E ev \in Lawsuits, t \in Instants : OpenLawsuit(h, ev, t)
    \/ StageLawsuit(h)
    \/ CommitLawsuit(h)
    \/ AbortLawsuit(h)

RunStep(x) ==
    \/ \E k \in JobKeys : Prepare(x, k)
    \/ Read(x)
    \/ Apply(x)
    \/ Complete(x)

Next ==
    \/ \E h \in Hooks : HookStep(h)
    \/ \E ev \in Completions : ReceiveCompletion(ev)
    \/ \E cb \in Forgotten : PurgeDelivery(cb)
    \/ \E r \in Forgotten \cap Requests : PurgeCompletion(r)
    \/ \E k \in Forgotten \cap JobKeys : PurgeJob(k)
    \/ \E x \in Runs : RunStep(x) \/ Fail(x) \/ Die(x)
    \/ \E k \in JobKeys : Reclaim(k)

Spec == Init /\ [][Next]_vars

\* Workers keep running their handlers, the database grants the lock of a row in
\* the order of the requests, a job left behind by a dead worker is taken back,
\* and an open callback transaction goes on.  Nothing is promised of the
\* provider.
Fairness ==
    /\ \A x \in Runs : WF_vars(RunStep(x)) /\ SF_vars(Apply(x))
    /\ \A k \in JobKeys :
         WF_vars(Reclaim(k) /\ \A x \in Runs : run[x].pc # "idle" => run[x].key # k)
    /\ \A h \in Hooks : WF_vars(StageLawsuit(h)) /\ WF_vars(CommitLawsuit(h))

FairSpec == Spec /\ Fairness
-----------------------------------------------------------------------------
(* Properties *)

\* The current version of the process never gives way to one that was staged
\* before it, whatever the order in which finalizers and repair finalizers run.
CurrentMonotone ==
    [][current # NoSource => /\ current' # NoSource
                             /\ made'[current'] >= made[current]]_vars

\* Source, flag and derived data of a finalized version are history: no late, repeated
\* or purged-and-repeated callback and no second finalizer changes them.
FinalizedImmutable ==
    [][\A s \in Sources : finalized[s] =>
            /\ finalized'[s]
            /\ data'[s] = data[s] /\ made'[s] = made[s]
            /\ askedBy'[s] = askedBy[s] /\ cached'[s] = cached[s]
            /\ derived'[s] = derived[s] /\ equiv'[s] = equiv[s]]_vars

\* A version is set aside as unchanged only for a finalized version with the
\* same normalized content that was promoted itself: equivalences never chain,
\* though versions of several requests are finalized in any order.
EquivalentIsSame ==
    \A s \in Sources : equiv[s] # NoSource =>
        /\ finalized[equiv[s]]
        /\ equiv[equiv[s]] = NoSource
        /\ derived[equiv[s]] = derived[s]

\* The provider sends a copy of response s with this cached flag.
Sent(s, fromCache) == \E ev \in Lawsuits : ev.src = s /\ ev.cached = fromCache

\* Promotion and follow-up are one durable unit: when a version of which no copy
\* came from the cache is current, its summary or attachments job has been
\* enqueued, a version of which every copy did never starts one, and none ever
\* starts for a version that was set aside or is not finalized.
CurrentHasFollowUp ==
    /\ (current # NoSource /\ ~Sent(current, TRUE)) => <<current, NoSource>> \in followUps
    /\ \A k \in followUps :
         /\ finalized[k[1]] /\ equiv[k[1]] = NoSource
         /\ k[2] = NoSource => Sent(k[1], FALSE)

\* docs/migrations/judit-webhook.md:14: "`cached_response=false` + completed
\* request enqueues `generate_process_summary` idempotently."  Once callbacks and
\* finalizers of its request are through, a current version that is recorded as
\* fresh has its generation.  The finalizer judges by the flag it read before it
\* locked the row, which a copy of the response may rewrite in between.
FreshIsSummarized ==
    (/\ current # NoSource
     /\ ~cached[current]
     /\ askedBy[current] \in completed
     /\ \A h \in Hooks : hook[h].pc = "closed"
     /\ \A k \in JobKeys : k[1] = askedBy[current] => job[k] \in {"free", "completed"})
        => <<current, NoSource>> \in followUps

\* The finalizer jobs behave as the queue promises, as long as none is purged.
Contract == INSTANCE JobContract
    WITH Jobs <- JobKeys, Keys <- JobKeys, AttemptLimits <- {MaxAttempts},
         NoKey <- NoSource, status <- job,
         key <- [k \in JobKeys |-> IF job[k] = "free" THEN NoSource ELSE k],
         limit <- [k \in JobKeys |-> IF job[k] = "free" THEN 0 ELSE MaxAttempts]
JobsFollowContract == Contract!CSpec

\* A finalizer that is still to run, for a request whose response is there and
\* with no earlier handler of the job left at work, finalizes a version of that
\* request, unless it uses up its attempts or the preferred response has no data;
\* its own handlers may overlap in slots of one worker.  Without the clause on
\* earlier handlers it fails there: one that found no response completes the job
\* of its successor, for they share worker_id.
PendingFinalizerDelivers ==
    \A r \in Requests, k \in JobKeys :
        (/\ k[1] = r /\ job[k] = "pending" /\ Preferred(r) # {}
         /\ \A x \in Runs : run[x].pc # "idle" => run[x].key # k) ~>
            \/ \E s \in Sources : askedBy[s] = r /\ finalized[s]
            \/ job[k] = "dead"
            \/ NothingToFinalize(r)

\* "Once finalized = TRUE, the source identity and raw source payload become
\* historical input to derived process_steps": what was derived for a finalized
\* version comes from the source kept with it.
DerivedMatchesSource ==
    \A s \in Sources : finalized[s] => derived[s][1] = data[s]

\* A version with DataJud provenance was derived with the DataJud values: "o
\* valor oficial do DataJud foi usado no contexto normalizado".
ProvenanceIsTrue ==
    \A s \in Sources : provenance[s] => derived[s][2]

\* Completion is durable independently of the order of the callbacks: when both
\* the completion and a response of a request are there, and no finalizer is
\* open or given up, a version of the request is finalized.
NoLawsuitLeftBehind ==
    \A r \in Requests :
        (r \in completed /\ ~NothingToFinalize(r)
            /\ \A k \in JobKeys : k[1] = r => job[k] \in {"free", "completed"})
        => \E s \in Sources : askedBy[s] = r /\ finalized[s]
=============================================================================
