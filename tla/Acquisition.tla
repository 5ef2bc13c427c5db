---------------------------- MODULE Acquisition ----------------------------
(***************************************************************************)
(* Public summary requests and the paid provider request behind them:      *)
(* create_summary_job of app/api_v1.py, app/process_requests.py,           *)
(* app/public_lifecycle.py and app/public_lifecycle_worker.py, with the    *)
(* callbacks and jobs that move a public request once Judit has accepted   *)
(* the acquisition.                                                        *)
(*                                                                         *)
(* One process (one CNJ) is modelled: tenant_judit_requests has one row    *)
(* per tenant, and each attempt of a row asks Judit at most once.  What    *)
(* versions hold and which becomes current is module Ingestion; here the   *)
(* finalizer chooses among its outcomes.  Jobs follow JobContract: a job   *)
(* request_judit_process has max_attempts = 1, the others may be started   *)
(* again any number of times.                                              *)
(***************************************************************************)
EXTENDS Integers, FiniteSets

CONSTANTS
    Tenants,
    Publics,     \* rows of public_summary_requests, one per idempotency key
    TenantOf,    \* [Publics -> Tenants]
    MaxTries     \* bound of attempt_number (100 in the code)

ASSUME AcquisitionAssumption ==
    /\ TenantOf \in [Publics -> Tenants]
    /\ MaxTries \in Nat \ {0}

Tries == 1..MaxTries

\* An attempt of a row; the id of the Judit request it got, if it got one.
Attempts == Tenants \X Tries

VARIABLES
    public,     \* status of the public requests; "absent" before creation
    linked,     \* tenant_judit_request_id: 0, or attempt_number when it was set
    row,        \* tenant_judit_requests: status, attempt_number, judit_request_id
    job,        \* status of the jobs judit-acquire:{row}:{attempt}
    handler,    \* request_judit_process_task of an attempt
    paid,       \* attempts that Judit has accepted
    hook,       \* open callback transaction with a lawsuit response
    staged,     \* Judit requests with a committed version
    completed,  \* Judit requests in judit_request_completions
    access,     \* tenants in tenant_processes
    finalizer,  \* finalize_judit_request of a Judit request
    download,   \* process_judit_attachments of a Judit request
    summary,    \* generate_process_summary of a Judit request
    published   \* Judit requests with a summary that passed validation

acquiring == <<row, job, handler, paid>>
provider  == <<hook, staged, completed, access>>
pipeline  == <<finalizer, download, summary, published>>
vars == <<public, linked, row, job, handler, paid, hook, staged, completed, access,
          finalizer, download, summary, published>>

Progress == <<"queued", "fetching", "indexing", "generating", "validating", "completed">>
\* Without secrecy_blocked, which the code sets nowhere.
Terminal == {"completed", "failed", "source_unavailable", "validation_failed"}
Statuses == {Progress[n] : n \in 1..6} \cup Terminal

JobStatuses == {"free", "pending", "processing", "completed", "dead"}

TypeOK ==
    /\ public \in [Publics -> Statuses \cup {"absent"}]
    /\ linked \in [Publics -> 0..MaxTries]
    /\ row \in [Tenants -> [status : {"absent", "processing", "failed_retryable",
                                      "failed_ambiguous"},
                            attempt : 0..MaxTries, id : 0..MaxTries]]
    /\ job \in [Attempts -> JobStatuses]
    /\ handler \in [Attempts -> {"none", "loaded", "accepted", "rejected", "unsure", "ended"}]
    /\ paid \subseteq Attempts
    /\ hook \in [Attempts -> {"closed", "open", "granted"}]
    /\ staged \subseteq Attempts
    /\ completed \subseteq Attempts
    /\ access \subseteq Tenants
    /\ finalizer \in [Attempts -> {"free", "pending", "ran", "completed", "dead"}]
    /\ download \in [Attempts -> JobStatuses]
    /\ summary \in [Attempts -> JobStatuses \cup {"passed", "failed"}]
    /\ published \subseteq Attempts

Init ==
    /\ public = [p \in Publics |-> "absent"]
    /\ linked = [p \in Publics |-> 0]
    /\ row = [t \in Tenants |-> [status |-> "absent", attempt |-> 0, id |-> 0]]
    /\ job = [i \in Attempts |-> "free"]
    /\ handler = [i \in Attempts |-> "none"]
    /\ paid = {}
    /\ hook = [i \in Attempts |-> "closed"]
    /\ staged = {}
    /\ completed = {}
    /\ access = {}
    /\ finalizer = [i \in Attempts |-> "free"]
    /\ download = [i \in Attempts |-> "free"]
    /\ summary = [i \in Attempts |-> "free"]
    /\ published = {}

-----------------------------------------------------------------------------
(* app/public_lifecycle.py *)

Rank(s) == CHOOSE n \in 1..6 : Progress[n] = s

\* Mutant of TransitionAllowed: a terminal request may move within the progress.
TransitionAllowedByRank(current, target) ==
    \/ target \in Terminal
    \/ current \notin Terminal /\ Rank(target) >= Rank(current)

TransitionAllowed(current, target) ==
    \/ current = target
    \/ /\ current \notin Terminal
       /\ target \in Terminal \/ Rank(target) >= Rank(current)

\* transition_summary_request for each request of a set.
Move(f, S, target) ==
    [p \in Publics |-> IF p \in S /\ TransitionAllowed(f[p], target) THEN target ELSE f[p]]

\* Requests linked to the row of a tenant, as transition_requests_for_acquisition
\* finds them, and those of a Judit request, found by the id stored in the row.
Members(t) == {p \in Publics : TenantOf[p] = t /\ linked[p] # 0}

Followers(i) == IF row[i[1]].id = i[2] THEN Members(i[1]) ELSE {}

-----------------------------------------------------------------------------
(* POST /v1/resumos and POST /processes/{code}/request *)

\* create_or_get_summary_request in a transaction of its own.
Create(p) ==
    /\ public[p] = "absent"
    /\ public' = [public EXCEPT ![p] = "queued"]
    /\ UNCHANGED <<linked, acquiring, provider, pipeline>>

\* Mutant of CanAttempt: the status of the row is not looked at.
CanAttemptAgain(t) == row[t].attempt < MaxTries

\* request_process: a new row, or one more attempt after an explicit rejection.
CanAttempt(t) ==
    \/ row[t].status = "absent"
    \/ row[t].status = "failed_retryable" /\ row[t].attempt < MaxTries

Attempt(t) ==
    LET n == row[t].attempt + 1
    IN  /\ row' = [row EXCEPT ![t].status = "processing", ![t].attempt = n]
        /\ job' = [job EXCEPT ![<<t, n>>] = "pending"]

\* request_process for the public requests S, one or none: the request is linked
\* with the row, and the requests of a row with a Judit id are fetching.
RequestProcess(t, S) ==
    /\ linked' = [p \in Publics |-> IF p \notin S THEN linked[p]
                                    ELSE IF CanAttempt(t) THEN row[t].attempt + 1
                                    ELSE row[t].attempt]
    /\ IF CanAttempt(t)
       THEN Attempt(t) /\ UNCHANGED public
       ELSE /\ UNCHANGED <<row, job>>
            /\ public' = IF S # {} /\ row[t].id # 0
                         THEN Move(public, Members(t) \cup S, "fetching") ELSE public
    /\ UNCHANGED <<handler, paid, provider, pipeline>>

\* create_summary_job for a request it created, or a replay of a request that
\* was never linked.
Register(p) ==
    /\ public[p] # "absent" /\ linked[p] = 0
    /\ RequestProcess(TenantOf[p], {p})

RequestAnonymously(t) == RequestProcess(t, {})

-----------------------------------------------------------------------------
(* request_judit_process_task: one start per attempt *)

\* The job is claimed and the handler reads the row; without a Judit id it goes on.
Load(i) ==
    /\ job[i] = "pending"
    /\ job' = [job EXCEPT ![i] = "processing"]
    /\ public' = Move(public, Members(i[1]), "fetching")
    /\ handler' = [handler EXCEPT ![i] = IF row[i[1]].id # 0 THEN "ended" ELSE "loaded"]
    /\ UNCHANGED <<linked, row, paid, provider, pipeline>>

\* create_lawsuit_request: accepted, rejected with a 4xx, or any other error,
\* after which Judit may have accepted or not.
Call(i) ==
    /\ handler[i] = "loaded"
    /\ \/ /\ handler' = [handler EXCEPT ![i] = "accepted"]
          /\ paid' = paid \cup {i}
       \/ /\ handler' = [handler EXCEPT ![i] = "rejected"]
          /\ UNCHANGED paid
       \/ /\ handler' = [handler EXCEPT ![i] = "unsure"]
          /\ paid' \in {paid, paid \cup {i}}
    /\ UNCHANGED <<public, linked, row, job, provider, pipeline>>

\* The id is stored once, and a version that is already there gives access.
StoreId(i) ==
    /\ handler[i] = "accepted"
    /\ handler' = [handler EXCEPT ![i] = "ended"]
    /\ row' = IF row[i[1]].id # 0 THEN row
              ELSE [row EXCEPT ![i[1]].id = i[2], ![i[1]].status = "processing"]
    /\ access' = IF row[i[1]].id = 0 /\ i \in staged THEN access \cup {i[1]} ELSE access
    /\ UNCHANGED <<public, linked, job, paid, hook, staged, completed, pipeline>>

\* Mutant: every provider error may be retried.

VerdictRetryable(answer) == "failed_retryable"

Verdict(answer) == IF answer = "rejected" THEN "failed_retryable" ELSE "failed_ambiguous"

\* The failure is recorded; then the handler raises PermanentTaskError.
RecordFailure(i) ==
    /\ handler[i] \in {"rejected", "unsure"}
    /\ handler' = [handler EXCEPT ![i] = "none"]
    /\ row' = IF row[i[1]].id # 0 THEN row
              ELSE [row EXCEPT ![i[1]].status = Verdict(handler[i])]
    /\ public' = Move(public, Members(i[1]), "source_unavailable")
    /\ UNCHANGED <<linked, job, paid, provider, pipeline>>

\* A worker claims the job and dies before its handler runs.
LoseClaim(i) ==
    /\ job[i] = "pending"
    /\ job' = [job EXCEPT ![i] = "processing"]
    /\ UNCHANGED <<public, linked, row, handler, paid, provider, pipeline>>

CompleteAcquisition(i) ==
    /\ handler[i] = "ended"
    /\ handler' = [handler EXCEPT ![i] = "none"]
    /\ job' = [job EXCEPT ![i] = IF @ = "processing" THEN "completed" ELSE @]
    /\ UNCHANGED <<public, linked, row, paid, provider, pipeline>>

\* The handler raises, times out or dies with its worker.
Interrupt(i) ==
    /\ handler[i] # "none"
    /\ handler' = [handler EXCEPT ![i] = "none"]
    /\ UNCHANGED <<public, linked, row, job, paid, provider, pipeline>>

\* fail or reclaim_stale, with mark_job_dead: the handler has ended, or its lease
\* has expired while it is still running.
BuryAcquisition(i) ==
    /\ job[i] = "processing"
    /\ job' = [job EXCEPT ![i] = "dead"]
    /\ public' = Move(public, Members(i[1]), "failed")
    /\ UNCHANGED <<linked, row, handler, paid, provider, pipeline>>

-----------------------------------------------------------------------------
(* Callbacks of Judit for a request it has accepted *)

\* Mutant of Grants: the row of the tenant need not have the id.
GrantsAnyone(i) == TRUE

\* grant_request_tenants.
Grants(i) == row[i[1]].id = i[2]

\* A lawsuit callback stages its version and grants access to the tenants whose
\* row has the id; both are seen by others when it commits.
ReceiveLawsuit(i) ==
    /\ i \in paid
    /\ hook[i] = "closed"
    /\ hook' = [hook EXCEPT ![i] = IF Grants(i) THEN "granted" ELSE "open"]
    /\ UNCHANGED <<public, linked, acquiring, staged, completed, access, pipeline>>

\* A completion that is there by now gets a repair finalizer.  The check of the
\* completion may also have come too early: module Ingestion.
CommitLawsuit(i) ==
    /\ hook[i] # "closed"
    /\ hook' = [hook EXCEPT ![i] = "closed"]
    /\ staged' = staged \cup {i}
    /\ access' = IF hook[i] = "granted" THEN access \cup {i[1]} ELSE access
    /\ finalizer' = [finalizer EXCEPT ![i] = IF i \in completed THEN "pending" ELSE @]
    /\ UNCHANGED <<public, linked, acquiring, completed, download, summary, published>>

\* The transaction is rolled back.
AbortLawsuit(i) ==
    /\ hook[i] # "closed"
    /\ hook' = [hook EXCEPT ![i] = "closed"]
    /\ UNCHANGED <<public, linked, acquiring, staged, completed, access, pipeline>>

ReceiveCompletion(i) ==
    /\ i \in paid /\ i \notin completed
    /\ completed' = completed \cup {i}
    /\ finalizer' = [finalizer EXCEPT ![i] = "pending"]
    /\ UNCHANGED <<public, linked, acquiring, hook, staged, access, download, summary, published>>

-----------------------------------------------------------------------------
(* The jobs of the pipeline, as far as public requests see them *)

\* The transaction of finalize_judit_request: no lawsuit or no response data, a
\* version that needs its attachments or its summary, one whose process has a
\* summary already, or one for which none will be generated.
Finalize(i) ==
    /\ finalizer[i] \in {"pending", "ran"}
    /\ finalizer' = [finalizer EXCEPT ![i] = "ran"]
    /\ LET indexing == Move(public, Followers(i), "indexing")
       IN  \/ /\ public' = Move(indexing, Followers(i), "source_unavailable")
              /\ UNCHANGED <<download, summary>>
           \/ /\ i \in staged
              /\ public' = indexing
              /\ download' = [download EXCEPT ![i] = IF @ = "free" THEN "pending" ELSE @]
              /\ UNCHANGED summary
           \/ /\ i \in staged
              /\ public' = indexing
              /\ summary' = [summary EXCEPT ![i] = IF @ = "free" THEN "pending" ELSE @]
              /\ UNCHANGED download
           \/ /\ i \in staged
              /\ published # {}
              /\ public' = Move(indexing, Followers(i), "completed")
              /\ UNCHANGED <<download, summary>>
           \/ /\ i \in staged
              /\ public' = Move(indexing, Followers(i), "failed")
              /\ UNCHANGED <<download, summary>>
    /\ UNCHANGED <<linked, acquiring, provider, published>>

CompleteFinalizer(i) ==
    /\ finalizer[i] = "ran"
    /\ finalizer' = [finalizer EXCEPT ![i] = "completed"]
    /\ UNCHANGED <<public, linked, acquiring, provider, download, summary, published>>

\* The attempts of the finalizer are used up: mark_job_dead.
BuryFinalizer(i) ==
    /\ finalizer[i] \in {"pending", "ran"}
    /\ finalizer' = [finalizer EXCEPT ![i] = "dead"]
    /\ public' = Move(public, Followers(i), "failed")
    /\ UNCHANGED <<linked, acquiring, provider, download, summary, published>>

\* process_judit_attachments_task ends with the summary job, or finds that the
\* version is no longer current.
Download(i) ==
    /\ download[i] = "pending"
    /\ download' = [download EXCEPT ![i] = "completed"]
    /\ \/ summary' = [summary EXCEPT ![i] = IF @ = "free" THEN "pending" ELSE @]
       \/ UNCHANGED summary
    /\ UNCHANGED <<public, linked, acquiring, provider, finalizer, published>>

\* mark_job_dead does not know process_judit_attachments.
BuryDownload(i) ==
    /\ download[i] = "pending"
    /\ download' = [download EXCEPT ![i] = "dead"]
    /\ UNCHANGED <<public, linked, acquiring, provider, finalizer, summary, published>>

\* mark_job_started.
StartSummary(i) ==
    /\ summary[i] = "pending"
    /\ summary' = [summary EXCEPT ![i] = "processing"]
    /\ public' = Move(public, Followers(i), "generating")
    /\ UNCHANGED <<linked, acquiring, provider, finalizer, download, published>>

\* The handler commits its summary, or reuses the one that has passed.
WriteSummary(i) ==
    /\ summary[i] = "processing"
    /\ \/ /\ summary' = [summary EXCEPT ![i] = "passed"]
          /\ published' = published \cup {i}
       \/ /\ i \notin published
          /\ summary' = [summary EXCEPT ![i] = "failed"]
          /\ UNCHANGED published
    /\ UNCHANGED <<public, linked, acquiring, provider, finalizer, download>>

\* Mutant of Outcomes: the validation of the result is not looked at.
OutcomesUnchecked(result) == {"completed", "validation_failed"}

\* reconcile_generation_result, in the transaction that completes the job.  A
\* summary that passed may belong to a version that is no longer current.
Outcomes(result) ==
    IF result = "passed" THEN {"completed", "validation_failed"}
    ELSE {"validation_failed"}

CompleteSummary(i) ==
    /\ summary[i] \in {"passed", "failed"}
    /\ summary' = [summary EXCEPT ![i] = "completed"]
    /\ \E outcome \in Outcomes(summary[i]) :
         public' = Move(Move(public, Followers(i), "validating"), Followers(i), outcome)
    /\ UNCHANGED <<linked, acquiring, provider, finalizer, download, published>>

\* An attempt is lost: another one follows, or mark_job_dead.
LoseSummary(i) ==
    /\ summary[i] \in {"processing", "passed", "failed"}
    /\ \/ /\ summary' = [summary EXCEPT ![i] = "pending"]
          /\ UNCHANGED public
       \/ /\ summary' = [summary EXCEPT ![i] = "dead"]
          /\ public' = Move(public, Followers(i), "failed")
    /\ UNCHANGED <<linked, acquiring, provider, finalizer, download, published>>

-----------------------------------------------------------------------------
AcquisitionStep(i) ==
    \/ Load(i) \/ LoseClaim(i) \/ Call(i) \/ StoreId(i) \/ RecordFailure(i)
    \/ CompleteAcquisition(i) \/ Interrupt(i) \/ BuryAcquisition(i)

ProviderStep(i) ==
    ReceiveLawsuit(i) \/ CommitLawsuit(i) \/ AbortLawsuit(i) \/ ReceiveCompletion(i)

PipelineStep(i) ==
    \/ Finalize(i) \/ CompleteFinalizer(i) \/ BuryFinalizer(i)
    \/ Download(i) \/ BuryDownload(i)
    \/ StartSummary(i) \/ WriteSummary(i) \/ CompleteSummary(i) \/ LoseSummary(i)

Next ==
    \/ \E p \in Publics : Create(p) \/ Register(p)
    \/ \E t \in Tenants : RequestAnonymously(t)
    \/ \E i \in Attempts : AcquisitionStep(i) \/ ProviderStep(i) \/ PipelineStep(i)

Spec == Init /\ [][Next]_vars
-----------------------------------------------------------------------------
(* Properties *)

\* Judit is asked again only after an explicit rejection, so a tenant never pays
\* twice for a process, whatever is lost: the answer, the worker or the lease.
PaidOnce == \A i, k \in paid : i[1] = k[1] => i = k

\* "Retries and stale-job reclaim cannot move a request backwards from a later
\* or terminal state": acquisition, finalizer and generation jobs and replays
\* race for one public request, and none takes it back.
NeverBackwards ==
    [][\A p \in Publics : public[p] # "absent" =>
            \/ public'[p] = public[p]
            \/ /\ public[p] \notin Terminal
               /\ public'[p] \in Terminal \/ Rank(public'[p]) > Rank(public[p])]_vars

\* A tenant reads a process only by a version of the Judit request it asked for.
AccessIsEarned ==
    \A t \in access : row[t].id # 0 /\ <<t, row[t].id>> \in staged \cap paid

\* The id of a Judit request, once stored, stays, and nothing is asked after it.
IdIsKept ==
    [][\A t \in Tenants : row[t].id # 0 =>
            /\ row'[t] = row[t]
            /\ \A n \in Tries : <<t, n>> \in paid' => <<t, n>> \in paid]_vars

\* A public request is completed only after a summary has passed validation.
CompletedIsBacked ==
    \A p \in Publics : public[p] = "completed" => published # {}

\* "A callback that arrives before the provider request identifier is persisted
\* is reconciled after that identifier becomes known": a tenant whose request has
\* its id and a version may read the process.
CallbackReconciled ==
    \A t \in Tenants :
        LET i == <<t, row[t].id>>
        IN  (row[t].id # 0 /\ i \in staged /\ hook[i] = "closed") => t \in access

\* The same for the public request: when the completion is there, the id is known
\* and no job is left to do, it has been settled.
CompletionReconciled ==
    \A p \in Publics :
        LET t == TenantOf[p]
            i == <<t, row[t].id>>
        IN  (/\ linked[p] # 0 /\ row[t].id # 0 /\ i \in completed /\ hook[i] = "closed"
             /\ \A n \in Tries : job[<<t, n>>] \in {"free", "completed", "dead"}
             /\ finalizer[i] = "completed"
             /\ download[i] = "free"
             /\ summary[i] \in {"free", "completed", "dead"})
            => public[p] \in Terminal

\* "Explicitly rejected requests may be retried only through a later explicit
\* user action": a public request that asks for another attempt has not failed
\* before that attempt has started.
RetryStartsFresh ==
    \A p \in Publics :
        (linked[p] # 0 /\ job[<<TenantOf[p], linked[p]>>] = "pending")
            => public[p] \notin Terminal
=============================================================================
