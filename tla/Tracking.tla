------------------------------ MODULE Tracking ------------------------------
(***************************************************************************)
(* The continuous tracking of one process by one tenant:                   *)
(* app/judit_tracking.py, app/tracking_scheduler.py and the triggers of    *)
(* sql/022 and sql/023.                                                    *)
(*                                                                         *)
(* judit_trackings has one row for the tenant and the process, which is    *)
(* used again after a deletion.  Each change of mind takes a new           *)
(* attempt_number and one job with max_attempts = 1, so an attempt runs at *)
(* most once.  The acquisition that create_tracking asks for afterwards is *)
(* module Acquisition, the versions that callbacks stage module Ingestion. *)
(***************************************************************************)
EXTENDS Integers

CONSTANTS
    MaxTries,     \* bound of attempt_number
    Refreshes     \* rows of judit_tracking_refreshes (bound)

ASSUME TrackingAssumption == MaxTries \in Nat \ {0}

Tries == 1..MaxTries
None == 0

VARIABLES
    status,     \* judit_trackings.status; "absent" before the first insert
    attempt,    \* attempt_number
    known,      \* provider_tracking_id, named by the attempt that created it
    task,       \* the job of each attempt: to create or to delete
    stage,      \* how far that job has come
    target,     \* provider id the job is to delete
    live,       \* trackings that exist at the provider
    refresh,    \* judit_tracking_refreshes.status; "absent" before the insert
    stored,     \* refreshes with a judit_request_id
    worker,     \* refresh_judit_tracking of a refresh
    asked,      \* refreshes whose request the provider has accepted
    completed   \* refreshes whose request is in judit_request_completions

tracking   == <<status, attempt, known, task, stage, target, live>>
refreshing == <<refresh, stored, worker, asked, completed>>
vars == <<status, attempt, known, task, stage, target, live,
          refresh, stored, worker, asked, completed>>

Stages == {"none", "pending", "loaded", "made", "refused", "gone", "ended"}

TypeOK ==
    /\ status \in {"absent", "creating", "active", "deleting", "deleted", "failed"}
    /\ attempt \in 0..MaxTries
    /\ known \in {None} \cup Tries
    /\ live \subseteq Tries
    /\ task \in [Tries -> {"none", "create", "delete"}]
    /\ stage \in [Tries -> Stages]
    /\ target \in [Tries -> {None} \cup Tries]
    /\ refresh \in [Refreshes -> {"absent", "pending", "processing", "completed",
                                  "failed_retryable", "failed_ambiguous"}]
    /\ stored \subseteq Refreshes
    /\ worker \in [Refreshes -> {"none", "pending", "loaded", "accepted", "rejected",
                                 "unsure", "ended"}]
    /\ asked \subseteq Refreshes
    /\ completed \subseteq asked

Init ==
    /\ status = "absent"
    /\ attempt = 0
    /\ known = None
    /\ task = [n \in Tries |-> "none"]
    /\ stage = [n \in Tries |-> "none"]
    /\ target = [n \in Tries |-> None]
    /\ live = {}
    /\ refresh = [r \in Refreshes |-> "absent"]
    /\ stored = {}
    /\ worker = [r \in Refreshes |-> "none"]
    /\ asked = {}
    /\ completed = {}

-----------------------------------------------------------------------------
(* API *)

\* The attempt and its job.
NewAttempt(kind) ==
    /\ attempt < MaxTries
    /\ attempt' = attempt + 1
    /\ task' = [task EXCEPT ![attempt + 1] = kind]
    /\ stage' = [stage EXCEPT ![attempt + 1] = "pending"]

\* create_tracking: nothing while the row is creating, active or deleting.
CreateTracking ==
    /\ status \notin {"creating", "active", "deleting"}
    /\ NewAttempt("create")
    /\ status' = "creating"
    /\ known' = None
    /\ UNCHANGED <<target, live, refreshing>>

\* delete_tracking: also a tracking that is being created or has failed.
DeleteTracking ==
    /\ status \notin {"absent", "deleted", "deleting"}
    /\ NewAttempt("delete")
    /\ status' = "deleting"
    /\ UNCHANGED <<known, target, live, refreshing>>

-----------------------------------------------------------------------------
(* create_judit_tracking_task *)

At(n, kind, place) == task[n] = kind /\ stage[n] = place

\* The task goes on if the row is creating and has no provider id.
LoadCreate(n) ==
    /\ At(n, "create", "pending")
    /\ stage' = [stage EXCEPT ![n] = IF status = "creating" /\ known = None
                                     THEN "loaded" ELSE "ended"]
    /\ UNCHANGED <<status, attempt, known, task, target, live, refreshing>>

\* create_lawsuit_tracking: done, or an error after which the provider may track.
CallCreate(n) ==
    /\ At(n, "create", "loaded")
    /\ \/ /\ stage' = [stage EXCEPT ![n] = "made"]
          /\ live' = live \cup {n}
       \/ /\ stage' = [stage EXCEPT ![n] = "refused"]
          /\ live' \in {live, live \cup {n}}
    /\ UNCHANGED <<status, attempt, known, task, target, refreshing>>

\* Mutant of StillCreating: the status of the row is not looked at.
StillCreatingAlways == TRUE

\* WHERE id = $1 AND status = 'creating'.
StillCreating == status = "creating"

RecordCreate(n) ==
    /\ At(n, "create", "made") \/ At(n, "create", "refused")
    /\ IF ~StillCreating THEN UNCHANGED <<status, known>>
       ELSE IF stage[n] = "made" THEN status' = "active" /\ known' = n
       ELSE status' = "failed" /\ UNCHANGED known
    /\ stage' = [stage EXCEPT ![n] = "ended"]
    /\ UNCHANGED <<attempt, task, target, live, refreshing>>

-----------------------------------------------------------------------------
(* delete_judit_tracking_task *)

\* The provider id is read; without one there is nothing to ask the provider.
LoadDelete(n) ==
    /\ At(n, "delete", "pending")
    /\ target' = [target EXCEPT ![n] = known]
    /\ stage' = [stage EXCEPT ![n] = IF known = None THEN "gone" ELSE "loaded"]
    /\ UNCHANGED <<status, attempt, known, task, live, refreshing>>

\* Mutant of AfterDelete: an error of the provider is taken for a deletion.
AfterDeleteAlways(id) == {<<"gone", live \ {id}>>, <<"gone", live>>}

\* delete_lawsuit_tracking: done (a 404 counts as done), or an error, after which
\* the provider may have deleted and the task ends.
AfterDelete(id) == {<<"gone", live \ {id}>>, <<"ended", live>>, <<"ended", live \ {id}>>}

CallDelete(n) ==
    /\ At(n, "delete", "loaded")
    /\ \E answer \in AfterDelete(target[n]) :
         /\ stage' = [stage EXCEPT ![n] = answer[1]]
         /\ live' = answer[2]
    /\ UNCHANGED <<status, attempt, known, task, target, refreshing>>

\* The row is marked deleted whatever its status.
RecordDelete(n) ==
    /\ At(n, "delete", "gone")
    /\ status' = "deleted"
    /\ known' = None
    /\ stage' = [stage EXCEPT ![n] = "ended"]
    /\ UNCHANGED <<attempt, task, target, live, refreshing>>

\* The worker dies, the handler times out or the database fails.
LoseTask(n) ==
    /\ stage[n] \notin {"none", "ended"}
    /\ stage' = [stage EXCEPT ![n] = "ended"]
    /\ UNCHANGED <<status, attempt, known, task, target, live, refreshing>>

-----------------------------------------------------------------------------
(* Refreshes *)

\* Mutant of NoOpenRefresh: the unique index knows the status pending only.
NoPendingRefresh == \A r \in Refreshes : refresh[r] # "pending"

\* The unique index of the open refreshes.
NoOpenRefresh == \A r \in Refreshes : refresh[r] \notin {"pending", "processing"}

\* enqueue_due_tracking_reconciliations of the scheduler finds the tracking stale.
Reconcile(r) ==
    /\ refresh[r] = "absent"
    /\ status = "active"
    /\ NoOpenRefresh
    /\ refresh' = [refresh EXCEPT ![r] = "pending"]
    /\ worker' = [worker EXCEPT ![r] = "pending"]
    /\ UNCHANGED <<tracking, stored, asked, completed>>

\* refresh_judit_tracking_task goes on if the tracking is active.
LoadRefresh(r) ==
    /\ worker[r] = "pending"
    /\ worker' = [worker EXCEPT ![r] = IF status = "active" THEN "loaded" ELSE "ended"]
    /\ UNCHANGED <<tracking, refresh, stored, asked, completed>>

CallRefresh(r) ==
    /\ worker[r] = "loaded"
    /\ \/ /\ worker' = [worker EXCEPT ![r] = "accepted"]
          /\ asked' = asked \cup {r}
       \/ /\ worker' = [worker EXCEPT ![r] = "rejected"]
          /\ UNCHANGED asked
       \/ /\ worker' = [worker EXCEPT ![r] = "unsure"]
          /\ asked' \in {asked, asked \cup {r}}
    /\ UNCHANGED <<tracking, refresh, stored, completed>>

\* Mutant of RefreshOutcome: every error becomes the status of an acquisition.
RefreshOutcomeFailed(answer) == IF answer = "accepted" THEN "processing" ELSE "failed"

RefreshOutcome(answer) ==
    CASE answer = "accepted" -> "processing"
      [] answer = "rejected" -> "failed_retryable"
      [] answer = "unsure"   -> "failed_ambiguous"

RecordRefresh(r) ==
    /\ worker[r] \in {"accepted", "rejected", "unsure"}
    /\ refresh' = [refresh EXCEPT ![r] = RefreshOutcome(worker[r])]
    /\ stored' = IF worker[r] = "accepted" THEN stored \cup {r} ELSE stored
    /\ worker' = [worker EXCEPT ![r] = "ended"]
    /\ UNCHANGED <<tracking, asked, completed>>

LoseRefresh(r) ==
    /\ worker[r] \notin {"none", "ended"}
    /\ worker' = [worker EXCEPT ![r] = "ended"]
    /\ UNCHANGED <<tracking, refresh, stored, asked, completed>>

\* The completion callback; the trigger complete_judit_tracking_refresh closes
\* the open refresh that has the id of the request.
CompleteRequest(r) ==
    /\ r \in asked \ completed
    /\ completed' = completed \cup {r}
    /\ refresh' = IF r \in stored /\ refresh[r] \in {"pending", "processing"}
                  THEN [refresh EXCEPT ![r] = "completed"] ELSE refresh
    /\ UNCHANGED <<tracking, stored, worker, asked>>

-----------------------------------------------------------------------------
TaskStep(n) ==
    \/ LoadCreate(n) \/ CallCreate(n) \/ RecordCreate(n)
    \/ LoadDelete(n) \/ CallDelete(n) \/ RecordDelete(n)

RefreshStep(r) == LoadRefresh(r) \/ CallRefresh(r) \/ RecordRefresh(r)

Next ==
    \/ CreateTracking \/ DeleteTracking
    \/ \E n \in Tries : TaskStep(n) \/ LoseTask(n)
    \/ \E r \in Refreshes :
         Reconcile(r) \/ RefreshStep(r) \/ LoseRefresh(r) \/ CompleteRequest(r)

Spec == Init /\ [][Next]_vars

-----------------------------------------------------------------------------
(* Properties *)

\* A tracking shown as active has the id of a tracking that exists at the
\* provider, although slow attempts of earlier creations and deletions may still
\* be writing to the row: create_judit_tracking_task, delete_judit_tracking_task.
ActiveIsLive == status = "active" => known \in live

\* Once the row is deleted only another request of the user brings it back: a
\* creation that was overtaken by the deletion does not.
DeletedStays == [][status = "deleted" /\ status' # "deleted" => attempt' > attempt]_vars

\* The provider's id is given up only when the provider has the tracking no longer:
\* after a failed deletion the row still knows what is to be deleted.
HandleKept == [][known # None /\ known' # known => known \notin live]_vars

\* Refreshes that are with a worker, or that the provider has accepted and not
\* completed, whatever Rpy was told about them.
Undecided == {r \in Refreshes : worker[r] \notin {"none", "ended"} \/ r \in asked \ completed}

\* Of two such refreshes of a tracking one has an ambiguous answer: it is
\* failed_ambiguous, which is no open refresh of the unique index.  A lost worker, a
\* lost answer or a completion that comes too early never lets the scheduler pay twice.
OnlyUnsureOverlap ==
    \A r, s \in Undecided : r # s => "failed_ambiguous" \in {refresh[r], refresh[s]}

\* docs/deployment/judit-tracking.md: "Ambiguous provider/network failures are not
\* retried blindly because the provider may already have accepted a paid asynchronous
\* request", and the scheduler "creates at most one open refresh row": of the requests
\* that the provider has accepted for a tracking one at most is not completed.
OneRefreshAtATime == \A r, s \in asked \ completed : r = s

\* docs/deployment/judit-tracking.md, of the trigger in sql/023: "A completed Judit
\* request closes the matching open tracking refresh transactionally."
RefreshCloses == \A r \in stored \cap completed : refresh[r] \notin {"pending", "processing"}
=============================================================================
