---------------------------- MODULE Maintenance ----------------------------
(* Retention, as the scheduler enforces it (scheduler.py), beside the callbacks it
   may meet (api.py).

   One process, the versions that hold the answers of its requests and the raw
   callbacks they came in, against a clock. A callback is a transaction of several
   statements; it locks the row of the process from the upsert to its commit. A
   scheduler holds an advisory lock in a session of its own and repeats five
   statements, each a transaction; an error ends the process, and its container
   starts again. The expurgation is one statement: it selects on the snapshot of its
   start, then waits for the row, then deletes what it selected. *)
EXTENDS Naturals

CONSTANTS
  Schedulers,     \* instances of the scheduler
  Answers,        \* answers for the process, each of a request of its own
  Retention,      \* RETENTION_DAYS
  JobRetention,   \* JOB_RETENTION_DAYS
  LastArrival,    \* bound: the last day on which callbacks come
  LastDay,        \* bound: the last day
  MaxStops        \* bound: how often a scheduler ends

ASSUME MaintenanceAssumption ==
  /\ Retention \in Nat \ {0} /\ JobRetention \in Nat \ {0} /\ MaxStops \in Nat
  /\ LastArrival \in Nat /\ LastDay \in Nat

VARIABLES
  day,
  updated,    \* processes.updated_at, or Gone
  version,    \* process_versions: none, staged or finalized, for each answer
  received,   \* judit_deliveries: when the callback of an answer came, or Gone
  callback,   \* the transaction of each callback: how far it is, and when it began
  duty,       \* each scheduler: the statement it is at
  session,    \* the schedulers whose session holds the lock, at most one
  doomed,     \* the schedulers whose running statement selected the process
  sought,     \* for each of them the deliveries it selected, as far as they exist
  stops,
  late        \* history: the answers committed while a statement had selected the process

maintenanceVars ==
  <<day, updated, version, received, callback, duty, session, doomed, sought, stops, late>>

Gone == LastDay + 1
Closed == [at |-> "closed", since |-> 0]

MaintenanceInit ==
  /\ day = 0
  /\ updated = Gone
  /\ version = [q \in Answers |-> "none"]
  /\ received = [q \in Answers |-> Gone]
  /\ callback = [q \in Answers |-> Closed]
  /\ duty = [s \in Schedulers |-> "stopped"]
  /\ session = {}
  /\ doomed = {}
  /\ sought = [s \in Schedulers |-> {}]
  /\ stops = 0
  /\ late = {}

Older(since, days) == since # Gone /\ since + days < day

\* The row of the process is locked by the callback that staged a version last.
RowLocked == \E q \in Answers : callback[q].at = "staged"

NextDay ==
  /\ day < LastDay
  /\ day' = day + 1
  /\ UNCHANGED <<updated, version, received, callback, duty, session, doomed, sought, stops, late>>

-----------------------------------------------------------------------------
(* The callbacks, and the finalizer. *)

\* The delivery is recorded, unless one of the same callback is there: then the
\* callback is answered and nothing else happens. NOW() is the start of the
\* transaction.
RecordDelivery(q) ==
  /\ day <= LastArrival
  /\ callback[q] = Closed /\ received[q] = Gone
  /\ callback' = [callback EXCEPT ![q] = [at |-> "recorded", since |-> day]]
  /\ UNCHANGED <<day, updated, version, received, duty, session, doomed, sought, stops, late>>

\* stage_version: the upsert of the process waits for whoever upserted it last.
StageAnswer(q) ==
  /\ callback[q].at = "recorded"
  /\ ~RowLocked
  /\ callback' = [callback EXCEPT ![q].at = "staged"]
  /\ UNCHANGED <<day, updated, version, received, duty, session, doomed, sought, stops, late>>

\* A repetition of what is finalized is no activity of the process.
CommitCallback(q) ==
  /\ callback[q].at = "staged"
  /\ received' = [received EXCEPT ![q] = callback[q].since]
  /\ version' = [version EXCEPT ![q] = IF @ = "none" THEN "staged" ELSE @]
  /\ updated' = IF version[q] = "finalized" THEN updated ELSE callback[q].since
  /\ callback' = [callback EXCEPT ![q] = Closed]
  /\ late' = IF doomed # {} THEN late \cup {q} ELSE late \ {q}
  /\ UNCHANGED <<day, duty, session, doomed, sought, stops>>

\* The connection or the API dies; the sender may repeat the callback.
RollBack(q) ==
  /\ callback[q] # Closed
  /\ callback' = [callback EXCEPT ![q] = Closed]
  /\ UNCHANGED <<day, updated, version, received, duty, session, doomed, sought, stops, late>>

\* The version is finalized, and becomes the current one or not (Ingestion).
Finalize(q) ==
  /\ version[q] = "staged"
  /\ ~RowLocked
  /\ version' = [version EXCEPT ![q] = "finalized"]
  /\ updated' \in {updated, day}
  /\ UNCHANGED <<day, received, callback, duty, session, doomed, sought, stops, late>>

-----------------------------------------------------------------------------
(* The scheduler. *)

\* The lock is tried, not awaited: a second instance ends at once.
StartScheduler(s) ==
  /\ duty[s] = "stopped"
  /\ session = {}
  /\ session' = {s}
  /\ duty' = [duty EXCEPT ![s] = "track"]
  /\ UNCHANGED <<day, updated, version, received, callback, doomed, sought, stops, late>>

\* The session of the lock is lost; the scheduler does not use it and goes on.
LoseLockSession(s) ==
  /\ s \in session
  /\ session' = session \ {s}
  /\ UNCHANGED <<day, updated, version, received, callback, duty, doomed, sought, stops, late>>

\* A statement fails, or the process is killed: the whole scheduler ends.
StopScheduler(s) ==
  /\ duty[s] # "stopped" /\ stops < MaxStops
  /\ stops' = stops + 1
  /\ duty' = [duty EXCEPT ![s] = "stopped"]
  /\ session' = session \ {s}
  /\ doomed' = doomed \ {s}
  /\ sought' = [sought EXCEPT ![s] = {}]
  /\ UNCHANGED <<day, updated, version, received, callback, late>>

\* Statements whose effect is modelled where their rows are: the reconciliations in
\* Tracking, the jobs in LeaseQueue, the completions in Ingestion.
Elsewhere(s, from, to) ==
  /\ duty[s] = from
  /\ duty' = [duty EXCEPT ![s] = to]
  /\ UNCHANGED <<day, updated, version, received, callback, session, doomed, sought, stops, late>>

EnqueueReconciliations(s) == Elsewhere(s, "track", "select")
PurgeTerminalJobs(s) == Elsewhere(s, "jobs", "markers")
PurgeCompletions(s) == Elsewhere(s, "markers", "deliveries")

\* expurgar, its snapshot: a process without activity for so long, and the
\* deliveries of the requests of its versions that were committed by now.
SelectDoomed(s) ==
  /\ duty[s] = "select"
  /\ duty' = [duty EXCEPT ![s] = "erase"]
  /\ IF Older(updated, Retention)
     THEN /\ doomed' = doomed \cup {s}
          /\ sought' = [sought EXCEPT ![s] =
               {q \in Answers : version[q] # "none" /\ received[q] # Gone}]
     ELSE UNCHANGED <<doomed, sought>>
  /\ UNCHANGED <<day, updated, version, received, callback, session, stops, late>>

\* Mutant of Erase: the deliveries are left to go with the versions.
EraseProcess(s) ==
  /\ duty[s] = "erase"
  /\ s \in doomed => ~RowLocked
  /\ IF s \in doomed
     THEN updated' = Gone /\ version' = [q \in Answers |-> "none"] /\ doomed' = {}
     ELSE UNCHANGED <<updated, version, doomed>>
  /\ sought' = [t \in Schedulers |-> sought[t] \ sought[s]]
  /\ duty' = [duty EXCEPT ![s] = "jobs"]
  /\ UNCHANGED <<day, received, callback, session, stops, late>>

\* expurgar, its deletions: the row is awaited, and deleted by its id, whatever was
\* written to it meanwhile; its versions go with it. What another scheduler deleted
\* is not there any more.
Erase(s) ==
  /\ duty[s] = "erase"
  /\ s \in doomed => ~RowLocked
  /\ IF s \in doomed
     THEN updated' = Gone /\ version' = [q \in Answers |-> "none"] /\ doomed' = {}
     ELSE UNCHANGED <<updated, version, doomed>>
  /\ received' = [q \in Answers |-> IF q \in sought[s] THEN Gone ELSE received[q]]
  /\ sought' = [t \in Schedulers |-> sought[t] \ sought[s]]
  /\ duty' = [duty EXCEPT ![s] = "jobs"]
  /\ UNCHANGED <<day, callback, session, stops, late>>

PurgeDeliveries(s) ==
  LET old == {q \in Answers : Older(received[q], JobRetention)}
  IN  /\ duty[s] = "deliveries"
      /\ received' = [q \in Answers |-> IF q \in old THEN Gone ELSE received[q]]
      /\ sought' = [t \in Schedulers |-> sought[t] \ old]
      /\ duty' = [duty EXCEPT ![s] = "track"]
      /\ UNCHANGED <<day, updated, version, callback, session, doomed, stops, late>>

MaintenanceNext ==
  \/ NextDay
  \/ \E q \in Answers :
       \/ RecordDelivery(q) \/ StageAnswer(q) \/ CommitCallback(q)
       \/ RollBack(q) \/ Finalize(q)
  \/ \E s \in Schedulers :
       \/ StartScheduler(s) \/ LoseLockSession(s) \/ StopScheduler(s)
       \/ EnqueueReconciliations(s) \/ SelectDoomed(s) \/ Erase(s)
       \/ PurgeTerminalJobs(s) \/ PurgeCompletions(s) \/ PurgeDeliveries(s)

MaintenanceSpec == MaintenanceInit /\ [][MaintenanceNext]_maintenanceVars

-----------------------------------------------------------------------------
(* Properties. *)

\* "expurgo remove versões, JSONB, movimentos, vetores e callbacks brutos da Judit"
\* (README.md:216). The code does not keep it: a callback that commits while the
\* statement waits for the row of the process, or just before it, is not in the
\* snapshot of the deliveries, but its version goes with the process. What is left then
\* makes the API discard a repetition of the callback, and the answer is lost until
\* the delivery is purged (expurgar).
CallbacksGoWithProcess == \A q \in Answers : received[q] # Gone => version[q] # "none"

\* What is left behind then is no more than that: a raw callback outlives its version only
\* if it was committed while an expurgation had selected the process. None that was on
\* record before is forgotten, by whichever scheduler, and none is on record whose answer
\* was never stored, which would make the API discard its repetitions (expurgar,
\* judit_webhook).
OnlyStragglersStay ==
  \A q \in Answers : received[q] # Gone /\ version[q] = "none" => q \in late

\* "The scheduler must remain singleton" (docs/deployment/production.md:37). The code
\* does not keep it when the session of the lock is lost between two cycles
\* (run_scheduler).
OneScheduler == \A s, t \in Schedulers : duty[s] # "stopped" /\ duty[t] # "stopped" => s = t
=============================================================================
