------------------------------ MODULE Summaries ------------------------------
(* Attachments and summaries of one promoted version of a process.

   The job process_judit_attachments (judit_attachments.py) downloads and parses
   the attachments of the version and, when none is pending, enqueues the job that
   generates the summary (rag.py) under the key summary:{version}. A later Judit
   answer equal to the version may enqueue repair jobs, with keys of their own, at
   any time. A job is taken as JobContract describes it: started a bounded number
   of times, also while an earlier execution is still running. Each execution is
   one member of Handlers or of Writers.

   The statements of a handler commit one by one, except the two transactions:
   replacing the chunks of an attachment and persisting a summary. A chunk is a
   pair of its attachment and the number of the replacement that wrote it: ids are
   never used twice. Movements and process data are fixed by the version, so only
   the evidence taken from attachments is kept. *)
EXTENDS Naturals, FiniteSets

CONSTANTS
  Attachments,  \* the manifest of the version
  Failures,     \* the states of an attachment that cannot be used
  Repairs,      \* repair jobs
  MaxStarts,    \* executions a generation job may have (max_attempts)
  MaxTasks,     \* executions the attachment job may have (max_attempts)
  MaxPrompt     \* prompt revisions that are deployed in turn

ASSUME SummariesAssumption ==
  /\ MaxStarts \in Nat \ {0} /\ MaxTasks \in Nat \ {0} /\ MaxPrompt \in Nat \ {0}
  /\ Failures \cap {"pending", "ready"} = {}
  /\ "summary" \notin Repairs

VARIABLES
  current,   \* the version is the current one of its process
  header,    \* the process's header is still the version's own
  instance,  \* the header names the court's instance
  status,    \* process_attachments.status
  chunk,     \* number of the last replacement of an attachment's chunks; 0: none
  decided,   \* history: the attachment has left pending once
  attJob,    \* the job attachments:{version}
  task,      \* executions of it: place, rows still to do, row at hand
  job,       \* generation jobs: the hand-over's and the repairs'
  verdict,   \* what the end of a generation job told the public request
  gen,       \* executions of generation jobs
  row,       \* the row of process_summaries
  prompt     \* the prompt revision that is deployed

versionVars == <<current, header, instance>>
attachmentVars == <<status, chunk, decided>>
vars == <<versionVars, attachmentVars, attJob, task, job, verdict, gen, row, prompt>>

Jobs == {"summary"} \cup Repairs
Writers == Jobs \X (1..MaxStarts)   \* the executions of each generation job
Handlers == 1..MaxTasks             \* the executions of the attachment job
Verdicts == {"none", "completed", "validation_failed", "failed"}
Statuses == {"pending", "ready"} \cup Failures
Chunks == Attachments \X Nat
NoRow == [by |-> <<"none", 0>>, passed |-> FALSE, declared |-> {}, evidence |-> {}, sources |-> {},
          prompt |-> 0]
Idle == [pc |-> "idle", prompt |-> 0, used |-> {}, passed |-> FALSE, evaluated |-> FALSE,
         cited |-> {}]
Rest == [pc |-> "idle", todo |-> {}, item |-> "none"]

\* The chunks that exist.
Live == {<<a, chunk[a]>> : a \in {b \in Attachments : chunk[b] > 0}}

Init ==
  /\ current = TRUE /\ header = TRUE /\ instance \in BOOLEAN
  /\ status = [a \in Attachments |-> "pending"]
  /\ chunk = [a \in Attachments |-> 0]
  /\ decided = [a \in Attachments |-> FALSE]
  /\ attJob = "open"
  /\ task = [h \in Handlers |-> Rest]
  /\ job = [j \in Jobs |-> "none"]
  /\ verdict = [j \in Jobs |-> "none"]
  /\ gen = [w \in Writers |-> Idle]
  /\ row = NoRow
  /\ prompt = 1

-----------------------------------------------------------------------------
(* The process around the version. *)

\* Another version is promoted: it brings its own header, equal or not.
Supersede ==
  /\ current
  /\ current' = FALSE
  /\ header' \in BOOLEAN
  /\ UNCHANGED <<instance, attachmentVars, attJob, task, job, verdict, gen, row, prompt>>

\* A new release changes the prompt; executions that run keep the old one.
Release ==
  /\ prompt < MaxPrompt
  /\ prompt' = prompt + 1
  /\ UNCHANGED <<versionVars, attachmentVars, attJob, task, job, verdict, gen, row>>

\* What every reader of the row asks: approved, about this process as it is now,
\* and each claim with exactly the evidence it declares, verified relations included.
EvidenceComplete(r) == r.evidence = r.declared
Publishable(r) == r.passed /\ header /\ EvidenceComplete(r)

\* A Judit answer equal to the current version finds no publishable summary.
Repair(j) ==
  /\ current
  /\ job[j] = "none"
  /\ ~Publishable(row)
  /\ job' = [job EXCEPT ![j] = "open"]
  /\ UNCHANGED <<versionVars, attachmentVars, attJob, task, verdict, gen, row, prompt>>

-----------------------------------------------------------------------------
(* The attachment job. *)

\* What the execution h does at the end of its handler.
EndTask(h) == task' = [task EXCEPT ![h] = [Rest EXCEPT !.pc = "ended"]]
Settle(old, new) == IF old = "open" THEN new ELSE old

\* The row must be current; the pending attachments are read once.
StartTask(h) ==
  /\ attJob = "open"
  /\ task[h].pc = "idle" /\ (h > 1 => task[h - 1].pc # "idle")
  /\ task' = [task EXCEPT ![h].pc = "load"]
  /\ UNCHANGED <<versionVars, attachmentVars, attJob, job, verdict, gen, row, prompt>>

LoadTask(h) ==
  /\ task[h].pc = "load"
  /\ \/ /\ current /\ instance
        /\ task' = [task EXCEPT ![h].pc = "item",
                                ![h].todo = {a \in Attachments : status[a] = "pending"}]
        /\ UNCHANGED attJob
     \/ /\ ~current
        /\ EndTask(h) /\ attJob' = Settle(attJob, "done")
     \/ /\ current /\ ~instance
        /\ EndTask(h) /\ attJob' = Settle(attJob, "dead")
  /\ UNCHANGED <<versionVars, attachmentVars, job, verdict, gen, row, prompt>>

\* A provider rejection or an unreadable document is written at once, whatever the
\* row has become since it was read; its chunks, if any, stay.
Upsert(h, a, s) ==
  /\ task[h].pc = "item" /\ a \in task[h].todo
  /\ status' = [status EXCEPT ![a] = s]

RecordFailure(h, a, s) ==
  /\ Upsert(h, a, s)
  /\ decided' = [decided EXCEPT ![a] = TRUE]
  /\ task' = [task EXCEPT ![h].todo = @ \ {a}]
  /\ UNCHANGED <<versionVars, chunk, attJob, job, verdict, gen, row, prompt>>

\* A parsed document is first marked as pending, in a statement of its own.
MarkPending(h, a) ==
  /\ Upsert(h, a, "pending")
  /\ task' = [task EXCEPT ![h].pc = "chunks", ![h].item = a]
  /\ UNCHANGED <<versionVars, chunk, decided, attJob, job, verdict, gen, row, prompt>>

\* Deleting the old chunks takes the evidence that cited them along (ON DELETE CASCADE).
Cascade(r, a) == [r EXCEPT !.evidence = {c \in @ : c[1] # a},
                           !.sources = {c \in @ : c[1] # a}]

ReplaceChunks(h) ==
  /\ task[h].pc = "chunks"
  /\ LET a == task[h].item IN
       /\ chunk' = [chunk EXCEPT ![a] = @ + 1]
       /\ status' = [status EXCEPT ![a] = "ready"]
       /\ decided' = [decided EXCEPT ![a] = TRUE]
       /\ row' = Cascade(row, a)
       /\ task' = [task EXCEPT ![h] = [pc |-> "item", todo |-> @.todo \ {a}, item |-> "none"]]
  /\ UNCHANGED <<versionVars, attJob, job, verdict, gen, prompt>>

\* All rows read are done: none may be pending, also none another execution has marked.
NonePending == \A a \in Attachments : status[a] # "pending"

\* Mutant: an attachment that is not available yet ends the loop, not the job.
CountSome(h) ==
  /\ task[h].pc = "item"
  /\ task' = [task EXCEPT ![h].pc = "enqueue"]
  /\ UNCHANGED <<versionVars, attachmentVars, attJob, job, verdict, gen, row, prompt>>

CountPending(h) ==
  /\ task[h].pc = "item" /\ task[h].todo = {}
  /\ NonePending
  /\ task' = [task EXCEPT ![h].pc = "enqueue"]
  /\ UNCHANGED <<versionVars, attachmentVars, attJob, job, verdict, gen, row, prompt>>

\* The hand-over; the key is used once.
EnqueueSummary(h) ==
  /\ task[h].pc = "enqueue"
  /\ job' = [job EXCEPT !["summary"] = IF @ = "none" THEN "open" ELSE @]
  /\ EndTask(h)
  /\ attJob' = Settle(attJob, "done")
  /\ UNCHANGED <<versionVars, attachmentVars, verdict, gen, row, prompt>>

\* Mutant: the last execution that fails buries nothing.
FailTaskSilently(h) ==
  /\ task[h].pc \notin {"idle", "ended"}
  /\ EndTask(h)
  /\ UNCHANGED <<versionVars, attachmentVars, attJob, job, verdict, gen, row, prompt>>

\* A source that is not ready, an ambiguous download, rows still pending, a timeout or
\* the death of the worker: the job is run again unless this was its last execution.
FailTask(h) ==
  /\ task[h].pc \notin {"idle", "ended"}
  /\ EndTask(h)
  /\ attJob' = IF task[MaxTasks].pc = "idle" THEN attJob ELSE Settle(attJob, "dead")
  /\ UNCHANGED <<versionVars, attachmentVars, job, verdict, gen, row, prompt>>

-----------------------------------------------------------------------------
(* Generation. *)

EndGen(w) == gen' = [gen EXCEPT ![w] = [Idle EXCEPT !.pc = "ended"]]

StartGen(w) ==
  /\ job[w[1]] = "open"
  /\ gen[w].pc = "idle" /\ (w[2] > 1 => gen[<<w[1], w[2] - 1>>].pc # "idle")
  /\ gen' = [gen EXCEPT ![w].pc = "reuse", ![w].prompt = prompt]
  /\ UNCHANGED <<versionVars, attachmentVars, attJob, task, job, verdict, row, prompt>>

\* A publishable summary of the current version is not paid for again.
Reuse(w) ==
  /\ gen[w].pc = "reuse"
  /\ gen' = [gen EXCEPT ![w] =
       IF current /\ Publishable(row) THEN [Idle EXCEPT !.pc = "record", !.passed = TRUE]
       ELSE [@ EXCEPT !.pc = "context"]]
  /\ UNCHANGED <<versionVars, attachmentVars, attJob, task, job, verdict, row, prompt>>

\* The chunks that are ready, current and found by the query, at most a limit of them.
\* A job whose tenant is not known reads none. The states of the attachments are counted
\* too; they only become warnings in the text.
LoadChunks(w) ==
  /\ gen[w].pc = "context" /\ current
  /\ \E used \in SUBSET {c \in Live : status[c[1]] = "ready"} :
       gen' = [gen EXCEPT ![w].pc = "call", ![w].used = used]
  /\ UNCHANGED <<versionVars, attachmentVars, attJob, task, job, verdict, row, prompt>>

\* One call, or two when the first text does not pass. A text that passes cites chunks that
\* were sent; a claim with a fact that can be checked is verified against them.
Call(w) ==
  /\ gen[w].pc = "call"
  /\ \E ok, ev \in BOOLEAN : \E cited \in SUBSET gen[w].used :
       /\ ~ok => ~ev /\ cited = {}
       /\ gen' = [gen EXCEPT ![w].pc = "persist", ![w].passed = ok, ![w].evaluated = ev,
                             ![w].cited = cited]
  /\ UNCHANGED <<versionVars, attachmentVars, attJob, task, job, verdict, row, prompt>>

\* What the transaction writes for the execution w.
NewRow(w) == [by |-> w, passed |-> gen[w].passed, declared |-> gen[w].cited,
              evidence |-> gen[w].cited, sources |-> gen[w].used, prompt |-> gen[w].prompt]

\* The evidence of the new text as the transaction assembles it has no reason and no digest
\* for the verified relations, which the test of publishability asks for.
IncomingPublishable(w) == gen[w].passed /\ header /\ ~gen[w].evaluated

ReplaceApproved(w) ==
  /\ row.passed
  /\ IncomingPublishable(w)
  /\ ~Publishable(row) \/ row.prompt # gen[w].prompt

\* Mutant: the references are not checked.
SourcesTrusted(w) == TRUE

\* Foreign keys and triggers refuse provenance of a chunk that is gone.
SourcesExist(w) == gen[w].used \subseteq Live

\* No row to lock: the decision is made before the insert, which may meet a row by then.
FindNoRow(w) ==
  /\ gen[w].pc = "persist" /\ row = NoRow
  /\ gen' = [gen EXCEPT ![w].pc = "insert"]
  /\ UNCHANGED <<versionVars, attachmentVars, attJob, task, job, verdict, row, prompt>>

\* Mutant: an insert that meets a row overwrites it.
MayOverwrite(w) == ~row.passed \/ gen[w].pc = "insert" \/ ReplaceApproved(w)

MayReplace(w) == ~row.passed \/ (gen[w].pc = "persist" /\ ReplaceApproved(w))

Persist(w) ==
  /\ \/ gen[w].pc = "persist" /\ row # NoRow
     \/ gen[w].pc = "insert"
  /\ MayReplace(w) => SourcesExist(w)
  /\ row' = IF MayReplace(w) THEN NewRow(w) ELSE row
  /\ gen' = [gen EXCEPT ![w] = [Idle EXCEPT !.pc = "record", !.passed = gen[w].passed]]
  /\ UNCHANGED <<versionVars, attachmentVars, attJob, task, job, verdict, prompt>>

\* The job is completed and, in the same transaction, the public request is told.
RecordResult(w) ==
  /\ gen[w].pc = "record"
  /\ LET j == w[1] IN
       /\ job' = [job EXCEPT ![j] = Settle(@, "done")]
       /\ verdict' = [verdict EXCEPT ![j] =
            IF job[j] # "open" THEN @
            ELSE IF gen[w].passed /\ current /\ Publishable(row) THEN "completed"
            ELSE "validation_failed"]
  /\ EndGen(w)
  /\ UNCHANGED <<versionVars, attachmentVars, attJob, task, row, prompt>>

\* A job is buried, and in the same transaction its public request fails; the attachment
\* job is not one of those that mark_job_dead knows.
Bury(j) ==
  /\ job' = [job EXCEPT ![j] = Settle(@, "dead")]
  /\ verdict' = [verdict EXCEPT ![j] = IF job[j] = "open" THEN "failed" ELSE @]

\* A refusal, an over-long answer or prompt, a text that is no document: no retry.
RefuseGen(w) ==
  /\ gen[w].pc = "call"
  /\ Bury(w[1])
  /\ EndGen(w)
  /\ UNCHANGED <<versionVars, attachmentVars, attJob, task, row, prompt>>

\* A version that is not current any more, a chunk that is gone, an error of a provider or
\* of the database, a timeout, the death of the worker.
FailGen(w) ==
  /\ gen[w].pc \notin {"idle", "ended"}
  /\ IF gen[<<w[1], MaxStarts>>].pc = "idle" THEN UNCHANGED <<job, verdict>> ELSE Bury(w[1])
  /\ EndGen(w)
  /\ UNCHANGED <<versionVars, attachmentVars, attJob, task, row, prompt>>

-----------------------------------------------------------------------------
TaskStep(h) ==
  \/ LoadTask(h) \/ CountPending(h) \/ EnqueueSummary(h) \/ FailTask(h) \/ ReplaceChunks(h)
  \/ \E a \in Attachments : MarkPending(h, a) \/ \E s \in Failures : RecordFailure(h, a, s)

GenStep(w) ==
  \/ Reuse(w) \/ LoadChunks(w) \/ Call(w) \/ FindNoRow(w) \/ Persist(w)
  \/ RecordResult(w) \/ RefuseGen(w) \/ FailGen(w)

Next ==
  \/ Supersede \/ Release
  \/ \E j \in Repairs : Repair(j)
  \/ \E h \in Handlers : StartTask(h) \/ TaskStep(h)
  \/ \E w \in Writers : StartGen(w) \/ GenStep(w)

\* Workers run on: an open job is started and an execution takes its next step, at the
\* latest when its lease is taken away. Nothing obliges Judit or the operators to act.
Fairness ==
  /\ \A h \in Handlers : WF_vars(StartTask(h)) /\ WF_vars(TaskStep(h))
  /\ \A w \in Writers : WF_vars(StartGen(w)) /\ WF_vars(GenStep(w))

Spec == Init /\ [][Next]_vars /\ Fairness

-----------------------------------------------------------------------------
(* Properties. *)

\* The rows, jobs and executions are well formed.
TypeOK ==
  /\ current \in BOOLEAN /\ header \in BOOLEAN /\ instance \in BOOLEAN
  /\ status \in [Attachments -> Statuses]
  /\ chunk \in [Attachments -> Nat]
  /\ decided \in [Attachments -> BOOLEAN]
  /\ attJob \in {"open", "done", "dead"}
  /\ task \in [Handlers -> [pc : {"idle", "load", "item", "chunks", "enqueue", "ended"},
                            todo : SUBSET Attachments, item : Attachments \cup {"none"}]]
  /\ job \in [Jobs -> {"none", "open", "done", "dead"}]
  /\ verdict \in [Jobs -> Verdicts]
  /\ gen \in [Writers ->
       [pc : {"idle", "reuse", "context", "call", "persist", "insert", "record", "ended"},
        prompt : 0..MaxPrompt, used : SUBSET Chunks, passed : BOOLEAN, evaluated : BOOLEAN, cited : SUBSET Chunks]]
  /\ row \in [by : Writers \cup {<<"none", 0>>}, passed : BOOLEAN,
              declared : SUBSET Chunks, evidence : SUBSET Chunks, sources : SUBSET Chunks,
              prompt : 0..MaxPrompt]
  /\ prompt \in 1..MaxPrompt

\* Provenance never points to a chunk that is gone, and a claim rests only on chunks recorded
\* as sent to the model, however executions that parse again and executions that write are
\* interleaved (process_summary_attachment_sources, process_summary_claim_sources).
EvidenceIsLive == row.evidence \subseteq row.sources /\ row.sources \subseteq Live

\* The hand-over waits: once the job of the summary exists, every attachment has been read,
\* rejected or found unreadable at least once, by whichever execution (judit_attachments.py).
HandedOverWhenDecided == job["summary"] # "none" => \A a \in Attachments : decided[a]

\* An approved summary gives way only to one that readers accept, and only when it is itself
\* no longer accepted or of another prompt: no late or failed generation replaces it
\* (_persist_summary, and the insert that meets a row it did not see).
ApprovedGivesWay ==
  [][row.passed /\ row'.by # row.by =>
       /\ Publishable(row')
       /\ ~Publishable(row) \/ row.prompt # row'.prompt]_vars

\* The attachment job has ended and no summary has been asked for: it was buried, or the
\* version was not current any more.  mark_job_dead has no case for that job, and a stale
\* version returns without a word: in both cases the public request stays open.
EndedWithoutHandOver == attJob # "open" /\ job["summary"] = "none"

\* Every promoted version gets its answer, whatever fails: unless its attachment job ends
\* without a hand-over, the public request is told in the end that the summary is completed,
\* that its validation failed or that its job is dead (process_judit_attachments_task,
\* reconcile_generation_result, mark_job_dead).
VersionIsAnswered == <>[](EndedWithoutHandOver \/ verdict["summary"] # "none")

\* A repair is stored: a generation that passes, for the current version and with evidence
\* that exists, replaces an approved summary whose provenance has been damaged
\* (tests/integration/test_summary_existing_valid_fast_path_postgres.py:219, 318).
RepairIsStored ==
  [][\A w \in Writers :
       /\ gen[w].pc = "persist" /\ gen'[w].pc = "record"
       /\ gen[w].passed /\ current /\ SourcesExist(w)
       /\ row.passed /\ ~Publishable(row)
       => row'.by = w]_vars
=============================================================================
