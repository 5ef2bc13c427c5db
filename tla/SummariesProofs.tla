--------------------------- MODULE SummariesProofs ---------------------------
(* Theorems about the attachments and the summary of a version, for any attachments and
   repairs and any number of executions and releases. *)
EXTENDS Summaries, TLAPS

TaskRecords == [pc : {"idle", "load", "item", "chunks", "enqueue", "ended"},
                todo : SUBSET Attachments, item : Attachments \cup {"none"}]
GenRecords ==
  [pc : {"idle", "reuse", "context", "call", "persist", "insert", "record", "ended"},
   prompt : 0..MaxPrompt, used : SUBSET Chunks, passed : BOOLEAN, evaluated : BOOLEAN,
   cited : SUBSET Chunks]
RowRecords == [by : Writers \cup {<<"none", 0>>}, passed : BOOLEAN,
               declared : SUBSET Chunks, evidence : SUBSET Chunks, sources : SUBSET Chunks,
               prompt : 0..MaxPrompt]

\* What holds of an execution q of the attachment job when these attachments are decided.
TaskSound(q, settled) ==
  /\ q.pc = "chunks" => q.item \in Attachments
  /\ q.pc = "enqueue" => \A a \in Attachments : settled[a]

\* A text that waits to be stored cites only chunks that were sent.
GenSound(q) == q.pc \in {"persist", "insert"} => q.cited \subseteq q.used

\* The attachments and what waits for them.
AttachmentsSound ==
  /\ status \in [Attachments -> Statuses]
  /\ chunk \in [Attachments -> Nat]
  /\ decided \in [Attachments -> BOOLEAN]
  /\ \A a \in Attachments : status[a] # "pending" => decided[a]

TasksSound ==
  /\ task \in [Handlers -> TaskRecords]
  /\ \A h \in Handlers : TaskSound(task[h], decided)

GensSound ==
  /\ gen \in [Writers -> GenRecords]
  /\ \A w \in Writers : GenSound(gen[w])

RowSound ==
  /\ row \in RowRecords
  /\ EvidenceIsLive

JobsSound ==
  /\ attJob \in {"open", "done", "dead"}
  /\ job \in [Jobs -> {"none", "open", "done", "dead"}]
  /\ verdict \in [Jobs -> Verdicts]
  /\ HandedOverWhenDecided

WorldSound ==
  /\ current \in BOOLEAN /\ header \in BOOLEAN /\ instance \in BOOLEAN
  /\ prompt \in 1..MaxPrompt

SummariesInv ==
  /\ WorldSound /\ AttachmentsSound /\ TasksSound /\ JobsSound /\ GensSound /\ RowSound

-----------------------------------------------------------------------------
(* One execution, one attachment and the row. *)

\* A step of one execution of the attachment job keeps them sound when what was decided
\* stays decided.
LEMMA OneTaskMoves ==
  ASSUME TasksSound, NEW h \in Handlers, NEW q \in TaskRecords,
         task' = [task EXCEPT ![h] = q], TaskSound(q, decided'),
         \A a \in Attachments : decided[a] => decided'[a]
  PROVE  TasksSound'
<1>1. task' \in [Handlers -> TaskRecords]
  BY DEF TasksSound
<1>2. ASSUME NEW g \in Handlers PROVE TaskSound(task'[g], decided')
  <2>1. CASE g = h
    BY <2>1 DEF TasksSound
  <2>2. CASE g # h
    <3>1. task'[g] = task[g] /\ TaskSound(task[g], decided)
      BY <2>2 DEF TasksSound
    <3>2. QED
      BY <3>1 DEF TaskSound
  <2>3. QED
    BY <2>1, <2>2
<1>3. QED
  BY <1>1, <1>2 DEF TasksSound, TaskRecords

\* A step of one generation keeps them sound.
LEMMA OneGenMoves ==
  ASSUME GensSound, NEW w \in Writers, NEW q \in GenRecords,
         gen' = [gen EXCEPT ![w] = q], GenSound(q)
  PROVE  GensSound'
<1>1. gen' \in [Writers -> GenRecords]
  BY DEF GensSound
<1>2. ASSUME NEW v \in Writers PROVE GenSound(gen'[v])
  BY DEF GensSound
<1>3. QED
  BY <1>1, <1>2 DEF GensSound, GenRecords, GenSound

\* Replacing the chunks of an attachment takes along what the row had of it, and nothing
\* else that exists is lost.
LEMMA CascadeKeeps ==
  ASSUME AttachmentsSound, RowSound, NEW a \in Attachments,
         chunk' = [chunk EXCEPT ![a] = @ + 1], row' = Cascade(row, a)
  PROVE  RowSound' /\ row'.by = row.by
<1>1. /\ row' \in RowRecords /\ row'.by = row.by
      /\ row'.evidence = {c \in row.evidence : c[1] # a}
      /\ row'.sources = {c \in row.sources : c[1] # a}
  BY DEF RowSound, RowRecords, Cascade
<1>2. row'.evidence \subseteq row'.sources
  BY <1>1 DEF RowSound, EvidenceIsLive
<1>3. ASSUME NEW c \in Live, c[1] # a PROVE c \in Live'
  <2>1. PICK b \in Attachments : chunk[b] > 0 /\ c = <<b, chunk[b]>>
    BY DEF Live
  <2>2. chunk'[b] = chunk[b]
    BY <1>3, <2>1 DEF AttachmentsSound
  <2>3. QED
    BY <2>1, <2>2 DEF Live
<1>4. row'.sources \subseteq Live'
  BY <1>1, <1>3 DEF RowSound, EvidenceIsLive
<1>5. QED
  BY <1>1, <1>2, <1>4 DEF RowSound, EvidenceIsLive, RowRecords

\* A row of sources that exist, with a text that cites nothing else.
LEMMA NewRowIsSound ==
  ASSUME GensSound, NEW w \in Writers, gen[w].pc \in {"persist", "insert"},
         SourcesExist(w), row' = NewRow(w), chunk' = chunk
  PROVE  RowSound'
<1>1. gen[w] \in GenRecords /\ gen[w].cited \subseteq gen[w].used
  BY DEF GensSound, GenSound
<1>2. row' \in RowRecords /\ row'.evidence = gen[w].cited /\ row'.sources = gen[w].used
  BY <1>1 DEF NewRow, GenRecords, RowRecords
<1>3. Live' = Live
  BY DEF Live
<1>4. QED
  BY <1>1, <1>2, <1>3 DEF RowSound, EvidenceIsLive, SourcesExist, RowRecords

\* The records executions begin and end with.
LEMMA RestIsSound ==
  ASSUME NEW settled
  PROVE  /\ [Rest EXCEPT !.pc = "ended"] \in TaskRecords
         /\ TaskSound([Rest EXCEPT !.pc = "ended"], settled)
         /\ Rest \in TaskRecords /\ TaskSound(Rest, settled)
BY DEF Rest, TaskRecords, TaskSound

\* The records generations begin and end with.
LEMMA IdleIsSound ==
  /\ Idle \in GenRecords /\ GenSound(Idle)
  /\ [Idle EXCEPT !.pc = "ended"] \in GenRecords /\ GenSound([Idle EXCEPT !.pc = "ended"])
  /\ \A p \in BOOLEAN : /\ [Idle EXCEPT !.pc = "record", !.passed = p] \in GenRecords
                        /\ GenSound([Idle EXCEPT !.pc = "record", !.passed = p])
<1>1. 0 \in 0..MaxPrompt
  BY SummariesAssumption
<1>2. Idle \in GenRecords
  BY <1>1 DEF Idle, GenRecords
<1>3. [Idle EXCEPT !.pc = "ended"] \in GenRecords
  BY <1>2 DEF GenRecords
<1>4. ASSUME NEW p \in BOOLEAN
      PROVE  [Idle EXCEPT !.pc = "record", !.passed = p] \in GenRecords
  BY <1>2, <1>4 DEF GenRecords
<1>5. /\ Idle.pc = "idle" /\ [Idle EXCEPT !.pc = "ended"].pc = "ended"
      /\ \A p \in BOOLEAN : [Idle EXCEPT !.pc = "record", !.passed = p].pc = "record"
  BY DEF Idle
<1>6. QED
  BY <1>2, <1>3, <1>4, <1>5 DEF GenSound

\* What an execution ends keeps the executions sound.
LEMMA EndTaskKeeps ==
  ASSUME TasksSound, NEW h \in Handlers, EndTask(h), decided' = decided
  PROVE  TasksSound'
BY RestIsSound, OneTaskMoves DEF EndTask

\* So does the end of a generation.
LEMMA EndGenKeeps ==
  ASSUME GensSound, NEW w \in Writers, EndGen(w)
  PROVE  GensSound'
BY IdleIsSound, OneGenMoves DEF EndGen

\* A settled job stays settled.
LEMMA SettleKeeps ==
  ASSUME NEW old \in {"none", "open", "done", "dead"}, NEW new \in {"done", "dead"}
  PROVE  /\ Settle(old, new) \in {"none", "open", "done", "dead"}
         /\ Settle(old, new) = "none" <=> old = "none"
         /\ old # "none" => Settle(old, new) \in {"open", "done", "dead"}
BY DEF Settle

\* The parts of the state a step leaves alone stay sound.
LEMMA PartsStay ==
  /\ WorldSound /\ UNCHANGED <<versionVars, prompt>> => WorldSound'
  /\ AttachmentsSound /\ UNCHANGED attachmentVars => AttachmentsSound'
  /\ TasksSound /\ UNCHANGED <<task, decided>> => TasksSound'
  /\ GensSound /\ UNCHANGED gen => GensSound'
  /\ RowSound /\ UNCHANGED <<row, chunk>> => RowSound'
  /\ JobsSound /\ UNCHANGED <<attJob, job, verdict, decided>> => JobsSound'
<1>1. WorldSound /\ UNCHANGED <<versionVars, prompt>> => WorldSound'
  BY DEF WorldSound, versionVars
<1>2. AttachmentsSound /\ UNCHANGED attachmentVars => AttachmentsSound'
  BY DEF AttachmentsSound, attachmentVars
<1>3. TasksSound /\ UNCHANGED <<task, decided>> => TasksSound'
  BY DEF TasksSound, TaskSound, TaskRecords
<1>4. GensSound /\ UNCHANGED gen => GensSound'
  BY DEF GensSound, GenSound, GenRecords
<1>5. RowSound /\ UNCHANGED <<row, chunk>> => RowSound'
  BY DEF RowSound, RowRecords, EvidenceIsLive, Live
<1>6. JobsSound /\ UNCHANGED <<attJob, job, verdict, decided>> => JobsSound'
  BY DEF JobsSound, HandedOverWhenDecided
<1>7. QED
  BY <1>1, <1>2, <1>3, <1>4, <1>5, <1>6

-----------------------------------------------------------------------------
(* The steps of the attachment job. *)

\* The places of an execution that change nothing but itself.
LEMMA TaskPlaces ==
  ASSUME SummariesInv, NEW h \in Handlers, NEW q \in TaskRecords, TaskSound(q, decided),
         task' = [task EXCEPT ![h] = q], attJob' \in {"open", "done", "dead"},
         UNCHANGED <<versionVars, attachmentVars, job, verdict, gen, row, prompt>>
  PROVE  SummariesInv'
<1>1. TasksSound'
  BY OneTaskMoves DEF SummariesInv, attachmentVars
<1>2. JobsSound'
  BY DEF SummariesInv, JobsSound, HandedOverWhenDecided, attachmentVars
<1>3. QED
  BY <1>1, <1>2, PartsStay DEF SummariesInv, attachmentVars

\* The start of an execution, its reading of the rows, the count of those that are
\* pending and its failure keep the invariant.
LEMMA TaskReads ==
  ASSUME SummariesInv, NEW h \in Handlers,
         StartTask(h) \/ LoadTask(h) \/ CountPending(h) \/ FailTask(h)
  PROVE  SummariesInv'
<1>0. /\ task[h] \in TaskRecords /\ attJob \in {"open", "done", "dead"}
      /\ \A a \in Attachments : status[a] # "pending" => decided[a]
  BY DEF SummariesInv, TasksSound, JobsSound, AttachmentsSound
<1>1. \A new \in {"done", "dead"} : Settle(attJob, new) \in {"open", "done", "dead"}
  BY <1>0, SettleKeeps
<1>2. CASE StartTask(h)
  <2> DEFINE q == [task[h] EXCEPT !.pc = "load"]
  <2>1. q \in TaskRecords /\ q.pc = "load"
    BY <1>0 DEF TaskRecords
  <2>2. task' = [task EXCEPT ![h] = q]
    BY <1>2 DEF StartTask
  <2> HIDE DEF q
  <2>3. TaskSound(q, decided)
    BY <2>1 DEF TaskSound
  <2>4. QED
    BY <1>0, <1>2, <2>1, <2>2, <2>3, TaskPlaces DEF StartTask
<1>3. CASE CountPending(h)
  <2> DEFINE q == [task[h] EXCEPT !.pc = "enqueue"]
  <2>1. q \in TaskRecords /\ q.pc = "enqueue"
    BY <1>0 DEF TaskRecords
  <2>2. task' = [task EXCEPT ![h] = q]
    BY <1>3 DEF CountPending
  <2>3. \A a \in Attachments : decided[a]
    BY <1>0, <1>3 DEF CountPending, NonePending
  <2> HIDE DEF q
  <2>4. TaskSound(q, decided)
    BY <2>1, <2>3 DEF TaskSound
  <2>5. QED
    BY <1>0, <1>3, <2>1, <2>2, <2>4, TaskPlaces DEF CountPending
<1>4. CASE LoadTask(h) /\ EndTask(h)
  BY <1>0, <1>1, <1>4, RestIsSound, TaskPlaces DEF LoadTask, EndTask
<1>5. CASE LoadTask(h) /\ ~EndTask(h)
  <2> DEFINE q == [task[h] EXCEPT !.pc = "item",
                                  !.todo = {a \in Attachments : status[a] = "pending"}]
  <2>1. q \in TaskRecords /\ q.pc = "item"
    BY <1>0 DEF TaskRecords
  <2>2. task' = [task EXCEPT ![h] = q] /\ attJob' = attJob
    BY <1>5 DEF LoadTask
  <2> HIDE DEF q
  <2>3. TaskSound(q, decided)
    BY <2>1 DEF TaskSound
  <2>4. QED
    BY <1>0, <1>5, <2>1, <2>2, <2>3, TaskPlaces DEF LoadTask
<1>6. CASE FailTask(h)
  BY <1>0, <1>1, <1>6, RestIsSound, TaskPlaces DEF FailTask, EndTask
<1>7. QED
  BY <1>2, <1>3, <1>4, <1>5, <1>6

\* What an attachment has become keeps the invariant: whatever leaves pending is decided.
LEMMA TaskWrites ==
  ASSUME SummariesInv, NEW h \in Handlers, NEW a \in Attachments,
         MarkPending(h, a) \/ \E s \in Failures : RecordFailure(h, a, s)
  PROVE  SummariesInv'
<1>0. task[h] \in TaskRecords /\ AttachmentsSound
  BY DEF SummariesInv, TasksSound
<1>1. CASE MarkPending(h, a)
  <2> DEFINE q == [task[h] EXCEPT !.pc = "chunks", !.item = a]
  <2>1. q \in TaskRecords /\ q.pc = "chunks" /\ q.item = a
    BY <1>0 DEF TaskRecords
  <2>2. /\ task' = [task EXCEPT ![h] = q]
        /\ status' = [status EXCEPT ![a] = "pending"] /\ UNCHANGED <<chunk, decided>>
    BY <1>1 DEF MarkPending, Upsert
  <2> HIDE DEF q
  <2>3. TaskSound(q, decided)
    BY <2>1 DEF TaskSound
  <2>4. TasksSound'
    BY <2>1, <2>2, <2>3, OneTaskMoves DEF SummariesInv
  <2>5. AttachmentsSound'
    BY <1>0, <2>2 DEF AttachmentsSound, Statuses
  <2>6. QED
    BY <1>1, <2>2, <2>4, <2>5, PartsStay DEF SummariesInv, MarkPending
<1>2. ASSUME NEW s \in Failures, RecordFailure(h, a, s)
      PROVE  SummariesInv'
  <2> DEFINE q == [task[h] EXCEPT !.todo = @ \ {a}]
  <2>1. q \in TaskRecords /\ q.pc = "item"
    BY <1>0, <1>2 DEF TaskRecords, RecordFailure, Upsert
  <2>2. /\ task' = [task EXCEPT ![h] = q] /\ chunk' = chunk
        /\ status' = [status EXCEPT ![a] = s] /\ decided' = [decided EXCEPT ![a] = TRUE]
    BY <1>2 DEF RecordFailure, Upsert
  <2> HIDE DEF q
  <2>3. TaskSound(q, decided')
    BY <2>1 DEF TaskSound
  <2>4. \A b \in Attachments : decided[b] => decided'[b]
    BY <1>0, <2>2 DEF AttachmentsSound
  <2>5. TasksSound'
    BY <2>1, <2>2, <2>3, <2>4, OneTaskMoves DEF SummariesInv
  <2>6. AttachmentsSound'
    BY <1>0, <2>2 DEF AttachmentsSound, Statuses
  <2>7. JobsSound'
    BY <1>2, <2>4 DEF SummariesInv, JobsSound, HandedOverWhenDecided, RecordFailure
  <2>8. QED
    BY <1>2, <2>2, <2>5, <2>6, <2>7, PartsStay DEF SummariesInv, RecordFailure
<1>3. QED
  BY <1>1, <1>2

\* Replacing the chunks of an attachment keeps the invariant.
LEMMA ReplaceChunksKeeps ==
  ASSUME SummariesInv, NEW h \in Handlers, ReplaceChunks(h)
  PROVE  SummariesInv' /\ row'.by = row.by
<1> DEFINE a == task[h].item
           q == [pc |-> "item", todo |-> task[h].todo \ {a}, item |-> "none"]
<1>0. AttachmentsSound /\ RowSound /\ TasksSound
  BY DEF SummariesInv
<1>1. task[h] \in TaskRecords /\ a \in Attachments
  BY <1>0 DEF TasksSound, TaskSound, ReplaceChunks
<1>2. q \in TaskRecords /\ q.pc = "item"
  BY <1>1 DEF TaskRecords
<1>3. /\ task' = [task EXCEPT ![h] = q] /\ chunk' = [chunk EXCEPT ![a] = @ + 1]
      /\ status' = [status EXCEPT ![a] = "ready"] /\ decided' = [decided EXCEPT ![a] = TRUE]
      /\ row' = Cascade(row, a)
  BY DEF ReplaceChunks
<1> HIDE DEF a, q
<1>4. RowSound' /\ row'.by = row.by
  BY <1>0, <1>1, <1>3, CascadeKeeps
<1>5. \A b \in Attachments : decided[b] => decided'[b]
  BY <1>0, <1>3 DEF AttachmentsSound
<1>6. TaskSound(q, decided')
  BY <1>2 DEF TaskSound
<1>7. TasksSound'
  BY <1>0, <1>2, <1>3, <1>5, <1>6, OneTaskMoves
<1>8. AttachmentsSound'
  BY <1>0, <1>1, <1>3 DEF AttachmentsSound, Statuses
<1>9. JobsSound'
  BY <1>5 DEF SummariesInv, JobsSound, HandedOverWhenDecided, ReplaceChunks
<1>10. QED
  BY <1>4, <1>7, <1>8, <1>9, PartsStay DEF SummariesInv, ReplaceChunks

\* The hand-over keeps the invariant: its execution has seen every attachment decided.
LEMMA EnqueueKeeps ==
  ASSUME SummariesInv, NEW h \in Handlers, EnqueueSummary(h)
  PROVE  SummariesInv'
<1>1. \A a \in Attachments : decided[a]
  BY DEF SummariesInv, TasksSound, TaskSound, EnqueueSummary
<1>2. TasksSound'
  BY EndTaskKeeps DEF SummariesInv, EnqueueSummary, attachmentVars
<1>3. attJob' \in {"open", "done", "dead"}
  BY SettleKeeps DEF SummariesInv, JobsSound, EnqueueSummary
<1>4. JobsSound'
  BY <1>1, <1>3
     DEF SummariesInv, JobsSound, HandedOverWhenDecided, EnqueueSummary, attachmentVars, Jobs
<1>5. QED
  BY <1>2, <1>4, PartsStay DEF SummariesInv, EnqueueSummary, attachmentVars

-----------------------------------------------------------------------------
(* The steps of generations. *)

\* What jobs become at the end of a generation keeps the hand-over in order.
LEMMA JobSettles ==
  ASSUME JobsSound, NEW j \in Jobs, NEW new \in {"done", "dead"},
         job' = [job EXCEPT ![j] = Settle(@, new)] \/ job' = job,
         verdict' \in [Jobs -> Verdicts],
         UNCHANGED <<attJob, decided>>
  PROVE  JobsSound'
<1>1. job' \in [Jobs -> {"none", "open", "done", "dead"}]
  BY SettleKeeps DEF JobsSound
<1>2. job'["summary"] # "none" => job["summary"] # "none"
  BY DEF JobsSound, Settle, Jobs
<1>3. QED
  BY <1>1, <1>2 DEF JobsSound, HandedOverWhenDecided

\* The places of a generation that change nothing but itself.
LEMMA GenPlaces ==
  ASSUME SummariesInv, NEW w \in Writers, NEW q \in GenRecords, GenSound(q),
         gen' = [gen EXCEPT ![w] = q],
         UNCHANGED <<versionVars, attachmentVars, attJob, task, job, verdict, row, prompt>>
  PROVE  SummariesInv'
<1>1. GensSound'
  BY OneGenMoves DEF SummariesInv
<1>2. QED
  BY <1>1, PartsStay DEF SummariesInv, attachmentVars

\* Everything a generation does before it stores its text keeps the invariant.
LEMMA GenReads ==
  ASSUME SummariesInv, NEW w \in Writers,
         StartGen(w) \/ Reuse(w) \/ LoadChunks(w) \/ Call(w) \/ FindNoRow(w)
  PROVE  SummariesInv'
<1>0. /\ gen[w] \in GenRecords /\ GenSound(gen[w]) /\ prompt \in 0..MaxPrompt
      /\ Live \subseteq Chunks
  <2>1. prompt \in 1..MaxPrompt
    BY DEF SummariesInv, WorldSound
  <2>2. Live \subseteq Chunks
    BY DEF SummariesInv, AttachmentsSound, Live, Chunks
  <2>3. QED
    BY <2>1, <2>2, SummariesAssumption DEF SummariesInv, GensSound
<1>1. CASE StartGen(w)
  <2> DEFINE q == [gen[w] EXCEPT !.pc = "reuse", !.prompt = prompt]
  <2>1. q \in GenRecords /\ q.pc = "reuse"
    BY <1>0 DEF GenRecords
  <2>2. gen' = [gen EXCEPT ![w] = q]
    BY <1>1 DEF StartGen
  <2> HIDE DEF q
  <2>3. GenSound(q)
    BY <2>1 DEF GenSound
  <2>4. QED
    BY <1>1, <2>1, <2>2, <2>3, GenPlaces DEF StartGen
<1>2. CASE Reuse(w) /\ current /\ Publishable(row)
  <2> DEFINE q == [Idle EXCEPT !.pc = "record", !.passed = TRUE]
  <2>1. q \in GenRecords /\ GenSound(q)
    BY IdleIsSound
  <2>2. gen' = [gen EXCEPT ![w] = q]
    BY <1>2 DEF Reuse
  <2> HIDE DEF q
  <2>3. QED
    BY <1>2, <2>1, <2>2, GenPlaces DEF Reuse
<1>3. CASE Reuse(w) /\ ~(current /\ Publishable(row))
  <2> DEFINE q == [gen[w] EXCEPT !.pc = "context"]
  <2>1. q \in GenRecords /\ q.pc = "context"
    BY <1>0 DEF GenRecords
  <2>2. gen' = [gen EXCEPT ![w] = q]
    BY <1>3 DEF Reuse
  <2> HIDE DEF q
  <2>3. GenSound(q)
    BY <2>1 DEF GenSound
  <2>4. QED
    BY <1>3, <2>1, <2>2, <2>3, GenPlaces DEF Reuse
<1>4. CASE LoadChunks(w)
  <2>1. PICK used \in SUBSET {c \in Live : status[c[1]] = "ready"} :
          gen' = [gen EXCEPT ![w].pc = "call", ![w].used = used]
    BY <1>4 DEF LoadChunks
  <2> DEFINE q == [gen[w] EXCEPT !.pc = "call", !.used = used]
  <2>2. q \in GenRecords /\ q.pc = "call"
    BY <1>0 DEF GenRecords
  <2>3. gen' = [gen EXCEPT ![w] = q]
    BY <2>1
  <2> HIDE DEF q
  <2>4. GenSound(q)
    BY <2>2 DEF GenSound
  <2>5. QED
    BY <1>4, <2>2, <2>3, <2>4, GenPlaces DEF LoadChunks
<1>5. CASE Call(w)
  <2>1. PICK ok \in BOOLEAN, ev \in BOOLEAN, cited \in SUBSET gen[w].used :
          gen' = [gen EXCEPT ![w].pc = "persist", ![w].passed = ok, ![w].evaluated = ev,
                             ![w].cited = cited]
    BY <1>5 DEF Call
  <2> DEFINE q == [gen[w] EXCEPT !.pc = "persist", !.passed = ok, !.evaluated = ev,
                                 !.cited = cited]
  <2>2. q \in GenRecords /\ q.cited = cited /\ q.used = gen[w].used
    BY <1>0, <2>1 DEF GenRecords
  <2>3. gen' = [gen EXCEPT ![w] = q]
    BY <2>1
  <2> HIDE DEF q
  <2>4. GenSound(q)
    BY <2>2 DEF GenSound
  <2>5. QED
    BY <1>5, <2>2, <2>3, <2>4, GenPlaces DEF Call
<1>6. CASE FindNoRow(w)
  <2> DEFINE q == [gen[w] EXCEPT !.pc = "insert"]
  <2>1. q \in GenRecords /\ q.cited = gen[w].cited /\ q.used = gen[w].used /\ gen[w].pc = "persist"
    BY <1>0, <1>6 DEF GenRecords, FindNoRow
  <2>2. gen' = [gen EXCEPT ![w] = q]
    BY <1>6 DEF FindNoRow
  <2> HIDE DEF q
  <2>3. GenSound(q)
    BY <1>0, <2>1 DEF GenSound
  <2>4. QED
    BY <1>6, <2>1, <2>2, <2>3, GenPlaces DEF FindNoRow
<1>7. QED
  BY <1>1, <1>2, <1>3, <1>4, <1>5, <1>6

\* The transaction that stores a text keeps the invariant.
LEMMA PersistKeeps ==
  ASSUME SummariesInv, NEW w \in Writers, Persist(w)
  PROVE  SummariesInv'
<1>0. gen[w] \in GenRecords /\ gen[w].pc \in {"persist", "insert"}
  BY DEF SummariesInv, GensSound, Persist
<1>1. RowSound'
  <2>1. CASE MayReplace(w)
    BY <1>0, <2>1, NewRowIsSound DEF SummariesInv, Persist, attachmentVars
  <2>2. CASE ~MayReplace(w)
    BY <2>2, PartsStay DEF SummariesInv, Persist, attachmentVars
  <2>3. QED
    BY <2>1, <2>2
<1>2. GensSound'
  <2> DEFINE p == gen[w].passed
             q == [Idle EXCEPT !.pc = "record", !.passed = p]
  <2>1. p \in BOOLEAN
    BY <1>0 DEF GenRecords
  <2>2. gen' = [gen EXCEPT ![w] = q]
    BY DEF Persist
  <2> HIDE DEF p
  <2>3. q \in GenRecords /\ GenSound(q)
    BY <2>1, IdleIsSound
  <2> HIDE DEF q
  <2>4. QED
    BY <2>2, <2>3, OneGenMoves DEF SummariesInv
<1>3. QED
  BY <1>1, <1>2, PartsStay DEF SummariesInv, Persist, attachmentVars

\* The end of a generation keeps the invariant.
LEMMA GenEnds ==
  ASSUME SummariesInv, NEW w \in Writers, RecordResult(w) \/ RefuseGen(w) \/ FailGen(w)
  PROVE  SummariesInv'
<1>1. w[1] \in Jobs
  BY DEF Writers
<1>2. GensSound'
  BY EndGenKeeps DEF SummariesInv, RecordResult, RefuseGen, FailGen
<1>3. JobsSound'
  <2>1. verdict' \in [Jobs -> Verdicts]
    BY <1>1 DEF SummariesInv, JobsSound, RecordResult, RefuseGen, FailGen, Bury, Verdicts
  <2>2. \E new \in {"done", "dead"} :
          job' = [job EXCEPT ![w[1]] = Settle(@, new)] \/ job' = job
    BY <1>1 DEF SummariesInv, JobsSound, RecordResult, RefuseGen, FailGen, Bury
  <2>3. UNCHANGED <<attJob, decided>>
    BY DEF RecordResult, RefuseGen, FailGen, attachmentVars
  <2>4. QED
    BY <1>1, <2>1, <2>2, <2>3, JobSettles DEF SummariesInv
<1>4. UNCHANGED <<versionVars, attachmentVars, task, row, prompt>>
  BY DEF RecordResult, RefuseGen, FailGen
<1>5. QED
  BY <1>2, <1>3, <1>4, PartsStay DEF SummariesInv, attachmentVars

-----------------------------------------------------------------------------
(* The theorems. *)

\* The invariant holds when the version is promoted.
LEMMA InitInv == Init => SummariesInv
<1> SUFFICES ASSUME Init PROVE SummariesInv
  OBVIOUS
<1>1. WorldSound
  BY SummariesAssumption DEF Init, WorldSound
<1>2. AttachmentsSound
  BY DEF Init, AttachmentsSound, Statuses
<1>3. TasksSound
  BY RestIsSound DEF Init, TasksSound
<1>4. GensSound
  BY IdleIsSound DEF Init, GensSound
<1>5. JobsSound
  BY DEF Init, JobsSound, HandedOverWhenDecided, Jobs, Verdicts
<1>6. RowSound
  <2>1. 0 \in 0..MaxPrompt
    BY SummariesAssumption
  <2>2. row \in RowRecords
    BY <2>1 DEF Init, NoRow, RowRecords
  <2>3. QED
    BY <2>2 DEF Init, NoRow, RowSound, EvidenceIsLive
<1>7. QED
  BY <1>1, <1>2, <1>3, <1>4, <1>5, <1>6 DEF SummariesInv

\* A promotion, a release and a repair job keep the invariant.
LEMMA AroundKeeps ==
  ASSUME SummariesInv, Supersede \/ Release \/ \E j \in Repairs : Repair(j)
  PROVE  SummariesInv'
<1>1. CASE Supersede
  <2>1. WorldSound'
    BY <1>1 DEF SummariesInv, WorldSound, Supersede
  <2>2. QED
    BY <1>1, <2>1, PartsStay DEF SummariesInv, Supersede, attachmentVars
<1>2. CASE Release
  <2>1. prompt' \in 1..MaxPrompt
    BY <1>2, SummariesAssumption DEF SummariesInv, WorldSound, Release
  <2>2. WorldSound'
    BY <1>2, <2>1 DEF SummariesInv, WorldSound, Release, versionVars
  <2>3. QED
    BY <1>2, <2>2, PartsStay DEF SummariesInv, Release, attachmentVars
<1>3. ASSUME NEW j \in Repairs, Repair(j) PROVE SummariesInv'
  <2>1. j \in Jobs /\ j # "summary"
    BY SummariesAssumption DEF Jobs
  <2>2. JobsSound'
    BY <1>3, <2>1 DEF SummariesInv, JobsSound, HandedOverWhenDecided, Repair, attachmentVars
  <2>3. QED
    BY <1>3, <2>2, PartsStay DEF SummariesInv, Repair, attachmentVars
<1>4. QED
  BY <1>1, <1>2, <1>3

\* Every step keeps the invariant.
LEMMA NextInv ==
  ASSUME SummariesInv, [Next]_vars
  PROVE  SummariesInv'
<1>1. CASE UNCHANGED vars
  BY <1>1, PartsStay DEF SummariesInv, vars, attachmentVars
<1>2. CASE Next
  BY <1>2, AroundKeeps, TaskReads, TaskWrites, ReplaceChunksKeeps, EnqueueKeeps, GenReads,
     PersistKeeps, GenEnds DEF Next, TaskStep, GenStep
<1>3. QED
  BY <1>1, <1>2

\* In every state attachments, jobs, executions and the row are sound.
LEMMA InvHolds == Spec => []SummariesInv
BY InitInv, NextInv, PTL DEF Spec

\* The rows, jobs and executions are well formed.
THEOREM TypeCorrect == Spec => []TypeOK
<1>1. SummariesInv => TypeOK
  BY DEF SummariesInv, WorldSound, AttachmentsSound, TasksSound, JobsSound, GensSound, RowSound,
         TaskRecords, GenRecords, RowRecords, TypeOK
<1>2. QED
  BY <1>1, InvHolds, PTL

\* Provenance never points to a chunk that is gone, and a claim rests only on chunks that
\* were sent (the foreign keys, ON DELETE CASCADE and _persist_summary together).
THEOREM EvidenceAlwaysLive == Spec => []EvidenceIsLive
<1>1. SummariesInv => EvidenceIsLive
  BY DEF SummariesInv, RowSound
<1>2. QED
  BY <1>1, InvHolds, PTL

\* The summary job exists only after every attachment was decided once, by whichever
\* execution (judit_attachments.py).
THEOREM HandedOverOnlyDecided == Spec => []HandedOverWhenDecided
<1>1. SummariesInv => HandedOverWhenDecided
  BY DEF SummariesInv, JobsSound
<1>2. QED
  BY <1>1, InvHolds, PTL

\* An approved summary gives way only to a publishable one, and only when it is itself not
\* publishable or of another prompt (_persist_summary).
THEOREM ApprovedGivesWayOnly == Spec => ApprovedGivesWay
<1>1. ASSUME SummariesInv, [Next]_vars
      PROVE  [row.passed /\ row'.by # row.by =>
                /\ Publishable(row')
                /\ ~Publishable(row) \/ row.prompt # row'.prompt]_vars
  <2> SUFFICES ASSUME Next, row.passed, row'.by # row.by
               PROVE  Publishable(row') /\ (~Publishable(row) \/ row.prompt # row'.prompt)
    BY <1>1
  <2>1. ASSUME NEW w \in Writers, Persist(w)
        PROVE  Publishable(row') /\ (~Publishable(row) \/ row.prompt # row'.prompt)
    <3>1. row' = NewRow(w) /\ ReplaceApproved(w)
      BY <2>1 DEF Persist, MayReplace
    <3>2. /\ row'.passed = gen[w].passed /\ row'.prompt = gen[w].prompt
          /\ row'.evidence = row'.declared
      BY <3>1 DEF NewRow
    <3>3. QED
      BY <3>1, <3>2 DEF ReplaceApproved, IncomingPublishable, Publishable, EvidenceComplete
  <2>2. ASSUME NEW h \in Handlers, ReplaceChunks(h)
        PROVE  FALSE
    BY <1>1, <2>2, ReplaceChunksKeeps
  <2>3. \/ \E w \in Writers : Persist(w)
        \/ \E h \in Handlers : ReplaceChunks(h)
        \/ row' = row
    BY DEF Next, TaskStep, GenStep, Supersede, Release, Repair, StartTask, LoadTask, CountPending,
           EnqueueSummary, FailTask, MarkPending, RecordFailure, StartGen, Reuse, LoadChunks, Call,
           FindNoRow, RecordResult, RefuseGen, FailGen
  <2>4. QED
    BY <2>1, <2>2, <2>3
<1>2. QED
  BY <1>1, InvHolds, PTL DEF Spec, ApprovedGivesWay
=============================================================================
