--------------------------- MODULE ServiceProofs ----------------------------
(* Theorems about the two components a request of a client meets first and last: API keys,
   for any number of requests, any limit and any length of the minute, and the vectors of a
   version, for any number of movements, executions and spaces and any size of a batch. *)
EXTENDS Access, Embeddings, Integers, TLAPS

(* API keys. *)

\* The places of a request whose transaction holds the row of the key.
Holding == {"valid", "reset", "count"}

Places == {"unsent", "waiting", "refused", "limited", "identified", "allowed", "denied",
           "served", "gone"} \cup Holding

AccessTypes ==
  /\ clock \in Nat
  /\ request \in [Requests -> [pc : Places, began : Nat, read : Nat, admitted : Nat]]
  /\ window \in [start : Int, count : Nat]
  /\ granted \in Nat

\* FOR UPDATE: whoever has checked the key and not yet committed holds its row.
HoldersHaveRow == \A r \in Requests : request[r].pc \in Holding => keyRow = r

\* What a holder has read of the window is what is there.
ReadIsCurrent == \A r \in Requests : request[r].pc = "count" => request[r].read = window.count

\* A revocation waits for the row, so nobody holds it afterwards.
RevokedHoldsNothing == revoked => \A r \in Requests : request[r].pc \notin Holding

AccessInv ==
  /\ AccessTypes
  /\ HoldersHaveRow
  /\ ReadIsCurrent
  /\ RevokedHoldsNothing
  /\ NoSlotIsLost

-----------------------------------------------------------------------------
(* API keys: the steps. *)

\* The invariant holds before the first request.
LEMMA AccessInitInv == AccessInit => AccessInv
<1> SUFFICES ASSUME AccessInit PROVE AccessInv
  OBVIOUS
<1>1. Unstarted \in [pc : Places, began : Nat, read : Nat, admitted : Nat]
  BY AccessAssumption DEF Unstarted, NotAdmitted, Places
<1>2. AccessTypes
  <2>1. request \in [Requests -> [pc : Places, began : Nat, read : Nat, admitted : Nat]]
    BY <1>1 DEF AccessInit
  <2>2. clock \in Nat /\ window \in [start : Int, count : Nat] /\ granted \in Nat
    BY DEF AccessInit
  <2>3. QED
    BY <2>1, <2>2 DEF AccessTypes
<1>3. \A r \in Requests : request[r].pc = "unsent"
  BY DEF AccessInit, Unstarted
<1>4. HoldersHaveRow /\ ReadIsCurrent /\ RevokedHoldsNothing
  BY <1>3 DEF AccessInit, HoldersHaveRow, ReadIsCurrent, RevokedHoldsNothing, Holding
<1>5. NoSlotIsLost
  BY <1>3 DEF AccessInit, NoSlotIsLost
<1>6. QED
  BY <1>2, <1>4, <1>5 DEF AccessInv

\* The passing of time, a revocation and a change of scope keep the invariant.
LEMMA WorldKeeps ==
  ASSUME AccessInv, TickAccess \/ RevokeKey \/ LeaveScope
  PROVE  AccessInv'
<1> USE AccessAssumption DEF AccessInv, AccessTypes, HoldersHaveRow, ReadIsCurrent,
       RevokedHoldsNothing, NoSlotIsLost, Places, Holding
<1>1. CASE TickAccess
  BY <1>1 DEF TickAccess
<1>2. CASE RevokeKey
  BY <1>2 DEF RevokeKey
<1>3. CASE LeaveScope
  BY <1>3 DEF LeaveScope
<1>4. QED
  BY <1>1, <1>2, <1>3

\* The beginning of a transaction and the locking of the row keep the invariant: the row
\* is free, so no other request holds it.
LEMMA LockKeeps ==
  ASSUME AccessInv, NEW r \in Requests, BeginAuthentication(r) \/ LockKey(r)
  PROVE  AccessInv'
<1> USE AccessAssumption DEF AccessInv, AccessTypes, HoldersHaveRow, ReadIsCurrent,
       RevokedHoldsNothing, NoSlotIsLost, Places, Holding
<1>1. CASE BeginAuthentication(r)
  <2>1. /\ request' = [request EXCEPT ![r] = [@ EXCEPT !.pc = "waiting", !.began = clock]]
        /\ UNCHANGED <<clock, revoked, scoped, keyRow, window, granted, log>>
    BY <1>1 DEF BeginAuthentication
  <2>2. [request[r] EXCEPT !.pc = "waiting", !.began = clock]
          \in [pc : Places, began : Nat, read : Nat, admitted : Nat]
    OBVIOUS
  <2>3. AccessTypes'
    BY <2>1, <2>2
  <2>4. \A q \in Requests : q # r => request'[q] = request[q]
    BY <2>1
  <2>5. request'[r].pc = "waiting"
    BY <2>1, <2>2
  <2>6. QED
    BY <2>1, <2>3, <2>4, <2>5
<1>2. CASE LockKey(r) /\ KeyIsValid
  BY <1>2 DEF LockKey, Move, KeyIsValid
<1>3. CASE LockKey(r) /\ ~KeyIsValid
  BY <1>3 DEF LockKey, Move
<1>4. QED
  BY <1>1, <1>2, <1>3

\* Reading the window keeps the invariant: the window does not change.
LEMMA ReadKeeps ==
  ASSUME AccessInv, NEW r \in Requests, ReadWindow(r)
  PROVE  AccessInv'
<1> USE AccessAssumption DEF AccessInv, AccessTypes, HoldersHaveRow, ReadIsCurrent,
       RevokedHoldsNothing, NoSlotIsLost, Places, Holding
<1>1. CASE clock - window.start >= MinuteLength
  BY <1>1 DEF ReadWindow
<1>2. CASE clock - window.start < MinuteLength /\ window.count >= Limit
  BY <1>2 DEF ReadWindow, Move
<1>3. CASE clock - window.start < MinuteLength /\ window.count < Limit
  BY <1>3 DEF ReadWindow
<1>4. QED
  BY <1>1, <1>2, <1>3

\* Writing the slot keeps the invariant: nobody else has read the window, and the count
\* that is written is one more than the one that is there.
LEMMA SlotKeeps ==
  ASSUME AccessInv, NEW r \in Requests, TakeSlot(r)
  PROVE  AccessInv'
<1> USE AccessAssumption DEF AccessInv, AccessTypes, HoldersHaveRow, ReadIsCurrent,
       RevokedHoldsNothing, NoSlotIsLost, Places, Holding
<1>1. MinuteOf(request[r].began) \in Int
  BY DEF MinuteOf
<1>2. /\ request[r].pc \in Holding /\ keyRow = r
      /\ request' = [request EXCEPT ![r].pc = "identified"]
      /\ UNCHANGED <<clock, revoked, scoped, log>>
  BY DEF TakeSlot, Move
<1>3. window' \in [start : Int, count : Nat] /\ granted' \in Nat /\ window'.count = granted'
  <2>1. CASE request[r].pc = "reset"
    BY <1>1, <2>1 DEF TakeSlot
  <2>2. CASE request[r].pc = "count"
    BY <2>2 DEF TakeSlot
  <2>3. QED
    BY <2>1, <2>2 DEF TakeSlot
<1>4. \A q \in Requests : request'[q].pc \notin Holding
  BY <1>2
<1>5. AccessTypes'
  BY <1>2, <1>3
<1>6. HoldersHaveRow' /\ ReadIsCurrent' /\ RevokedHoldsNothing'
  BY <1>4
<1>7. QED
  BY <1>3, <1>5, <1>6

\* A death, the decision on the scope and the answer keep the invariant.
LEMMA AnswerKeeps ==
  ASSUME AccessInv, NEW r \in Requests, AbandonRequest(r) \/ DecideScope(r) \/ ServeRequest(r)
  PROVE  AccessInv'
<1> USE AccessAssumption DEF AccessInv, AccessTypes, HoldersHaveRow, ReadIsCurrent,
       RevokedHoldsNothing, NoSlotIsLost, Places, Holding
<1>1. CASE AbandonRequest(r)
  <2> DEFINE when == IF request[r].pc \in {"identified", "allowed"}
                         THEN request[r].admitted ELSE NotAdmitted
  <2>1. /\ request' = [request EXCEPT ![r] = [@ EXCEPT !.pc = "gone", !.admitted = when]]
        /\ keyRow' = IF keyRow = r THEN NoRequest ELSE keyRow
        /\ UNCHANGED <<clock, revoked, scoped, window, granted, log>>
    BY <1>1 DEF AbandonRequest
  <2>2. when \in Nat
    BY DEF NotAdmitted
  <2> HIDE DEF when
  <2>3. AccessTypes'
    BY <2>1, <2>2
  <2>4. \A q \in Requests : q # r => request'[q] = request[q]
    BY <2>1
  <2>5. request'[r].pc = "gone"
    BY <2>1
  <2>6. HoldersHaveRow' /\ ReadIsCurrent' /\ RevokedHoldsNothing'
    BY <2>1, <2>4, <2>5
  <2>7. NoSlotIsLost'
    BY <2>1, <2>4, <2>5
  <2>8. QED
    BY <2>3, <2>6, <2>7
<1>2. CASE DecideScope(r)
  BY <1>2 DEF DecideScope, Move
<1>3. CASE ServeRequest(r)
  BY <1>3 DEF ServeRequest, Move
<1>4. QED
  BY <1>1, <1>2, <1>3

\* Every step keeps the invariant.
LEMMA AccessNextKeeps == AccessInv /\ [AccessNext]_accessVars => AccessInv'
<1> SUFFICES ASSUME AccessInv, [AccessNext]_accessVars PROVE AccessInv'
  OBVIOUS
<1>1. CASE AccessNext
  BY <1>1, WorldKeeps, LockKeeps, ReadKeeps, SlotKeeps, AnswerKeeps DEF AccessNext
<1>2. CASE UNCHANGED accessVars
  BY <1>2 DEF accessVars, AccessInv, AccessTypes, HoldersHaveRow, ReadIsCurrent,
              RevokedHoldsNothing, NoSlotIsLost
<1>3. QED
  BY <1>1, <1>2

\* In every state of every run the invariant holds.
LEMMA AccessInvHolds == AccessSpec => []AccessInv
  BY AccessInitInv, AccessNextKeeps, PTL DEF AccessSpec

-----------------------------------------------------------------------------
(* API keys: the theorems. *)

\* Requests of one key that run at once never write the same count: the window counts
\* every slot that was given since it began.
THEOREM SlotsAreCounted == AccessSpec => []NoSlotIsLost
  BY AccessInvHolds, PTL DEF AccessInv

\* After a revocation no request is identified that was not identified before.
THEOREM RevokedStaysOut == AccessSpec => RevokedIsRefused
<1>1. ASSUME AccessInv, [AccessNext]_accessVars
      PROVE  [revoked => \A r \in Requests :
               request'[r].pc = "identified" => request[r].pc = "identified"]_accessVars
  <2>1. SUFFICES ASSUME revoked, AccessNext, NEW r \in Requests, request'[r].pc = "identified"
                 PROVE  request[r].pc = "identified"
    BY <1>1
  <2>2. request[r].pc \notin Holding
    BY <1>1, <2>1 DEF AccessInv, RevokedHoldsNothing
  <2>3. request \in [Requests -> [pc : Places, began : Nat, read : Nat, admitted : Nat]]
    BY <1>1 DEF AccessInv, AccessTypes
  <2>4. ASSUME NEW q \in Requests, TakeSlot(q) PROVE request[r].pc = "identified"
    <3>1. revoked /\ q # r
      BY <1>1, <2>1, <2>4 DEF AccessInv, RevokedHoldsNothing, Holding, TakeSlot
    <3>2. QED
      BY <2>1, <2>3, <2>4, <3>1 DEF TakeSlot, Move
  <2>5. ASSUME NEW q \in Requests,
               \/ BeginAuthentication(q) \/ LockKey(q) \/ ReadWindow(q)
               \/ AbandonRequest(q) \/ DecideScope(q) \/ ServeRequest(q)
        PROVE  request[r].pc = "identified"
    BY <2>1, <2>3, <2>5
    DEF BeginAuthentication, LockKey, ReadWindow, AbandonRequest, DecideScope, ServeRequest, Move
  <2>6. CASE TickAccess \/ RevokeKey \/ LeaveScope
    BY <2>1, <2>6 DEF TickAccess, RevokeKey, LeaveScope
  <2>7. QED
    BY <2>1, <2>4, <2>5, <2>6 DEF AccessNext
<1>2. QED
  BY <1>1, AccessInvHolds, PTL DEF AccessSpec, RevokedIsRefused

-----------------------------------------------------------------------------
(* The vectors of a version. *)

\* The movements that have a text.
Worded == Steps \ Blank

RunRecords == [pc : {"idle", "check", "ensure", "embed", "sent", "found", "scored"},
               space : Spaces \cup {"none"}, left : SUBSET Worded, found : SUBSET (Spaces \X Steps)]

\* What holds of an execution q when those vectors are stored: the property, and that only
\* an execution that has not begun has no space.
SoundRun(q, vectors) ==
  /\ q.pc # "idle" => q.space \in Spaces
  /\ q.pc \in {"embed", "sent"} => \A i \in Worded : <<q.space, i>> \in vectors \/ i \in q.left
  /\ q.pc = "found" => q.found = {q.space} \X Nearest(Worded)

EmbeddingsInv ==
  /\ stored \subseteq Spaces \X Worded
  /\ run \in [Runs -> RunRecords]
  /\ \A r \in Runs : SoundRun(run[r], stored)

-----------------------------------------------------------------------------
(* The vectors: the steps. *)

\* An execution that has not begun is sound.
LEMMA NotRunningIsSound ==
  ASSUME NEW vectors
  PROVE  NotRunning \in RunRecords /\ SoundRun(NotRunning, vectors)
<1>1. NotRunning \in RunRecords
  BY DEF NotRunning, RunRecords
<1>2. SoundRun(NotRunning, vectors)
  BY DEF NotRunning, SoundRun
<1>3. QED
  BY <1>1, <1>2

\* The invariant holds before the first execution.
LEMMA EmbeddingsInitInv == EmbeddingsInit => EmbeddingsInv
  BY NotRunningIsSound DEF EmbeddingsInit, EmbeddingsInv

\* A step of one execution keeps the invariant when its own record stays sound and no
\* vector is lost: the other executions only gain from vectors that are added.
LEMMA OneRunMoves ==
  ASSUME EmbeddingsInv, NEW r \in Runs, NEW q \in RunRecords,
         run' = [run EXCEPT ![r] = q],
         stored \subseteq stored', stored' \subseteq Spaces \X Worded,
         SoundRun(q, stored')
  PROVE  EmbeddingsInv'
<1>1. run' \in [Runs -> RunRecords]
  BY DEF EmbeddingsInv
<1>2. ASSUME NEW p \in Runs PROVE SoundRun(run'[p], stored')
  <2>1. CASE p = r
    BY <2>1 DEF EmbeddingsInv
  <2>2. CASE p # r
    <3>1. run'[p] = run[p] /\ SoundRun(run[p], stored)
      BY <2>2 DEF EmbeddingsInv
    <3>2. QED
      BY <3>1 DEF SoundRun
  <2>3. QED
    BY <2>1, <2>2
<1>3. QED
  BY <1>1, <1>2 DEF EmbeddingsInv, RunRecords, Worded

\* The beginning of a retrieval keeps the invariant.
LEMMA BeginKeeps ==
  ASSUME EmbeddingsInv, NEW r \in Runs, NEW s \in Spaces, BeginRetrieval(r, s)
  PROVE  EmbeddingsInv'
<1> DEFINE q == [NotRunning EXCEPT !.pc = "check", !.space = s]
<1>1. NotRunning \in RunRecords
  BY NotRunningIsSound
<1>2. q \in RunRecords /\ SoundRun(q, stored)
  <2>1. q \in RunRecords /\ q.pc = "check" /\ q.space = s
    BY <1>1 DEF RunRecords
  <2> HIDE DEF q
  <2>2. QED
    BY <2>1 DEF SoundRun
<1>3. run' = [run EXCEPT ![r] = q] /\ stored' = stored
  BY DEF BeginRetrieval
<1> HIDE DEF q
<1>4. QED
  BY <1>2, <1>3, OneRunMoves DEF EmbeddingsInv

\* The check of secrecy keeps the invariant: nothing is embedded yet.
LEMMA CheckKeeps ==
  ASSUME EmbeddingsInv, NEW r \in Runs, CheckSecrecy(r)
  PROVE  EmbeddingsInv'
<1>1. CASE secret /\ run[r].space \in External
  <2>1. run' = [run EXCEPT ![r] = NotRunning] /\ stored' = stored
    BY <1>1 DEF CheckSecrecy
  <2>2. QED
    BY <2>1, NotRunningIsSound, OneRunMoves DEF EmbeddingsInv
<1>2. CASE ~(secret /\ run[r].space \in External)
  <2> DEFINE q == [run[r] EXCEPT !.pc = "ensure"]
  <2>1. run[r] \in RunRecords /\ run[r].pc = "check" /\ run[r].space \in Spaces
    BY DEF EmbeddingsInv, CheckSecrecy, SoundRun
  <2>2. q \in RunRecords /\ q.pc = "ensure" /\ q.space = run[r].space
    BY <2>1 DEF RunRecords
  <2>3. run' = [run EXCEPT ![r] = q] /\ stored' = stored
    BY <1>2 DEF CheckSecrecy
  <2> HIDE DEF q
  <2>4. SoundRun(q, stored)
    BY <2>1, <2>2 DEF SoundRun
  <2>5. QED
    BY <2>2, <2>3, <2>4, OneRunMoves DEF EmbeddingsInv
<1>3. QED
  BY <1>1, <1>2

\* Reading what is missing keeps the invariant: what is not missing is stored.
LEMMA ReadMissingKeeps ==
  ASSUME EmbeddingsInv, NEW r \in Runs, ReadMissing(r)
  PROVE  EmbeddingsInv'
<1> DEFINE q == [run[r] EXCEPT !.pc = "embed", !.left = MissingIn(run[r].space)]
<1>1. run[r] \in RunRecords /\ run[r].pc = "ensure" /\ run[r].space \in Spaces
  BY DEF EmbeddingsInv, ReadMissing, SoundRun
<1>2. q.pc = "embed" /\ q.space = run[r].space /\ q.left = MissingIn(run[r].space)
  BY <1>1 DEF RunRecords
<1>3. q \in RunRecords
  BY <1>1 DEF RunRecords, MissingIn, Worded
<1>4. run' = [run EXCEPT ![r] = q] /\ stored' = stored
  BY DEF ReadMissing
<1> HIDE DEF q
<1>5. SoundRun(q, stored)
  BY <1>1, <1>2 DEF SoundRun, MissingIn, Worded
<1>6. QED
  BY <1>3, <1>4, <1>5, OneRunMoves DEF EmbeddingsInv

\* Sending a batch keeps the invariant: the list is as it was.
LEMMA SendBatchKeeps ==
  ASSUME EmbeddingsInv, NEW r \in Runs, SendBatch(r)
  PROVE  EmbeddingsInv'
<1> DEFINE q == [run[r] EXCEPT !.pc = "sent"]
<1>1. run[r] \in RunRecords /\ SoundRun(run[r], stored) /\ run[r].pc = "embed"
  BY DEF EmbeddingsInv, SendBatch
<1>2. q \in RunRecords /\ q.pc = "sent" /\ q.space = run[r].space /\ q.left = run[r].left
  BY <1>1 DEF RunRecords
<1>3. run' = [run EXCEPT ![r] = q] /\ stored' = stored
  BY DEF SendBatch
<1> HIDE DEF q
<1>4. SoundRun(q, stored)
  BY <1>1, <1>2 DEF SoundRun
<1>5. QED
  BY <1>2, <1>3, <1>4, OneRunMoves DEF EmbeddingsInv

\* Storing a batch keeps the invariant: whatever leaves the list is stored.
LEMMA StoreBatchKeeps ==
  ASSUME EmbeddingsInv, NEW r \in Runs, StoreBatch(r)
  PROVE  EmbeddingsInv'
<1> DEFINE batch == Batch(run[r].left)
           q == [run[r] EXCEPT !.pc = "embed", !.left = run[r].left \ batch]
<1>1. run[r] \in RunRecords /\ SoundRun(run[r], stored) /\ run[r].pc = "sent"
  BY DEF EmbeddingsInv, StoreBatch
<1>2. batch \subseteq run[r].left
  BY DEF Batch
<1>3. run' = [run EXCEPT ![r] = q] /\ stored' = stored \cup ({run[r].space} \X batch)
  BY DEF StoreBatch
<1> HIDE DEF batch
<1>4. q \in RunRecords
  BY <1>1 DEF RunRecords
<1>5. q.pc = "embed" /\ q.space = run[r].space /\ q.left = run[r].left \ batch
  BY <1>1 DEF RunRecords
<1>6. stored' \subseteq Spaces \X Worded
  BY <1>1, <1>2, <1>3 DEF EmbeddingsInv, SoundRun, RunRecords
<1> HIDE DEF q
<1>7. SoundRun(q, stored')
  BY <1>1, <1>3, <1>5 DEF SoundRun
<1>8. QED
  BY <1>3, <1>4, <1>6, <1>7, OneRunMoves

\* The search keeps the invariant: nothing is left, so every movement with a text has a
\* vector in the space, and no other has.
LEMMA SearchKeeps ==
  ASSUME EmbeddingsInv, NEW r \in Runs, SearchSpace(r)
  PROVE  EmbeddingsInv'
<1> DEFINE embedded == {i \in Steps : <<run[r].space, i>> \in stored}
           hits == {run[r].space} \X Nearest(embedded)
           q == [run[r] EXCEPT !.pc = "found", !.found = hits]
<1>1. run[r] \in RunRecords /\ SoundRun(run[r], stored) /\ run[r].pc = "embed" /\ run[r].left = {}
  BY DEF EmbeddingsInv, SearchSpace
<1>2. stored \subseteq Spaces \X Worded
  BY DEF EmbeddingsInv
<1>3. embedded = Worded
  <2>1. \A i \in Worded : <<run[r].space, i>> \in stored /\ i \in Steps
    BY <1>1 DEF SoundRun, Worded
  <2>2. QED
    BY <1>2, <2>1
<1>4. run' = [run EXCEPT ![r] = q] /\ stored' = stored
  BY DEF SearchSpace
<1> HIDE DEF embedded
<1>5. hits = {run[r].space} \X Nearest(Worded) /\ hits \subseteq Spaces \X Steps
  <2>1. run[r].space \in Spaces /\ Nearest(Worded) \subseteq Steps
    BY <1>1 DEF SoundRun, Nearest, Worded
  <2>2. QED
    BY <1>3, <2>1
<1> HIDE DEF hits
<1>6. q \in RunRecords
  BY <1>1, <1>5 DEF RunRecords
<1>7. q.pc = "found" /\ q.space = run[r].space /\ q.found = hits
  BY <1>1 DEF RunRecords
<1> HIDE DEF q
<1>8. SoundRun(q, stored)
  BY <1>1, <1>5, <1>7 DEF SoundRun
<1>9. QED
  BY <1>2, <1>4, <1>6, <1>8, OneRunMoves

\* Dropping scores keeps the invariant.
LEMMA KeepEligibleKeeps ==
  ASSUME EmbeddingsInv, NEW r \in Runs, KeepEligible(r)
  PROVE  EmbeddingsInv'
<1> DEFINE kept == {v \in run[r].found : v[2] \notin Private /\ ~secret}
           q == [run[r] EXCEPT !.pc = "scored", !.found = kept]
<1>1. run[r] \in RunRecords /\ SoundRun(run[r], stored) /\ run[r].pc = "found"
  BY DEF EmbeddingsInv, KeepEligible
<1>2. run' = [run EXCEPT ![r] = q] /\ stored' = stored
  BY DEF KeepEligible
<1>3. kept \subseteq run[r].found
  OBVIOUS
<1> HIDE DEF kept
<1>4. q \in RunRecords
  BY <1>1, <1>3 DEF RunRecords
<1>5. q.pc = "scored" /\ q.space = run[r].space
  BY <1>1 DEF RunRecords
<1> HIDE DEF q
<1>6. SoundRun(q, stored)
  BY <1>1, <1>5 DEF SoundRun
<1>7. QED
  BY <1>2, <1>4, <1>6, OneRunMoves DEF EmbeddingsInv

\* A step that changes neither the vectors nor an execution keeps the invariant.
LEMMA OthersKeep ==
  ASSUME EmbeddingsInv, UNCHANGED <<stored, run>>
  PROVE  EmbeddingsInv'
<1>1. stored' \subseteq Spaces \X Worded /\ run' \in [Runs -> RunRecords]
  BY DEF EmbeddingsInv
<1>2. ASSUME NEW r \in Runs PROVE SoundRun(run'[r], stored')
  BY DEF EmbeddingsInv
<1>3. QED
  BY <1>1, <1>2 DEF EmbeddingsInv, RunRecords

\* Every step keeps the invariant.
LEMMA EmbeddingsNextKeeps ==
  EmbeddingsInv /\ [EmbeddingsNext]_embeddingVars => EmbeddingsInv'
<1> SUFFICES ASSUME EmbeddingsInv, [EmbeddingsNext]_embeddingVars
             PROVE  EmbeddingsInv'
  OBVIOUS
<1>1. CASE BecomeSecret \/ UNCHANGED embeddingVars
  BY <1>1, OthersKeep DEF BecomeSecret, embeddingVars
<1>2. ASSUME NEW r \in Runs, LeaveRetrieval(r) PROVE EmbeddingsInv'
  BY <1>2, NotRunningIsSound, OneRunMoves DEF LeaveRetrieval, EmbeddingsInv
<1>3. QED
  BY <1>1, <1>2, BeginKeeps, CheckKeeps, ReadMissingKeeps, SendBatchKeeps, StoreBatchKeeps,
     SearchKeeps, KeepEligibleKeeps
  DEF EmbeddingsNext

\* In every state of every run the invariant holds.
LEMMA EmbeddingsInvHolds == EmbeddingsSpec => []EmbeddingsInv
  BY EmbeddingsInitInv, EmbeddingsNextKeeps, PTL DEF EmbeddingsSpec

-----------------------------------------------------------------------------
(* The vectors: the theorems. *)

\* Whatever executions die between two batches or embed the same version at once, the
\* search of an execution returns the nearest of all movements that have a text, in its own
\* space, and nothing else.
THEOREM SearchSeesWholeVersion == EmbeddingsSpec => []SearchIsComplete
<1>1. EmbeddingsInv => SearchIsComplete
  BY DEF EmbeddingsInv, SoundRun, SearchIsComplete, Worded
<1>2. QED
  BY <1>1, EmbeddingsInvHolds, PTL
=============================================================================
