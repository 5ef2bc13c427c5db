--------------------------- MODULE IngestionProofs ---------------------------
(* Theorems about the versions of a process, for any requests, responses, callbacks and
   handlers, whatever is purged and sent again. *)
EXTENDS Ingestion, TLAPS

HookRecords ==
  [pc : {"closed"}] \cup [pc : {"open"}, ev : Lawsuits, at : Nat]
    \cup [pc : {"staged"}, ev : Lawsuits, at : Nat, late : BOOLEAN]

Prepared == [pc : {"prepared"}, key : JobKeys, lease : Nat, src : Sources, fields : Fields]
PreparedNothing == [pc : {"prepared"}, key : JobKeys, lease : Nat, src : {NoSource}]
HasRead == [pc : {"read"}, key : JobKeys, lease : Nat, src : Sources, cached : BOOLEAN,
            fields : Fields]
HasApplied == [pc : {"applied"}, key : JobKeys, lease : Nat]
HandlerRecords == {Idle} \cup Prepared \cup PreparedNothing \cup HasRead \cup HasApplied

\* The table process_versions, the pointer to the current version and the jobs that were
\* enqueued for versions.
VersionTypes ==
  /\ made \in [Sources -> Nat]
  /\ data \in [Sources -> Datas]
  /\ askedBy \in [Sources -> Requests \cup {NoRequest}]
  /\ cached \in [Sources -> BOOLEAN]
  /\ finalized \in [Sources -> BOOLEAN]
  /\ derived \in [Sources -> Fields]
  /\ equiv \in [Sources -> Sources \cup {NoSource}]
  /\ provenance \in [Sources -> BOOLEAN]
  /\ current \in Sources \cup {NoSource}
  /\ followUps \subseteq FollowUpKeys

JobTypes ==
  /\ job \in [JobKeys -> {"free", "pending", "processing", "completed", "dead"}]
  /\ attempts \in [JobKeys -> Nat]

SessionTypes ==
  /\ completed \subseteq Requests
  /\ hook \in [Hooks -> HookRecords]
  /\ run \in [Runs -> HandlerRecords]

\* Only a version with a row is finalized.
FinalIsStaged == \A s \in Sources : finalized[s] => made[s] > 0

\* The cached flag of a row is that of one of the copies of its response.
FlagIsSent == \A s \in Sources : made[s] > 0 => Sent(s, cached[s])

\* A handler that is about to finalize a version has seen its row, with a flag that one
\* of the copies had.
HandlersSawRow ==
  \A x \in Runs : run[x].pc = "read" => made[run[x].src] > 0 /\ Sent(run[x].src, run[x].cached)

\* The current version is finalized and was not set aside for another.
CurrentIsFinal == current # NoSource => finalized[current] /\ equiv[current] = NoSource

VersionsSound ==
  /\ VersionTypes
  /\ FinalIsStaged
  /\ FlagIsSent
  /\ CurrentIsFinal
  /\ EquivalentIsSame
  /\ CurrentHasFollowUp

IngestionInv ==
  /\ VersionsSound
  /\ SessionTypes
  /\ HandlersSawRow

-----------------------------------------------------------------------------
(* The two steps that change versions. *)

\* The upsert of a callback leaves finalized versions as they are: they have a row.
LEMMA StageVersionKeeps ==
  ASSUME VersionsSound, NEW ev \in Lawsuits, NEW t \in Nat,
         StageVersion(ev, t), followUps' = followUps
  PROVE  /\ VersionsSound'
         /\ \A u \in Sources : made[u] > 0 => made'[u] = made[u]
         /\ \A u \in Sources : finalized[u] =>
              data'[u] = data[u] /\ askedBy'[u] = askedBy[u] /\ cached'[u] = cached[u]
<1> DEFINE s == ev.src
<1>0. s \in Sources /\ ev.data \in Datas /\ ev.req \in Requests /\ ev.cached \in BOOLEAN
  BY IngestionAssumption DEF Datas
<1>1. /\ made' = [made EXCEPT ![s] = IF @ = 0 THEN t ELSE @]
      /\ data' = [data EXCEPT ![s] = IF finalized[s] THEN @ ELSE ev.data]
      /\ askedBy' = [askedBy EXCEPT ![s] = IF finalized[s] THEN @ ELSE ev.req]
      /\ cached' = [cached EXCEPT ![s] = IF finalized[s] THEN @ ELSE ev.cached]
      /\ UNCHANGED <<finalized, derived, equiv, provenance, current, followUps>>
  BY DEF StageVersion, Upsert
<1>2. /\ made' \in [Sources -> Nat] /\ data' \in [Sources -> Datas]
      /\ askedBy' \in [Sources -> Requests \cup {NoRequest}]
  BY <1>0, <1>1 DEF VersionsSound, VersionTypes
<1>3. cached' \in [Sources -> BOOLEAN]
  <2>1. CASE finalized[s]
    <3>1. cached' = [cached EXCEPT ![s] = cached[s]]
      BY <1>1, <2>1
    <3>2. QED
      BY <1>0, <3>1, Zenon DEF VersionsSound, VersionTypes
  <2>2. CASE ~finalized[s]
    <3>1. cached' = [cached EXCEPT ![s] = ev.cached]
      BY <1>1, <2>2
    <3>2. QED
      BY <1>0, <3>1, Zenon DEF VersionsSound, VersionTypes
  <2>3. QED
    BY <2>1, <2>2
<1>4. \A u \in Sources : made[u] > 0 => made'[u] = made[u]
  BY <1>1 DEF VersionsSound, VersionTypes
<1>5. \A u \in Sources : u # s \/ finalized[u] =>
        data'[u] = data[u] /\ askedBy'[u] = askedBy[u] /\ cached'[u] = cached[u]
  BY <1>1 DEF VersionsSound, VersionTypes
<1>6. FinalIsStaged'
  BY <1>1, <1>4 DEF VersionsSound, FinalIsStaged
<1>7. ASSUME NEW u \in Sources, made'[u] > 0 PROVE Sent(u, cached'[u])
  <2>1. CASE u = s /\ ~finalized[s]
    <3>1. cached'[u] = ev.cached
      BY <1>0, <1>1, <2>1 DEF VersionsSound, VersionTypes
    <3>2. QED
      BY <2>1, <3>1 DEF Sent
  <2>2. CASE u # s \/ finalized[u]
    <3>1. cached'[u] = cached[u]
      BY <1>5, <2>2
    <3>2. made[u] > 0
      BY <1>1, <1>7, <2>2 DEF VersionsSound, VersionTypes, FinalIsStaged
    <3>3. QED
      BY <3>1, <3>2 DEF VersionsSound, FlagIsSent
  <2>3. QED
    BY <2>1, <2>2
<1>8. FlagIsSent'
  BY <1>7 DEF FlagIsSent, Sent
<1>9. CurrentIsFinal' /\ EquivalentIsSame' /\ CurrentHasFollowUp'
  BY <1>1 DEF VersionsSound, CurrentIsFinal, EquivalentIsSame, CurrentHasFollowUp, Sent
<1>10. VersionTypes'
  BY <1>1, <1>2, <1>3 DEF VersionsSound, VersionTypes
<1>11. QED
  BY <1>4, <1>5, <1>6, <1>8, <1>9, <1>10 DEF VersionsSound

\* What finalizing a version that was staged does.
LEMMA FinalizeEffect ==
  ASSUME VersionsSound, NEW s \in Sources, NEW f \in Fields, FinalizeVersion(s, f), ~finalized[s]
  PROVE  /\ \A u \in Sources \ {s} :
              finalized'[u] = finalized[u] /\ derived'[u] = derived[u] /\ equiv'[u] = equiv[u]
         /\ finalized'[s] /\ derived'[s] = f
         /\ equiv'[s] = IF Unchanged(f) THEN current ELSE NoSource
         /\ current' = IF ~Unchanged(f) /\ Outranks(s) THEN s ELSE current
         /\ UNCHANGED <<made, data, askedBy, cached>>
BY DEF FinalizeVersion, VersionsSound, VersionTypes

\* A version is set aside for the current one only, which was not set aside itself, and
\* becomes current only when it was not set aside.
LEMMA FinalizeKeeps ==
  ASSUME VersionsSound, NEW s \in Sources, NEW f \in Fields, FinalizeVersion(s, f), made[s] > 0
  PROVE  /\ FinalIsStaged' /\ CurrentIsFinal' /\ EquivalentIsSame'
         /\ \A u \in Sources : finalized[u] =>
              finalized'[u] /\ derived'[u] = derived[u] /\ equiv'[u] = equiv[u]
         /\ current' # current => current' = s /\ Outranks(s)
         /\ current # NoSource => current' # NoSource
         /\ UNCHANGED <<made, data, askedBy, cached>>
<1>0. NoSource \notin Sources
  BY IngestionAssumption
<1>1. CASE finalized[s]
  <2>1. UNCHANGED <<made, data, askedBy, cached, finalized, derived, equiv, current>>
    BY <1>1 DEF FinalizeVersion
  <2>2. QED
    BY <2>1 DEF VersionsSound, FinalIsStaged, CurrentIsFinal, EquivalentIsSame
<1>2. CASE ~finalized[s]
  <2> DEFINE Effect ==
        /\ \A u \in Sources \ {s} :
             finalized'[u] = finalized[u] /\ derived'[u] = derived[u] /\ equiv'[u] = equiv[u]
        /\ finalized'[s] /\ derived'[s] = f
        /\ equiv'[s] = IF Unchanged(f) THEN current ELSE NoSource
        /\ current' = IF ~Unchanged(f) /\ Outranks(s) THEN s ELSE current
        /\ UNCHANGED <<made, data, askedBy, cached>>
  <2>1. Effect
    BY <1>2, FinalizeEffect
  <2>2. FinalIsStaged'
    BY <2>1 DEF VersionsSound, FinalIsStaged
  <2>3. CurrentIsFinal'
    BY <1>0, <1>2, <2>1 DEF VersionsSound, VersionTypes, CurrentIsFinal
  <2>4. ASSUME NEW u \in Sources, equiv'[u] # NoSource
        PROVE  /\ finalized'[equiv'[u]]
               /\ equiv'[equiv'[u]] = NoSource
               /\ derived'[equiv'[u]] = derived'[u]
    <3>1. CASE u = s
      <4>1. current # NoSource /\ derived[current] = f /\ equiv'[s] = current
        BY <2>1, <2>4, <3>1 DEF Unchanged
      <4>2. current \in Sources \ {s} /\ finalized[current] /\ equiv[current] = NoSource
        BY <1>2, <4>1 DEF VersionsSound, VersionTypes, CurrentIsFinal
      <4>3. QED
        BY <2>1, <3>1, <4>1, <4>2
    <3>2. CASE u # s
      <4>1. equiv'[u] = equiv[u] /\ equiv[u] # NoSource /\ derived'[u] = derived[u]
        BY <2>1, <2>4, <3>2
      <4>2. /\ equiv[u] \in Sources \ {s} /\ finalized[equiv[u]]
            /\ equiv[equiv[u]] = NoSource /\ derived[equiv[u]] = derived[u]
        BY <1>2, <4>1 DEF VersionsSound, VersionTypes, EquivalentIsSame
      <4>3. QED
        BY <2>1, <4>1, <4>2
    <3>3. QED
      BY <3>1, <3>2
  <2>5. EquivalentIsSame'
    BY <2>4 DEF EquivalentIsSame
  <2>6. \A u \in Sources : finalized[u] =>
          finalized'[u] /\ derived'[u] = derived[u] /\ equiv'[u] = equiv[u]
    BY <1>2, <2>1
  <2>7. /\ current' # current => current' = s /\ Outranks(s)
        /\ current # NoSource => current' # NoSource
    BY <1>0, <2>1
  <2>8. QED
    BY <2>1, <2>2, <2>3, <2>5, <2>6, <2>7
<1>3. QED
  BY <1>1, <1>2

\* The job that follows is that of a version that is not set aside, and the current
\* version has one.
LEMMA FollowUpKeeps ==
  ASSUME VersionsSound, NEW s \in Sources, NEW r \in Requests, NEW c \in BOOLEAN,
         Sent(s, c), CurrentIsFinal', EquivalentIsSame',
         equiv' \in [Sources -> Sources \cup {NoSource}],
         \A u \in Sources : finalized[u] => finalized'[u] /\ equiv'[u] = equiv[u],
         current' = current \/ current' = s,
         FollowUp(s, r, c)
  PROVE  CurrentHasFollowUp' /\ followUps' \subseteq FollowUpKeys
<1>0. NoSource \notin Sources /\ r # NoSource
  BY IngestionAssumption
<1>1. followUps \subseteq FollowUpKeys
  BY DEF VersionsSound, VersionTypes
<1>2. \A k \in followUps : /\ finalized'[k[1]] /\ equiv'[k[1]] = NoSource
                           /\ k[2] = NoSource => Sent(k[1], FALSE)
  BY <1>1 DEF VersionsSound, CurrentHasFollowUp, FollowUpKeys
<1>3. CASE current' = s /\ ~c
  <2>1. followUps' = followUps \cup {<<s, NoSource>>}
    BY <1>3 DEF FollowUp
  <2>2. finalized'[s] /\ equiv'[s] = NoSource /\ Sent(s, FALSE)
    BY <1>0, <1>3 DEF CurrentIsFinal
  <2>3. QED
    BY <1>1, <1>2, <1>3, <2>1, <2>2 DEF CurrentHasFollowUp, FollowUpKeys, Sent
<1>4. CASE ~(current' = s /\ ~c)
  <2>1. \/ followUps' = followUps
        \/ equiv'[s] # NoSource /\ followUps' = followUps \cup {<<equiv'[s], r>>}
    BY <1>4 DEF FollowUp
  <2>2. equiv'[s] # NoSource =>
          equiv'[s] \in Sources /\ finalized'[equiv'[s]] /\ equiv'[equiv'[s]] = NoSource
    BY DEF EquivalentIsSame
  <2>3. \A k \in followUps' : /\ finalized'[k[1]] /\ equiv'[k[1]] = NoSource
                              /\ k[2] = NoSource => Sent(k[1], FALSE)
    <3>1. ASSUME NEW k, k = <<equiv'[s], r>>, equiv'[s] # NoSource
          PROVE  finalized'[k[1]] /\ equiv'[k[1]] = NoSource /\ k[2] # NoSource
      BY <1>0, <2>2, <3>1
    <3>2. QED
      BY <1>2, <2>1, <3>1
  <2>4. (current' # NoSource /\ ~Sent(current', TRUE)) => <<current', NoSource>> \in followUps'
    <3>1. current' = s => c
      BY <1>4
    <3>2. current' = s => Sent(current', TRUE)
      BY <3>1
    <3>3. (current # NoSource /\ ~Sent(current, TRUE)) => <<current, NoSource>> \in followUps
      BY DEF VersionsSound, CurrentHasFollowUp
    <3>4. followUps \subseteq followUps'
      BY <2>1
    <3>5. CASE current' = s
      BY <3>2, <3>5
    <3>6. CASE current' = current
      BY <3>3, <3>4, <3>6
    <3>7. QED
      BY <3>5, <3>6
  <2>5. followUps' \subseteq FollowUpKeys
    BY <1>1, <2>1, <2>2 DEF FollowUpKeys
  <2>6. QED
    BY <2>3, <2>4, <2>5 DEF CurrentHasFollowUp, Sent
<1>5. QED
  BY <1>3, <1>4

\* The transaction of the finalizer keeps the versions sound; what was finalized stays,
\* and the current version gives way only to one that was not staged before it.
LEMMA ApplyKeeps ==
  ASSUME IngestionInv, NEW x \in Runs, Apply(x)
  PROVE  /\ VersionsSound'
         /\ \A u \in Sources : finalized[u] =>
              finalized'[u] /\ derived'[u] = derived[u] /\ equiv'[u] = equiv[u]
         /\ current # NoSource => current' # NoSource /\ made'[current'] >= made[current]
         /\ UNCHANGED <<made, data, askedBy, cached>>
<1> DEFINE s == run[x].src
           f == run[x].fields
           r == run[x].key[1]
           c == run[x].cached
<1>0. run[x] \in HandlerRecords /\ run[x].pc = "read"
  BY DEF IngestionInv, SessionTypes, Apply
<1>1. run[x] \in HasRead
  BY <1>0 DEF HandlerRecords, Idle, Prepared, PreparedNothing, HasApplied
<1>2. /\ s \in Sources /\ f \in Fields /\ c \in BOOLEAN /\ run[x].key \in JobKeys
      /\ made[s] > 0 /\ Sent(s, c)
  BY <1>0, <1>1 DEF HasRead, IngestionInv, HandlersSawRow
<1>3. r \in Requests
  BY <1>2, IngestionAssumption DEF JobKeys
<1>4. /\ FinalizeVersion(s, f) /\ FollowUp(s, r, c)
      /\ provenance' = [provenance EXCEPT ![s] = @ \/ f[2]]
  BY DEF Apply
<1>5. VersionsSound
  BY DEF IngestionInv
<1> HIDE DEF s, f, r, c
<1>6. /\ FinalIsStaged' /\ CurrentIsFinal' /\ EquivalentIsSame'
      /\ \A u \in Sources : finalized[u] =>
           finalized'[u] /\ derived'[u] = derived[u] /\ equiv'[u] = equiv[u]
      /\ current' # current => current' = s /\ Outranks(s)
      /\ current # NoSource => current' # NoSource
      /\ UNCHANGED <<made, data, askedBy, cached>>
  BY <1>2, <1>4, <1>5, FinalizeKeeps
<1>7. /\ finalized' \in [Sources -> BOOLEAN] /\ derived' \in [Sources -> Fields]
      /\ equiv' \in [Sources -> Sources \cup {NoSource}] /\ current' \in Sources \cup {NoSource}
  BY <1>2, <1>4, <1>5 DEF FinalizeVersion, Unchanged, Outranks, VersionsSound, VersionTypes
<1>8. CurrentHasFollowUp' /\ followUps' \subseteq FollowUpKeys
  BY <1>2, <1>3, <1>4, <1>5, <1>6, <1>7, FollowUpKeeps
<1>9. provenance' \in [Sources -> BOOLEAN]
  BY <1>4, <1>5 DEF VersionsSound, VersionTypes
<1>9a. FlagIsSent'
  BY <1>5, <1>6 DEF VersionsSound, FlagIsSent, Sent
<1>10. VersionsSound'
  BY <1>5, <1>6, <1>7, <1>8, <1>9, <1>9a DEF VersionsSound, VersionTypes
<1>11. current # NoSource => current' # NoSource /\ made'[current'] >= made[current]
  <2>1. current # NoSource => made[current] \in Nat
    BY <1>5 DEF VersionsSound, VersionTypes
  <2>2. QED
    BY <1>6, <2>1 DEF Outranks
<1>12. QED
  BY <1>6, <1>10, <1>11

-----------------------------------------------------------------------------
(* Callbacks and handlers. *)

versionState == <<rows, followUps>>

\* A step that leaves the versions alone keeps them sound.
LEMMA VersionsStay ==
  ASSUME VersionsSound, UNCHANGED versionState
  PROVE  VersionsSound'
BY DEF versionState, rows, VersionsSound, VersionTypes, FinalIsStaged, FlagIsSent,
       CurrentIsFinal, EquivalentIsSame, CurrentHasFollowUp, Sent

\* What a callback transaction is at each of its places.
LEMMA HookPlaces ==
  ASSUME NEW q \in HookRecords
  PROVE  /\ q.pc \in {"closed", "open", "staged"}
         /\ q.pc \in {"open", "staged"} => q.ev \in Lawsuits /\ q.at \in Nat
BY DEF HookRecords

\* The instants on record are numbers, and so is the next one.
LEMMA NowIsNat ==
  ASSUME VersionTypes, SessionTypes, NEW t, IsNow(t)
  PROVE  t \in Nat
<1>1. PICK u \in OnRecord : t \in {u, u + 1}
  BY DEF IsNow
<1>2. u \in Nat
  <2>1. \A s \in Sources : made[s] \in Nat
    BY DEF VersionTypes
  <2>2. \A h \in Hooks : hook[h].pc # "closed" => hook[h].at \in Nat
    BY HookPlaces DEF SessionTypes
  <2>3. QED
    BY <1>1, <2>1, <2>2 DEF OnRecord
<1>3. QED
  BY <1>1, <1>2

\* A callback transaction keeps the invariant.
LEMMA HookKeeps ==
  ASSUME IngestionInv, NEW h \in Hooks, HookStep(h)
  PROVE  /\ IngestionInv'
         /\ \A u \in Sources : finalized[u] =>
              /\ finalized'[u] /\ derived'[u] = derived[u] /\ equiv'[u] = equiv[u]
              /\ made'[u] = made[u] /\ data'[u] = data[u]
              /\ askedBy'[u] = askedBy[u] /\ cached'[u] = cached[u]
         /\ current' = current
<1>0. VersionsSound /\ VersionTypes /\ SessionTypes /\ HandlersSawRow
  BY DEF IngestionInv, VersionsSound
<1>1. ASSUME UNCHANGED <<versionState, completed, run>>, hook' \in [Hooks -> HookRecords]
      PROVE  /\ IngestionInv'
             /\ UNCHANGED <<made, data, askedBy, cached, finalized, derived, equiv, current>>
  BY <1>0, <1>1, VersionsStay
     DEF IngestionInv, SessionTypes, HandlersSawRow, Sent, versionState, rows
<1>2. CASE CommitLawsuit(h)
  <2> DEFINE ev == hook[h].ev
             t == hook[h].at
  <2>1. hook[h] \in HookRecords /\ hook[h].pc = "staged"
    BY <1>0, <1>2 DEF SessionTypes, CommitLawsuit
  <2>2. ev \in Lawsuits /\ t \in Nat
    BY <2>1, HookPlaces
  <2>4. StageVersion(ev, t) /\ UNCHANGED <<completed, followUps, run>>
    BY <1>2 DEF CommitLawsuit
  <2>5. hook' = [hook EXCEPT ![h] = Closed]
    BY <1>2 DEF CommitLawsuit
  <2> HIDE DEF ev, t
  <2>6. /\ VersionsSound'
        /\ \A u \in Sources : made[u] > 0 => made'[u] = made[u]
        /\ \A u \in Sources : finalized[u] =>
             data'[u] = data[u] /\ askedBy'[u] = askedBy[u] /\ cached'[u] = cached[u]
    BY <1>0, <2>2, <2>4, StageVersionKeeps
  <2>7. UNCHANGED <<finalized, derived, equiv, current>>
    BY <2>4 DEF StageVersion
  <2>8. SessionTypes'
    BY <1>0, <2>4, <2>5 DEF SessionTypes, HookRecords, Closed
  <2>9. HandlersSawRow'
    <3>1. \A x \in Runs : run[x].pc = "read" => run[x].src \in Sources
      BY <1>0 DEF SessionTypes, HandlerRecords, Idle, Prepared, PreparedNothing, HasRead, HasApplied
    <3>2. QED
      BY <1>0, <2>4, <2>6, <3>1 DEF HandlersSawRow, Sent
  <2>10. \A u \in Sources : finalized[u] => made'[u] = made[u]
    BY <1>0, <2>6 DEF VersionsSound, FinalIsStaged
  <2>11. QED
    BY <2>6, <2>7, <2>8, <2>9, <2>10 DEF IngestionInv
<1>3. ASSUME NEW ev \in Lawsuits, NEW t \in Instants, OpenLawsuit(h, ev, t)
      PROVE  UNCHANGED <<versionState, completed, run>> /\ hook' \in [Hooks -> HookRecords]
  <2>1. t \in Nat
    BY <1>0, <1>3, NowIsNat DEF OpenLawsuit
  <2> DEFINE q == [pc |-> "open", ev |-> ev, at |-> t]
  <2>2. q \in HookRecords
    BY <2>1 DEF HookRecords
  <2>3. hook' = [hook EXCEPT ![h] = q] /\ UNCHANGED <<versionState, completed, run>>
    BY <1>3 DEF OpenLawsuit, versionState
  <2> HIDE DEF q
  <2>4. QED
    BY <1>0, <2>2, <2>3 DEF SessionTypes
<1>4. ASSUME StageLawsuit(h)
      PROVE  UNCHANGED <<versionState, completed, run>> /\ hook' \in [Hooks -> HookRecords]
  <2> DEFINE q == IF hook[h].ev.cb \in deliveries THEN Closed
                  ELSE [pc |-> "staged", ev |-> hook[h].ev, at |-> hook[h].at,
                        late |-> hook[h].ev.req \in completed]
  <2>1. hook[h] \in HookRecords /\ hook[h].pc = "open"
    BY <1>0, <1>4 DEF SessionTypes, StageLawsuit
  <2>2. q \in HookRecords
    BY <2>1, HookPlaces DEF HookRecords, Closed
  <2>3. hook' = [hook EXCEPT ![h] = q] /\ UNCHANGED <<versionState, completed, run>>
    BY <1>4 DEF StageLawsuit, versionState
  <2> HIDE DEF q
  <2>4. QED
    BY <1>0, <2>2, <2>3 DEF SessionTypes
<1>5. ASSUME AbortLawsuit(h)
      PROVE  UNCHANGED <<versionState, completed, run>> /\ hook' \in [Hooks -> HookRecords]
  BY <1>0, <1>5 DEF AbortLawsuit, versionState, SessionTypes, HookRecords, Closed
<1>6. QED
  BY <1>1, <1>2, <1>3, <1>4, <1>5 DEF HookStep

\* The preferred version of a request has a row.
LEMMA PreferredIsStaged ==
  ASSUME NEW r, NEW s \in Preferred(r)
  PROVE  s \in Sources /\ made[s] > 0
BY DEF Preferred, Staged

\* A handler that does not apply keeps the invariant when its new record is sound.
LEMMA OneHandlerMoves ==
  ASSUME IngestionInv, NEW x \in Runs, NEW q \in HandlerRecords,
         run' = [run EXCEPT ![x] = q],
         q.pc = "read" => made'[q.src] > 0 /\ Sent(q.src, q.cached),
         UNCHANGED <<made, completed, hook>>, VersionsSound'
  PROVE  IngestionInv'
BY DEF IngestionInv, SessionTypes, HandlersSawRow, Sent

\* What a handler is at each of its places.
LEMMA HandlerPlaces ==
  ASSUME NEW q \in HandlerRecords
  PROVE  /\ q.pc # "idle" => q.key \in JobKeys /\ q.lease \in Nat
         /\ q.pc = "prepared" => \/ q.src = NoSource
                                 \/ q.src \in Sources /\ q.fields \in Fields
         /\ q.pc = "read" => q.src \in Sources /\ q.fields \in Fields
BY DEF HandlerRecords, Idle, Prepared, PreparedNothing, HasRead, HasApplied

\* The preparation of a handler keeps the invariant.
LEMMA PrepareKeeps ==
  ASSUME IngestionInv, JobTypes, NEW x \in Runs, NEW k \in JobKeys, Prepare(x, k)
  PROVE  IngestionInv'
<1>1. VersionsSound' /\ UNCHANGED <<made, completed, hook>>
  BY VersionsStay DEF IngestionInv, Prepare, versionState, rows
<1>2. attempts[k] + 1 \in Nat
  BY DEF JobTypes
<1>3. CASE run' = [run EXCEPT ![x] = [pc |-> "prepared", key |-> k, lease |-> attempts[k] + 1,
                                      src |-> NoSource]]
  <2> DEFINE q == [pc |-> "prepared", key |-> k, lease |-> attempts[k] + 1, src |-> NoSource]
  <2>1. q \in HandlerRecords /\ q.pc = "prepared" /\ run' = [run EXCEPT ![x] = q]
    BY <1>2, <1>3 DEF HandlerRecords, PreparedNothing
  <2> HIDE DEF q
  <2>2. QED
    BY <1>1, <2>1, OneHandlerMoves
<1>4. ASSUME NEW s \in Preferred(k[1]), NEW enriched \in BOOLEAN,
             run' = [run EXCEPT ![x] =
                       [pc |-> "prepared", key |-> k, lease |-> attempts[k] + 1,
                        src |-> s, fields |-> <<data[s], enriched>>]]
      PROVE  IngestionInv'
  <2> DEFINE q == [pc |-> "prepared", key |-> k, lease |-> attempts[k] + 1,
                   src |-> s, fields |-> <<data[s], enriched>>]
  <2>1. s \in Sources
    BY PreferredIsStaged
  <2>2. <<data[s], enriched>> \in Fields
    BY <2>1 DEF IngestionInv, VersionsSound, VersionTypes, Fields
  <2>3. q \in HandlerRecords /\ q.pc = "prepared" /\ run' = [run EXCEPT ![x] = q]
    BY <1>2, <1>4, <2>1, <2>2 DEF HandlerRecords, Prepared
  <2> HIDE DEF q
  <2>4. QED
    BY <1>1, <2>3, OneHandlerMoves
<1>5. QED
  BY <1>3, <1>4 DEF Prepare

\* What a handler reads in its transaction is there.
LEMMA ReadKeeps ==
  ASSUME IngestionInv, NEW x \in Runs, Read(x)
  PROVE  IngestionInv'
<1>1. VersionsSound' /\ UNCHANGED <<made, completed, hook>>
  BY VersionsStay DEF IngestionInv, Read, versionState, rows
<1>2. /\ run[x] \in HandlerRecords /\ run[x].pc = "prepared"
      /\ run[x].key \in JobKeys /\ run[x].lease \in Nat
  BY HandlerPlaces DEF IngestionInv, SessionTypes, Read
<1>3. CASE run' = [run EXCEPT ![x] = [pc |-> "applied", key |-> @.key, lease |-> @.lease]]
  <2> DEFINE q == [pc |-> "applied", key |-> run[x].key, lease |-> run[x].lease]
  <2>1. q \in HandlerRecords /\ q.pc = "applied" /\ run' = [run EXCEPT ![x] = q]
    BY <1>2, <1>3 DEF HandlerRecords, HasApplied
  <2> HIDE DEF q
  <2>2. QED
    BY <1>1, <2>1, OneHandlerMoves
<1>4. ASSUME NEW s \in Preferred(run[x].key[1]),
             run' = [run EXCEPT ![x] =
                       [pc |-> "read", key |-> @.key, lease |-> @.lease, src |-> s,
                        cached |-> cached[s],
                        fields |-> IF @.src = s THEN @.fields ELSE <<data[s], FALSE>>]]
      PROVE  IngestionInv'
  <2> DEFINE f == IF run[x].src = s THEN run[x].fields ELSE <<data[s], FALSE>>
             q == [pc |-> "read", key |-> run[x].key, lease |-> run[x].lease, src |-> s,
                   cached |-> cached[s], fields |-> f]
  <2>1. s \in Sources /\ made[s] > 0
    BY PreferredIsStaged
  <2>1a. cached[s] \in BOOLEAN /\ Sent(s, cached[s])
    BY <2>1 DEF IngestionInv, VersionsSound, VersionTypes, FlagIsSent
  <2>2. f \in Fields
    <3>1. <<data[s], FALSE>> \in Fields
      BY <2>1 DEF IngestionInv, VersionsSound, VersionTypes, Fields
    <3>2. run[x].src = s => run[x].fields \in Fields
      BY <1>2, <2>1, HandlerPlaces, IngestionAssumption
    <3>3. QED
      BY <3>1, <3>2
  <2>3. run' = [run EXCEPT ![x] = q]
    BY <1>4
  <2> HIDE DEF f
  <2>4. q \in HandlerRecords /\ q.pc = "read" /\ q.src = s /\ q.cached = cached[s]
    BY <1>2, <2>1, <2>1a, <2>2 DEF HandlerRecords, HasRead
  <2> HIDE DEF q
  <2>5. QED
    BY <1>1, <2>1, <2>1a, <2>3, <2>4, OneHandlerMoves
<1>5. QED
  BY <1>3, <1>4 DEF Read

\* So does the transaction of a handler.
LEMMA ApplyKeepsAll ==
  ASSUME IngestionInv, NEW x \in Runs, Apply(x)
  PROVE  IngestionInv'
<1> DEFINE q == [pc |-> "applied", key |-> run[x].key, lease |-> run[x].lease]
<1>1. run[x] \in HandlerRecords /\ run[x].pc = "read"
  BY DEF IngestionInv, SessionTypes, Apply
<1>2. run[x].key \in JobKeys /\ run[x].lease \in Nat
  BY <1>1, HandlerPlaces
<1>3. q \in HandlerRecords /\ q.pc = "applied"
  BY <1>2 DEF HandlerRecords, HasApplied
<1>4. run' = [run EXCEPT ![x] = q] /\ UNCHANGED <<completed, hook>>
  BY DEF Apply
<1>5. VersionsSound' /\ made' = made
  BY ApplyKeeps
<1> HIDE DEF q
<1>6. QED
  BY <1>3, <1>4, <1>5, OneHandlerMoves

-----------------------------------------------------------------------------
(* The finalizer jobs. *)

\* A job that waits has an attempt left, and a forgotten one begins anew.
AttemptsFit ==
  \A k \in JobKeys :
    /\ job[k] = "free" => attempts[k] = 0
    /\ job[k] = "pending" => attempts[k] < MaxAttempts

JobInv == JobTypes /\ AttemptsFit

\* What may become of the job k in a step.
JobSubmitted(k) ==
  job[k] = "free" /\ job' = [job EXCEPT ![k] = "pending"] /\ attempts' = attempts
JobBegun(k) ==
  /\ job[k] = "pending" /\ job' = [job EXCEPT ![k] = "processing"]
  /\ attempts' = [attempts EXCEPT ![k] = @ + 1]
JobFinished(k) ==
  job[k] = "processing" /\ job' = [job EXCEPT ![k] = "completed"] /\ attempts' = attempts
JobGivenBack(k) ==
  job[k] = "processing" /\ job' = GiveBack(k) /\ attempts' = attempts
JobForgotten(k) ==
  /\ k \in Forgotten /\ job' = [job EXCEPT ![k] = "free"]
  /\ attempts' = [attempts EXCEPT ![k] = 0]

JobEffect(k) ==
  \/ JobSubmitted(k) \/ JobBegun(k) \/ JobFinished(k) \/ JobGivenBack(k) \/ JobForgotten(k)

\* Every step leaves the jobs alone or moves one of them.
LEMMA NextJobEffect ==
  ASSUME IngestionInv, Next
  PROVE  UNCHANGED queue \/ \E k \in JobKeys : JobEffect(k)
<1> DEFINE Goal == UNCHANGED queue \/ \E k \in JobKeys : JobEffect(k)
<1>1. ASSUME NEW k \in JobKeys, attempts' = attempts, job' = WithJob(k) \/ job' = job
      PROVE  Goal
  BY <1>1 DEF WithJob, JobEffect, JobSubmitted, queue
<1>2. ASSUME NEW h \in Hooks, HookStep(h) PROVE Goal
  <2>1. CASE CommitLawsuit(h)
    <3>1. hook[h] \in HookRecords /\ hook[h].pc = "staged"
      BY <2>1 DEF IngestionInv, SessionTypes, CommitLawsuit
    <3>2. hook[h].ev.src \in Sources /\ hook[h].ev.req \in Requests
      BY <3>1, HookPlaces, IngestionAssumption
    <3>3. <<hook[h].ev.req, hook[h].ev.src>> \in JobKeys
      BY <3>2 DEF JobKeys
    <3>4. QED
      BY <1>1, <2>1, <3>3 DEF CommitLawsuit
  <2>2. CASE ~CommitLawsuit(h)
    BY <1>2, <2>2 DEF HookStep, OpenLawsuit, StageLawsuit, AbortLawsuit
  <2>3. QED
    BY <2>1, <2>2
<1>3. ASSUME NEW ev \in Completions, ReceiveCompletion(ev) PROVE Goal
  <2>1. <<ev.req, NoSource>> \in JobKeys
    BY IngestionAssumption DEF JobKeys
  <2>2. QED
    BY <1>1, <1>3, <2>1 DEF ReceiveCompletion
<1>4. ASSUME NEW k \in Forgotten \cap JobKeys, PurgeJob(k) PROVE Goal
  BY <1>4 DEF PurgeJob, JobEffect, JobForgotten
<1>5. ASSUME NEW x \in Runs, NEW k \in JobKeys, Prepare(x, k) PROVE Goal
  BY <1>5 DEF Prepare, JobEffect, JobBegun
<1>6. ASSUME NEW x \in Runs, Complete(x) \/ Fail(x) PROVE Goal
  <2>1. run[x].key \in JobKeys
    BY <1>6, HandlerPlaces DEF IngestionInv, SessionTypes, Complete, Fail
  <2>2. QED
    BY <1>6, <2>1 DEF Complete, Fail, HoldsLease, JobEffect, JobFinished, JobGivenBack, queue
<1>7. ASSUME NEW x \in Runs, Read(x) \/ Apply(x) \/ Die(x) PROVE Goal
  BY <1>7 DEF Read, Apply, Die
<1>8. ASSUME NEW k \in JobKeys, Reclaim(k) PROVE Goal
  BY <1>8 DEF Reclaim, JobEffect, JobGivenBack
<1>9. ASSUME NEW c, PurgeDelivery(c) \/ PurgeCompletion(c) PROVE Goal
  BY <1>9 DEF PurgeDelivery, PurgeCompletion
<1> HIDE DEF Goal
<1>10. Goal
  BY <1>2, <1>3, <1>4, <1>5, <1>6, <1>7, <1>8, <1>9 DEF Next, RunStep
<1>11. QED
  BY <1>10 DEF Goal

\* A job keeps its attempts within the limit.
LEMMA JobEffectKeeps ==
  ASSUME JobInv, NEW k \in JobKeys, JobEffect(k)
  PROVE  JobInv'
<1>0. MaxAttempts \in Nat /\ MaxAttempts > 0
  BY IngestionAssumption
<1> USE DEF JobInv, JobTypes, AttemptsFit
<1>1. CASE JobSubmitted(k)
  BY <1>0, <1>1 DEF JobSubmitted
<1>2. CASE JobBegun(k)
  BY <1>0, <1>2 DEF JobBegun
<1>3. CASE JobFinished(k)
  BY <1>0, <1>3 DEF JobFinished
<1>4. CASE JobGivenBack(k)
  BY <1>0, <1>4 DEF JobGivenBack, GiveBack
<1>5. CASE JobForgotten(k)
  BY <1>0, <1>5 DEF JobForgotten
<1>6. QED
  BY <1>1, <1>2, <1>3, <1>4, <1>5 DEF JobEffect

-----------------------------------------------------------------------------
(* The theorems. *)

\* The invariant holds before anything has happened.
LEMMA InitInv == Init => IngestionInv /\ JobInv
<1> SUFFICES ASSUME Init PROVE IngestionInv /\ JobInv
  OBVIOUS
<1>0. MaxAttempts \in Nat /\ MaxAttempts > 0
  BY IngestionAssumption
<1>1. VersionTypes
  BY DEF Init, VersionTypes, Datas, Fields
<1>2. FinalIsStaged /\ FlagIsSent /\ CurrentIsFinal /\ EquivalentIsSame /\ CurrentHasFollowUp
  BY DEF Init, FinalIsStaged, FlagIsSent, CurrentIsFinal, EquivalentIsSame, CurrentHasFollowUp
<1>3. SessionTypes
  BY DEF Init, SessionTypes, HookRecords, HandlerRecords, Closed
<1>4. HandlersSawRow
  BY DEF Init, HandlersSawRow, Idle
<1>5. JobInv
  BY <1>0 DEF Init, JobInv, JobTypes, AttemptsFit
<1>6. QED
  BY <1>1, <1>2, <1>3, <1>4, <1>5 DEF IngestionInv, VersionsSound

\* The steps that touch neither a version nor a callback nor the place of a handler, but
\* for letting it end, keep the invariant.
LEMMA OthersKeep ==
  ASSUME IngestionInv, UNCHANGED versionState, hook' = hook, completed' \subseteq Requests,
         run' = run \/ \E x \in Runs : run' = [run EXCEPT ![x] = Idle]
  PROVE  IngestionInv'
<1>1. VersionsSound' /\ made' = made
  BY VersionsStay DEF IngestionInv, versionState, rows
<1>2. SessionTypes'
  BY DEF IngestionInv, SessionTypes, HandlerRecords
<1>3. HandlersSawRow'
  BY <1>1 DEF IngestionInv, SessionTypes, HandlersSawRow, Idle, Sent
<1>4. QED
  BY <1>1, <1>2, <1>3 DEF IngestionInv

\* Every step but a callback's and the transaction of a handler leaves the versions alone.
LEMMA QuietSteps ==
  ASSUME Next
  PROVE  \/ \E h \in Hooks : HookStep(h)
         \/ \E x \in Runs : Apply(x)
         \/ UNCHANGED versionState
BY DEF Next, RunStep, Prepare, Read, Complete, Fail, Die, Reclaim, PurgeDelivery, PurgeCompletion,
       PurgeJob, ReceiveCompletion, versionState, rows

\* Every step keeps the invariant.
LEMMA NextInv ==
  ASSUME IngestionInv, JobInv, [Next]_vars
  PROVE  IngestionInv' /\ JobInv'
<1>1. CASE UNCHANGED vars
  <2>1. IngestionInv'
    BY <1>1, OthersKeep DEF vars, versionState, rows, IngestionInv, SessionTypes
  <2>2. JobInv'
    BY <1>1 DEF vars, JobInv, JobTypes, AttemptsFit
  <2>3. QED
    BY <2>1, <2>2
<1>2. CASE Next
  <2>1. JobInv'
    <3>1. CASE UNCHANGED queue
      BY <3>1 DEF queue, JobInv, JobTypes, AttemptsFit
    <3>2. QED
      BY <1>2, <3>1, NextJobEffect, JobEffectKeeps
  <2>2. ASSUME NEW h \in Hooks, HookStep(h) PROVE IngestionInv'
    BY <2>2, HookKeeps
  <2>3. ASSUME NEW x \in Runs, RunStep(x) PROVE IngestionInv'
    <3>1. CASE Complete(x)
      BY <3>1, OthersKeep DEF Complete, versionState, rows, IngestionInv, SessionTypes
    <3>2. QED
      BY <2>3, <3>1, PrepareKeeps, ReadKeeps, ApplyKeepsAll DEF RunStep, JobInv
  <2>4. ASSUME NEW x \in Runs, Fail(x) \/ Die(x) PROVE IngestionInv'
    BY <2>4, OthersKeep DEF Fail, Die, versionState, rows, IngestionInv, SessionTypes
  <2>5. ASSUME NEW ev \in Completions, ReceiveCompletion(ev) PROVE IngestionInv'
    BY <2>5, OthersKeep, IngestionAssumption
       DEF ReceiveCompletion, versionState, rows, IngestionInv, SessionTypes
  <2>6. ASSUME NEW c, PurgeDelivery(c) \/ PurgeCompletion(c) \/ PurgeJob(c) \/ Reclaim(c)
        PROVE  IngestionInv'
    BY <2>6, OthersKeep
       DEF PurgeDelivery, PurgeCompletion, PurgeJob, Reclaim, versionState, rows,
           IngestionInv, SessionTypes
  <2>7. QED
    BY <1>2, <2>1, <2>2, <2>3, <2>4, <2>5, <2>6 DEF Next
<1>3. QED
  BY <1>1, <1>2

\* In every state versions, callbacks, handlers and jobs are sound.
LEMMA InvHolds == Spec => [](IngestionInv /\ JobInv)
BY InitInv, NextInv, PTL DEF Spec

\* The tables, the open transactions and the handlers are well formed.
THEOREM TypeCorrect == Spec => []TypeOK
<1>1. IngestionInv /\ JobInv => TypeOK
  <2> SUFFICES ASSUME IngestionInv, JobInv PROVE TypeOK
    OBVIOUS
  <2>1. \A h \in Hooks : hook[h].pc \in {"closed", "open", "staged"}
    BY HookPlaces DEF IngestionInv, SessionTypes
  <2>2. \A x \in Runs : run[x].pc \in {"idle", "prepared", "read", "applied"}
    BY DEF IngestionInv, SessionTypes, HandlerRecords, Idle, Prepared, PreparedNothing, HasRead,
           HasApplied
  <2>3. VersionTypes /\ JobTypes /\ completed \subseteq Requests
    BY DEF IngestionInv, VersionsSound, JobInv, SessionTypes
  <2>4. QED
    BY <2>1, <2>2, <2>3 DEF TypeOK, VersionTypes, JobTypes
<1>2. QED
  BY <1>1, InvHolds, PTL

\* A version is set aside only for one with the same derived data that was promoted, so
\* that equivalences never chain (finalize_version).
THEOREM EquivalentAlwaysSame == Spec => []EquivalentIsSame
<1>1. IngestionInv => EquivalentIsSame
  BY DEF IngestionInv, VersionsSound
<1>2. QED
  BY <1>1, InvHolds, PTL

\* A current version of which the provider sent only fresh copies has its summary or
\* attachments job, one of which it sent only cached copies starts none, and no version
\* that was set aside or not finalized has one (finalize_judit_request).
THEOREM CurrentAlwaysFollowedUp == Spec => []CurrentHasFollowUp
<1>1. IngestionInv => CurrentHasFollowUp
  BY DEF IngestionInv, VersionsSound
<1>2. QED
  BY <1>1, InvHolds, PTL

\* The current version never gives way to one that was staged before it.
THEOREM CurrentIsMonotone == Spec => CurrentMonotone
<1>1. ASSUME IngestionInv, [Next]_vars
      PROVE  [current # NoSource => /\ current' # NoSource
                                    /\ made'[current'] >= made[current]]_vars
  <2> SUFFICES ASSUME Next, current # NoSource
               PROVE  current' # NoSource /\ made'[current'] >= made[current]
    BY <1>1
  <2>1. /\ current \in Sources /\ finalized[current]
        /\ made[current] \in Nat
    BY <1>1 DEF IngestionInv, VersionsSound, VersionTypes, CurrentIsFinal
  <2>2. ASSUME NEW h \in Hooks, HookStep(h)
        PROVE  current' # NoSource /\ made'[current'] >= made[current]
    BY <1>1, <2>1, <2>2, HookKeeps
  <2>3. ASSUME NEW x \in Runs, Apply(x)
        PROVE  current' # NoSource /\ made'[current'] >= made[current]
    BY <1>1, <2>3, ApplyKeeps
  <2>4. QED
    BY <2>1, <2>2, <2>3, QuietSteps DEF versionState, rows
<1>2. QED
  BY <1>1, InvHolds, PTL DEF Spec, CurrentMonotone

\* Source and derived data of a finalized version never change (stage_version and
\* finalize_version).
THEOREM FinalizedIsImmutable == Spec => FinalizedImmutable
<1>1. ASSUME IngestionInv, [Next]_vars
      PROVE  [\A s \in Sources : finalized[s] =>
                /\ finalized'[s]
                /\ data'[s] = data[s] /\ made'[s] = made[s]
                /\ askedBy'[s] = askedBy[s] /\ cached'[s] = cached[s]
                /\ derived'[s] = derived[s] /\ equiv'[s] = equiv[s]]_vars
  <2> SUFFICES ASSUME Next, NEW s \in Sources, finalized[s]
               PROVE  /\ finalized'[s]
                      /\ data'[s] = data[s] /\ made'[s] = made[s]
                      /\ askedBy'[s] = askedBy[s] /\ cached'[s] = cached[s]
                      /\ derived'[s] = derived[s] /\ equiv'[s] = equiv[s]
    BY <1>1
  <2>1. CASE \E h \in Hooks : HookStep(h)
    BY <1>1, <2>1, HookKeeps
  <2>2. CASE \E x \in Runs : Apply(x)
    BY <1>1, <2>2, ApplyKeeps
  <2>3. CASE UNCHANGED versionState
    BY <2>3 DEF versionState, rows
  <2>4. QED
    BY <2>1, <2>2, <2>3, QuietSteps
<1>2. QED
  BY <1>1, InvHolds, PTL DEF Spec, FinalizedImmutable

\* The finalizer jobs are a queue of at most max_attempts starts, as long as none is
\* forgotten: the constraint of the keys, the workers, the reclaimer and the callbacks
\* together do what JobContract promises.
THEOREM FinalizersFollowContract ==
  ASSUME Forgotten \cap JobKeys = {}
  PROVE  Spec => JobsFollowContract
<1>1. Init => Contract!CInit
  BY DEF Init, Contract!CInit
<1>2. ASSUME IngestionInv, JobInv, [Next]_vars
      PROVE  [Contract!CNext]_Contract!cvars
  <2>1. CASE UNCHANGED queue \/ UNCHANGED vars
    BY <2>1 DEF queue, vars, Contract!cvars
  <2>2. ASSUME NEW k \in JobKeys, JobEffect(k)
        PROVE  Contract!CNext
    <3> USE <1>2 DEF JobInv, JobTypes, AttemptsFit
    <3>1. CASE JobSubmitted(k)
      <4>1. Contract!Submit(k, k, MaxAttempts)
        BY <3>1 DEF JobSubmitted, Contract!Submit
      <4>2. QED
        BY <4>1 DEF Contract!CNext
    <3>2. CASE JobBegun(k)
      <4>1. Contract!Begin(k)
        BY <3>2 DEF JobBegun, Contract!Begin
      <4>2. QED
        BY <4>1 DEF Contract!CNext
    <3>3. CASE JobFinished(k)
      <4>1. Contract!Finish(k)
        BY <3>3 DEF JobFinished, Contract!Finish
      <4>2. QED
        BY <4>1 DEF Contract!CNext
    <3>4. CASE JobGivenBack(k)
      <4>1. CASE attempts[k] >= MaxAttempts
        <5>1. Contract!Interrupt({k}, {k})
          BY <3>4, <4>1 DEF JobGivenBack, GiveBack, Contract!Interrupt
        <5>2. QED
          BY <5>1 DEF Contract!CNext
      <4>2. CASE ~(attempts[k] >= MaxAttempts)
        <5>1. attempts[k] < MaxAttempts
          BY <4>2, IngestionAssumption
        <5>2. job[k] = "processing" /\ job' = [job EXCEPT ![k] = "pending"] /\ attempts' = attempts
          BY <3>4, <4>2 DEF JobGivenBack, GiveBack
        <5>3. Contract!Interrupt({k}, {})
          BY <5>1, <5>2 DEF Contract!Interrupt
        <5>4. QED
          BY <5>3 DEF Contract!CNext
      <4>3. QED
        BY <4>1, <4>2
    <3>5. CASE JobForgotten(k)
      BY <3>5 DEF JobForgotten
    <3>6. QED
      BY <2>2, <3>1, <3>2, <3>3, <3>4, <3>5 DEF JobEffect
  <2>3. QED
    BY <1>2, <2>1, <2>2, NextJobEffect
<1>3. QED
  BY <1>1, <1>2, InvHolds, PTL DEF Spec, JobsFollowContract, Contract!CSpec
=============================================================================
