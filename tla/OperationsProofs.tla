-------------------------- MODULE OperationsProofs --------------------------
(* Theorems about the rollout of releases, for any deployments and images, and about
   the retention, for any schedulers and answers. *)
EXTENDS Maintenance, Rollout, FiniteSetTheorems, SequenceTheorems, TLAPS

Places == {"new", "pulled", "migrating", "applying", "started", "ready", "failed", "died"}

DeploymentTypes ==
  /\ deployment \in [Deployments -> [pc : Places, next : Nat]]
  /\ \A d \in Deployments : deployment[d].next \in 1..(Len(Files[d]) + 1)
  /\ migrationLock \in Deployments \cup {Nobody}

\* The migrations of one deployment at a time: it has the lock, what it is about to
\* apply is still missing, and it starts services when nothing is left to apply.
MigratorsHaveLock ==
  \A d \in Deployments :
    /\ deployment[d].pc \in {"migrating", "applying"} => migrationLock = d
    /\ deployment[d].pc = "applying" =>
         deployment[d].next <= Len(Files[d]) /\ Recorded(NextFile(d)[1]) = {}
    /\ deployment[d].pc = "started" => deployment[d].next > Len(Files[d])

\* The ledger holds files of images, one text under each name.
LedgerIsOfImages ==
  /\ \A e \in ledger : \E d \in Deployments : \E i \in DOMAIN Files[d] : e = Files[d][i]
  /\ \A e, f \in ledger : e[1] = f[1] => e = f

\* Whatever a deployment has passed is in the ledger as its image has it, and services
\* run only when everything was passed.
PassedIsRecorded ==
  /\ \A d \in Deployments : \A i \in 1..(deployment[d].next - 1) : Files[d][i] \in ledger
  /\ serving # Nobody => serving \in Deployments /\ deployment[serving].next > Len(Files[serving])

\* The names the database has executed.
SchemaIsListed ==
  /\ schema \in Seq(STRING)
  /\ IsFiniteSet(ToSet(schema))
  /\ LedgerIsSchema

RolloutInv ==
  /\ DeploymentTypes /\ MigratorsHaveLock /\ LedgerIsOfImages /\ PassedIsRecorded
  /\ SchemaIsListed /\ OnlyDriftFails

-----------------------------------------------------------------------------
(* Deployments. *)

\* A file of an image is a name with a checksum.
LEMMA FileTypes ==
  ASSUME NEW d \in Deployments
  PROVE  /\ Files[d] \in Seq(STRING \X Nat) /\ Len(Files[d]) \in Nat
         /\ DOMAIN Files[d] = 1..Len(Files[d])
         /\ \A i \in DOMAIN Files[d] : Files[d][i] \in STRING \X Nat
<1>1. Files[d] \in Seq(STRING \X Nat)
  BY RolloutAssumption
<1>2. QED
  BY <1>1

\* A step that takes a deployment to another place.
LEMMA StageEffect ==
  ASSUME DeploymentTypes, NEW d \in Deployments, NEW p \in Places, Stage(d, p)
  PROVE  /\ deployment' \in [Deployments -> [pc : Places, next : Nat]]
         /\ deployment'[d].pc = p /\ deployment'[d].next = deployment[d].next
         /\ \A c \in Deployments \ {d} : deployment'[c] = deployment[c]
BY DEF Stage, DeploymentTypes

\* What is recorded under a name is known from the ledger alone.
LEMMA RecordedIsLedger ==
  ASSUME NEW name, NEW text
  PROVE  /\ Recorded(name) = {} <=> \A e \in ledger : e[1] # name
         /\ text \in Recorded(name) <=> \E e \in ledger : e[1] = name /\ e[2] = text
BY DEF Recorded

\* A deployment that only changes its place, and leaves the migrations for another one
\* only when it gives its lock away, keeps the order.
LEMMA PlaceMoves ==
  ASSUME RolloutInv, NEW d \in Deployments, NEW p \in Places, Stage(d, p),
         UNCHANGED <<ledger, schema>>,
         \/ serving' = serving
         \/ serving' = d /\ deployment[d].next > Len(Files[d]),
         migrationLock' \in Deployments \cup {Nobody},
         \A c \in Deployments \ {d} : migrationLock = c => migrationLock' = c,
         p \in {"migrating", "applying"} => migrationLock' = d,
         p = "applying" => deployment[d].next <= Len(Files[d]) /\ Recorded(NextFile(d)[1]) = {},
         p = "started" => deployment[d].next > Len(Files[d]),
         p = "failed" /\ deployment[d].next <= Len(Files[d]) => d \in Invalid \/
           \E c \in Deployments \ {d} : \E i \in DOMAIN Files[c] :
             /\ Files[c][i][1] = NextFile(d)[1]
             /\ Files[c][i][2] # NextFile(d)[2]
  PROVE  RolloutInv'
<1>0. 0 \notin Deployments
  BY RolloutAssumption
<1>1. /\ deployment' \in [Deployments -> [pc : Places, next : Nat]]
      /\ deployment'[d].pc = p /\ deployment'[d].next = deployment[d].next
      /\ \A c \in Deployments \ {d} : deployment'[c] = deployment[c]
  BY StageEffect DEF RolloutInv
<1>2. \A c \in Deployments : deployment'[c].next = deployment[c].next
  BY <1>1
<1>3. DeploymentTypes'
  BY <1>1, <1>2 DEF RolloutInv, DeploymentTypes
<1>4. \A c \in Deployments : Recorded(NextFile(c)[1])' = Recorded(NextFile(c)[1])
  BY <1>2 DEF Recorded, NextFile
<1>5. MigratorsHaveLock'
  BY <1>1, <1>2, <1>4 DEF RolloutInv, MigratorsHaveLock
<1>6. LedgerIsOfImages' /\ SchemaIsListed'
  BY DEF RolloutInv, LedgerIsOfImages, SchemaIsListed, LedgerIsSchema
<1>7. PassedIsRecorded'
  BY <1>0, <1>2 DEF RolloutInv, PassedIsRecorded, Nobody
<1>8. OnlyDriftFails'
  <2>1. \A c \in Deployments : NextFile(c)' = NextFile(c)
    BY <1>2 DEF NextFile
  <2>2. QED
    BY <1>1, <1>2, <2>1 DEF RolloutInv, OnlyDriftFails
<1>9. QED
  BY <1>3, <1>5, <1>6, <1>7, <1>8 DEF RolloutInv

\* What the ledger has under the name of the next file, if not that file itself, is a
\* text of another image: no image has a name twice.
LEMMA DriftIsOfAnother ==
  ASSUME RolloutInv, NEW d \in Deployments, deployment[d].next <= Len(Files[d]),
         Recorded(NextFile(d)[1]) # {}, Recorded(NextFile(d)[1]) # {NextFile(d)[2]}
  PROVE  \E c \in Deployments \ {d} : \E i \in DOMAIN Files[c] :
           /\ Files[c][i][1] = NextFile(d)[1]
           /\ Files[c][i][2] # NextFile(d)[2]
<1> DEFINE n == deployment[d].next
<1>1. n \in DOMAIN Files[d] /\ NextFile(d) = Files[d][n]
  BY FileTypes DEF RolloutInv, DeploymentTypes, NextFile
<1>2. PICK e \in ledger : e[1] = NextFile(d)[1]
  BY RecordedIsLedger
<1>3. \A f \in ledger : f[1] = NextFile(d)[1] => f = e
  BY <1>2 DEF RolloutInv, LedgerIsOfImages
<1>4. e[2] # NextFile(d)[2]
  <2> SUFFICES ASSUME e[2] = NextFile(d)[2] PROVE FALSE
    OBVIOUS
  <2>1. Recorded(NextFile(d)[1]) = {NextFile(d)[2]}
    BY <1>2, <1>3 DEF Recorded
  <2>2. QED
    BY <2>1
<1>5. PICK c \in Deployments : \E i \in DOMAIN Files[c] : e = Files[c][i]
  BY <1>2 DEF RolloutInv, LedgerIsOfImages
<1>6. c # d
  BY <1>1, <1>2, <1>4, <1>5, RolloutAssumption
<1>7. QED
  BY <1>2, <1>4, <1>5, <1>6

\* Nothing is deployed at first.
LEMMA RolloutStarts == RolloutInit => RolloutInv
<1> SUFFICES ASSUME RolloutInit PROVE RolloutInv
  OBVIOUS
<1>1. DeploymentTypes /\ MigratorsHaveLock
  BY FileTypes DEF RolloutInit, DeploymentTypes, MigratorsHaveLock, Places, Nobody
<1>2. LedgerIsOfImages /\ PassedIsRecorded /\ OnlyDriftFails
  BY DEF RolloutInit, LedgerIsOfImages, PassedIsRecorded, OnlyDriftFails, Nobody
<1>3. schema = <<>> /\ ToSet(schema) = {} /\ ledger = {}
  BY DEF RolloutInit, ToSet
<1>4. SchemaIsListed
  BY <1>3, FS_EmptySet DEF SchemaIsListed, LedgerIsSchema
<1>5. QED
  BY <1>1, <1>2, <1>4 DEF RolloutInv

\* A file of the image is skipped when the ledger has it as it is.
LEMMA SkippedIsRecorded ==
  ASSUME RolloutInv, NEW d \in Deployments, deployment[d].pc = "migrating",
         deployment[d].next <= Len(Files[d]),
         Recorded(NextFile(d)[1]) = {NextFile(d)[2]},
         deployment' = [deployment EXCEPT ![d].next = @ + 1],
         UNCHANGED <<migrationLock, ledger, schema, serving>>
  PROVE  RolloutInv'
<1> DEFINE n == deployment[d].next
<1>0. 0 \notin Deployments
  BY RolloutAssumption
<1>1. n \in Nat /\ n \in 1..(Len(Files[d]) + 1) /\ Len(Files[d]) \in Nat
  BY FileTypes DEF RolloutInv, DeploymentTypes
<1>2. /\ deployment' \in [Deployments -> [pc : Places, next : Nat]]
      /\ deployment'[d].pc = deployment[d].pc /\ deployment'[d].next = n + 1
      /\ \A c \in Deployments \ {d} : deployment'[c] = deployment[c]
  BY <1>1 DEF RolloutInv, DeploymentTypes
<1>3. \A c \in Deployments : deployment'[c].pc = deployment[c].pc
  BY <1>2
<1>4. DeploymentTypes'
  BY <1>1, <1>2 DEF RolloutInv, DeploymentTypes
<1>5. NextFile(d) = Files[d][n] /\ NextFile(d) \in STRING \X Nat
  BY <1>1, FileTypes DEF NextFile
<1>6. Files[d][n] \in ledger
  <2>1. PICK e \in ledger : e[1] = NextFile(d)[1] /\ e[2] = NextFile(d)[2]
    BY RecordedIsLedger
  <2>2. e \in STRING \X Nat
    BY FileTypes DEF RolloutInv, LedgerIsOfImages
  <2>3. QED
    BY <1>5, <2>1, <2>2
<1>7. \A c \in Deployments \ {d} : NextFile(c)' = NextFile(c)
  BY <1>2 DEF NextFile
<1>8. \A c \in Deployments \ {d} : Recorded(NextFile(c)[1])' = Recorded(NextFile(c)[1])
  BY <1>2 DEF Recorded, NextFile
<1>9. MigratorsHaveLock'
  BY <1>2, <1>3, <1>8 DEF RolloutInv, MigratorsHaveLock
<1>10. LedgerIsOfImages' /\ SchemaIsListed'
  BY DEF RolloutInv, LedgerIsOfImages, SchemaIsListed, LedgerIsSchema
<1>11. PassedIsRecorded'
  <2>1. \A i \in 1..(deployment'[d].next - 1) : Files[d][i] \in ledger
    <3>1. \A i \in 1..(deployment'[d].next - 1) : i \in 1..(n - 1) \/ i = n
      BY <1>1, <1>2
    <3>2. QED
      BY <1>6, <3>1 DEF RolloutInv, PassedIsRecorded
  <2>2. \A c \in Deployments \ {d} : \A i \in 1..(deployment'[c].next - 1) : Files[c][i] \in ledger
    BY <1>2 DEF RolloutInv, PassedIsRecorded
  <2>3. serving # Nobody => serving \in Deployments /\ deployment'[serving].next > Len(Files[serving])
    BY <1>1, <1>2, FileTypes DEF RolloutInv, PassedIsRecorded
  <2>4. QED
    BY <2>1, <2>2, <2>3 DEF PassedIsRecorded
<1>12. OnlyDriftFails'
  <2>1. \A c \in Deployments : deployment'[c].pc = "failed" => c # d /\ deployment'[c] = deployment[c]
    BY <1>2, <1>3
  <2>2. QED
    BY <1>7, <2>1 DEF RolloutInv, OnlyDriftFails
<1>13. QED
  BY <1>4, <1>9, <1>10, <1>11, <1>12 DEF RolloutInv

\* A file is applied once, by the deployment that has the lock.
LEMMA AppliedOnce ==
  ASSUME RolloutInv, NEW d \in Deployments, ApplyFile(d)
  PROVE  RolloutInv'
<1> DEFINE f == NextFile(d)
<1> DEFINE n == deployment[d].next
<1>0. 0 \notin Deployments
  BY RolloutAssumption
<1>1. /\ migrationLock = d /\ n <= Len(Files[d]) /\ Recorded(f[1]) = {}
      /\ deployment[d].pc = "applying"
  BY DEF RolloutInv, MigratorsHaveLock, ApplyFile
<1>2. /\ schema' = Append(schema, f[1]) /\ ledger' = ledger \cup {f}
      /\ Stage(d, "migrating") /\ migrationLock' = migrationLock /\ serving' = serving
  BY <1>1 DEF ApplyFile
<1>3. n \in DOMAIN Files[d] /\ f = Files[d][n] /\ f \in STRING \X Nat
  BY <1>1, FileTypes DEF RolloutInv, DeploymentTypes, NextFile
<1>4. /\ deployment' \in [Deployments -> [pc : Places, next : Nat]]
      /\ deployment'[d].pc = "migrating" /\ deployment'[d].next = n
      /\ \A c \in Deployments \ {d} : deployment'[c] = deployment[c]
  BY <1>2, StageEffect DEF RolloutInv, Places
<1>5. \A c \in Deployments : deployment'[c].next = deployment[c].next
  BY <1>4
<1>6. \A e \in ledger : e[1] # f[1]
  BY <1>1, RecordedIsLedger
<1>7. DeploymentTypes'
  BY <1>2, <1>4, <1>5 DEF RolloutInv, DeploymentTypes
<1>8. MigratorsHaveLock'
  <2>1. \A c \in Deployments \ {d} : deployment'[c].pc \notin {"migrating", "applying"}
    BY <1>1, <1>4 DEF RolloutInv, MigratorsHaveLock
  <2>2. QED
    BY <1>1, <1>2, <1>4, <1>5, <2>1 DEF RolloutInv, MigratorsHaveLock
<1>9. LedgerIsOfImages'
  BY <1>2, <1>3, <1>6 DEF RolloutInv, LedgerIsOfImages
<1>10. PassedIsRecorded'
  BY <1>0, <1>2, <1>5 DEF RolloutInv, PassedIsRecorded, Nobody
<1>11. SchemaIsListed'
  <2>1. schema \in Seq(STRING) /\ f[1] \in STRING /\ schema' \in Seq(STRING)
    BY <1>2, <1>3 DEF RolloutInv, SchemaIsListed
  <2>2. Len(schema') = Len(schema) + 1 /\ Len(schema) \in Nat
    BY <1>2, <2>1
  <2>3. ToSet(schema') = ToSet(schema) \cup {f[1]}
    <3>1. DOMAIN schema' = 1..(Len(schema) + 1) /\ DOMAIN schema = 1..Len(schema)
      BY <1>2, <2>1
    <3>2. \A i \in 1..Len(schema) : schema'[i] = schema[i]
      BY <1>2, <2>1
    <3>3. schema'[Len(schema) + 1] = f[1]
      BY <1>2, <2>1
    <3>4. \A i \in DOMAIN schema' : i \in DOMAIN schema \/ i = Len(schema) + 1
      BY <2>2, <3>1
    <3>5. Len(schema) + 1 \in DOMAIN schema' /\ \A i \in DOMAIN schema : i \in DOMAIN schema'
      BY <2>2, <3>1
    <3>6. QED
      BY <3>1, <3>2, <3>3, <3>4, <3>5 DEF ToSet
  <2>4. f[1] \notin ToSet(schema)
    BY <1>6 DEF RolloutInv, SchemaIsListed, LedgerIsSchema
  <2>5. IsFiniteSet(ToSet(schema')) /\ Cardinality(ToSet(schema')) = Cardinality(ToSet(schema)) + 1
    BY <2>3, <2>4, FS_AddElement DEF RolloutInv, SchemaIsListed
  <2>6. ToSet(schema') = {e[1] : e \in ledger'}
    BY <1>2, <2>3 DEF RolloutInv, SchemaIsListed, LedgerIsSchema
  <2>7. Len(schema') = Cardinality(ToSet(schema'))
    BY <2>2, <2>5 DEF RolloutInv, SchemaIsListed, LedgerIsSchema
  <2>8. QED
    BY <2>1, <2>5, <2>6, <2>7 DEF SchemaIsListed, LedgerIsSchema
<1>12. OnlyDriftFails'
  <2>1. \A c \in Deployments : NextFile(c)' = NextFile(c)
    BY <1>5 DEF NextFile
  <2>2. \A c \in Deployments : deployment'[c].pc = "failed" => deployment[c].pc = "failed"
    BY <1>4
  <2>3. QED
    BY <1>5, <2>1, <2>2 DEF RolloutInv, OnlyDriftFails
<1>13. QED
  BY <1>7, <1>8, <1>9, <1>10, <1>11, <1>12 DEF RolloutInv

\* The next file is applied, skipped or refused.
LEMMA LedgerIsRead ==
  ASSUME RolloutInv, NEW d \in Deployments, ReadLedger(d)
  PROVE  RolloutInv'
<1>0. 0 \notin Deployments
  BY RolloutAssumption
<1>1. /\ deployment[d].pc = "migrating" /\ deployment[d].next <= Len(Files[d])
      /\ ledger' = ledger /\ schema' = schema /\ serving' = serving
      /\ migrationLock = d /\ migrationLock \in Deployments \cup {Nobody}
  BY DEF ReadLedger, RolloutInv, MigratorsHaveLock, DeploymentTypes
<1>2. CASE /\ Recorded(NextFile(d)[1]) = {} /\ Stage(d, "applying")
           /\ UNCHANGED migrationLock
  <2>1. "applying" \in Places /\ "applying" \notin {"started", "failed"}
    BY DEF Places
  <2>2. QED
    BY <1>1, <1>2, <2>1, PlaceMoves
<1>3. CASE /\ Recorded(NextFile(d)[1]) = {NextFile(d)[2]}
           /\ deployment' = [deployment EXCEPT ![d].next = @ + 1]
           /\ UNCHANGED migrationLock
  BY <1>1, <1>3, SkippedIsRecorded
<1>4. CASE /\ Recorded(NextFile(d)[1]) # {}
           /\ Recorded(NextFile(d)[1]) # {NextFile(d)[2]}
           /\ Stage(d, "failed") /\ Release(d)
  <2>1. "failed" \in Places /\ "failed" \notin {"migrating", "applying", "started"}
    BY DEF Places
  <2>2. migrationLock' = Nobody
    BY <1>1, <1>4 DEF Release
  <2>3. \E c \in Deployments \ {d} : \E i \in DOMAIN Files[c] :
          /\ Files[c][i][1] = NextFile(d)[1]
          /\ Files[c][i][2] # NextFile(d)[2]
    BY <1>1, <1>4, DriftIsOfAnother
  <2>4. QED
    BY <1>1, <1>4, <2>1, <2>2, <2>3, PlaceMoves
<1>5. QED
  BY <1>2, <1>3, <1>4 DEF ReadLedger

\* The other steps of a deployment only change its place and what it holds.
LEMMA DeploymentMoves ==
  ASSUME RolloutInv, NEW d \in Deployments,
         Preflight(d) \/ LockMigrations(d) \/ StartServices(d) \/ AwaitReady(d)
           \/ DieDuringDeployment(d)
  PROVE  RolloutInv'
<1>0. 0 \notin Deployments /\ migrationLock \in Deployments \cup {Nobody}
  BY RolloutAssumption DEF RolloutInv, DeploymentTypes
<1>1. CASE Preflight(d)
  <2>1. UNCHANGED <<migrationLock, ledger, schema, serving>>
    BY <1>1 DEF Preflight
  <2>2. CASE d \in Invalid
    <3>1. Stage(d, "failed") /\ "failed" \in Places
          /\ "failed" \notin {"migrating", "applying", "started"}
      BY <1>1, <2>2 DEF Preflight, Places
    <3>2. QED
      BY <1>0, <2>1, <2>2, <3>1, PlaceMoves
  <2>3. CASE d \notin Invalid
    <3>1. Stage(d, "pulled") /\ "pulled" \in Places
          /\ "pulled" \notin {"migrating", "applying", "started", "failed"}
      BY <1>1, <2>3 DEF Preflight, Places
    <3>2. QED
      BY <1>0, <2>1, <3>1, PlaceMoves
  <2>4. QED
    BY <2>2, <2>3
<1>2. CASE LockMigrations(d)
  <2>1. /\ migrationLock = Nobody /\ migrationLock' = d /\ Stage(d, "migrating")
        /\ UNCHANGED <<ledger, schema, serving>>
    BY <1>2 DEF LockMigrations
  <2>2. "migrating" \in Places /\ "migrating" \notin {"applying", "started", "failed"}
    BY DEF Places
  <2>3. \A c \in Deployments \ {d} : migrationLock # c
    BY <1>0, <2>1 DEF Nobody
  <2>4. QED
    BY <2>1, <2>2, <2>3, PlaceMoves
<1>3. CASE StartServices(d)
  <2>1. /\ deployment[d].next > Len(Files[d]) /\ Release(d) /\ serving' = d
        /\ Stage(d, "started") /\ UNCHANGED <<ledger, schema>>
    BY <1>3 DEF StartServices
  <2>2. "started" \in Places /\ "started" \notin {"migrating", "applying", "failed"}
    BY DEF Places
  <2>3. /\ migrationLock' \in Deployments \cup {Nobody}
        /\ \A c \in Deployments \ {d} : migrationLock = c => migrationLock' = c
    BY <1>0, <2>1 DEF Release
  <2>4. QED
    BY <2>1, <2>2, <2>3, PlaceMoves
<1>4. CASE AwaitReady(d)
  <2>1. /\ deployment[d].pc = "started" /\ UNCHANGED <<migrationLock, ledger, schema, serving>>
    BY <1>4 DEF AwaitReady
  <2>2. deployment[d].next > Len(Files[d]) /\ deployment[d].next \in Nat /\ Len(Files[d]) \in Nat
    BY <2>1, FileTypes DEF RolloutInv, MigratorsHaveLock, DeploymentTypes
  <2>3. PICK outcome \in {"ready", "failed"} : Stage(d, outcome)
    BY <1>4 DEF AwaitReady
  <2>4. outcome \in Places /\ outcome \notin {"migrating", "applying", "started"}
    BY <2>3 DEF Places
  <2>5. ~ (deployment[d].next <= Len(Files[d]))
    BY <2>2
  <2>6. QED
    BY <1>0, <2>1, <2>3, <2>4, <2>5, PlaceMoves
<1>5. CASE DieDuringDeployment(d)
  <2>1. Stage(d, "died") /\ Release(d) /\ UNCHANGED <<ledger, schema, serving>>
    BY <1>5 DEF DieDuringDeployment
  <2>2. "died" \in Places /\ "died" \notin {"migrating", "applying", "started", "failed"}
    BY DEF Places
  <2>3. /\ migrationLock' \in Deployments \cup {Nobody}
        /\ \A c \in Deployments \ {d} : migrationLock = c => migrationLock' = c
    BY <1>0, <2>1 DEF Release
  <2>4. QED
    BY <2>1, <2>2, <2>3, PlaceMoves
<1>6. QED
  BY <1>1, <1>2, <1>3, <1>4, <1>5

\* Every step of a rollout keeps its invariant.
LEMMA RolloutKeeps == RolloutInv /\ [RolloutNext]_rolloutVars => RolloutInv'
<1>1. SUFFICES ASSUME RolloutInv, [RolloutNext]_rolloutVars PROVE RolloutInv'
  OBVIOUS
<1>2. CASE UNCHANGED rolloutVars
  <2>1. DeploymentTypes' /\ PassedIsRecorded' /\ LedgerIsOfImages' /\ SchemaIsListed'
    BY <1>1, <1>2 DEF rolloutVars, RolloutInv, DeploymentTypes, PassedIsRecorded,
      LedgerIsOfImages, SchemaIsListed, LedgerIsSchema
  <2>2. MigratorsHaveLock' /\ OnlyDriftFails'
    BY <1>1, <1>2 DEF rolloutVars, RolloutInv, MigratorsHaveLock, OnlyDriftFails,
      Recorded, NextFile
  <2>3. QED
    BY <2>1, <2>2 DEF RolloutInv
<1>3. CASE RolloutNext
  BY <1>1, <1>3, LedgerIsRead, AppliedOnce, DeploymentMoves DEF RolloutNext
<1>4. QED
  BY <1>1, <1>2, <1>3

\* The services run on what the ledger says of their image, and what it says was
\* executed: from what was passed and what the database has.
LEMMA ServedFromPassed == RolloutInv => SchemaIsServed
<1> SUFFICES ASSUME RolloutInv PROVE SchemaIsServed
  OBVIOUS
<1>1. ServicesFindTheirSchema
  <2> SUFFICES ASSUME serving # Nobody, NEW i \in DOMAIN Files[serving]
               PROVE  Files[serving][i] \in ledger
    BY DEF ServicesFindTheirSchema
  <2>1. serving \in Deployments /\ deployment[serving].next > Len(Files[serving])
    BY DEF RolloutInv, PassedIsRecorded
  <2>2. deployment[serving].next \in Nat /\ Len(Files[serving]) \in Nat
        /\ i \in 1..Len(Files[serving])
    BY <2>1, FileTypes DEF RolloutInv, DeploymentTypes
  <2>3. i \in 1..(deployment[serving].next - 1)
    BY <2>1, <2>2
  <2>4. QED
    BY <2>1, <2>3 DEF RolloutInv, PassedIsRecorded
<1>2. QED
  BY <1>1 DEF SchemaIsServed, RolloutInv, SchemaIsListed

\* Services run only on a database with every file of their image, as the image has it,
\* and the ledger lists what the database executed, each file once: for any images, and
\* however deployments overlap, fail or die (app/migrations.py, deploy_production.py).
THEOREM SchemaAlwaysServed == RolloutSpec => []SchemaIsServed
<1>1. RolloutSpec => []RolloutInv
  BY RolloutStarts, RolloutKeeps, PTL DEF RolloutSpec
<1>2. QED
  BY <1>1, ServedFromPassed, PTL

\* Migrations of a valid deployment end in failure only where another image has another
\* text under the name of the file (migrate: the advisory lock and its checksums).
THEOREM OnlyDriftEverFails == RolloutSpec => []OnlyDriftFails
<1>1. RolloutSpec => []RolloutInv
  BY RolloutStarts, RolloutKeeps, PTL DEF RolloutSpec
<1>2. RolloutInv => OnlyDriftFails
  BY DEF RolloutInv
<1>3. QED
  BY <1>1, <1>2, PTL
-----------------------------------------------------------------------------
(* Retention. *)

RetentionTypes ==
  /\ version \in [Answers -> {"none", "staged", "finalized"}]
  /\ received \in [Answers -> Nat]
  /\ callback \in [Answers -> [at : {"closed", "recorded", "staged"}, since : Nat]]
  /\ day \in Nat
  /\ doomed \subseteq Schedulers
  /\ sought \in [Schedulers -> SUBSET Answers]

\* What an expurgation at work has not selected came after it had selected the process.
SelectedOrLate ==
  \A s \in doomed : \A q \in Answers :
    version[q] # "none" /\ received[q] # Gone => q \in sought[s] \/ q \in late

RetentionInv == RetentionTypes /\ SelectedOrLate /\ OnlyStragglersStay

\* Nothing is stored in the beginning.
LEMMA RetentionStarts == MaintenanceInit => RetentionInv
<1> SUFFICES ASSUME MaintenanceInit PROVE RetentionInv
  OBVIOUS
<1>1. RetentionTypes
  BY MaintenanceAssumption DEF MaintenanceInit, RetentionTypes, Gone, Closed
<1>2. SelectedOrLate /\ OnlyStragglersStay
  BY DEF MaintenanceInit, SelectedOrLate, OnlyStragglersStay
<1>3. QED
  BY <1>1, <1>2 DEF RetentionInv

\* A callback becomes visible with its version, and is late if it was not selected.
LEMMA CallbackKeeps ==
  ASSUME RetentionInv, NEW q \in Answers, CommitCallback(q)
  PROVE  RetentionInv'
<1>1. RetentionTypes'
  BY DEF RetentionInv, RetentionTypes, CommitCallback, Closed
<1>2. /\ \A a \in Answers : a # q => version'[a] = version[a] /\ received'[a] = received[a]
      /\ version'[q] # "none"
  BY DEF RetentionInv, RetentionTypes, CommitCallback
<1>3. /\ doomed' = doomed /\ sought' = sought
      /\ \A a \in Answers : a # q => (a \in late' <=> a \in late)
      /\ doomed # {} => q \in late'
  BY DEF CommitCallback
<1>4. SelectedOrLate' /\ OnlyStragglersStay'
  BY <1>2, <1>3 DEF RetentionInv, SelectedOrLate, OnlyStragglersStay, Gone
<1>5. QED
  BY <1>1, <1>4 DEF RetentionInv

\* An expurgation selects every delivery that is on record when it selects the process.
LEMMA SelectionKeeps ==
  ASSUME RetentionInv, NEW s \in Schedulers, SelectDoomed(s)
  PROVE  RetentionInv'
<1>1. RetentionTypes'
  BY DEF RetentionInv, RetentionTypes, SelectDoomed
<1>2. OnlyStragglersStay'
  BY DEF RetentionInv, OnlyStragglersStay, SelectDoomed, Gone
<1>3. SelectedOrLate'
  <2> SUFFICES ASSUME NEW t \in doomed', NEW q \in Answers,
                      version[q] # "none", received[q] # Gone, q \notin late
               PROVE  q \in sought'[t]
    BY DEF SelectDoomed, SelectedOrLate, Gone
  <2>1. CASE t \in doomed /\ t # s
    BY <2>1 DEF RetentionInv, RetentionTypes, SelectedOrLate, SelectDoomed
  <2>2. CASE t = s /\ Older(updated, Retention)
    BY <2>2 DEF RetentionInv, RetentionTypes, SelectDoomed
  <2>3. CASE t = s /\ ~Older(updated, Retention)
    BY <2>3 DEF RetentionInv, RetentionTypes, SelectedOrLate, SelectDoomed
  <2>4. QED
    BY <2>1, <2>2, <2>3 DEF SelectDoomed
<1>4. QED
  BY <1>1, <1>2, <1>3 DEF RetentionInv

\* The deletions take the selected deliveries with the versions; what is left of the
\* others is late.
LEMMA ErasureKeeps ==
  ASSUME RetentionInv, NEW s \in Schedulers, Erase(s)
  PROVE  RetentionInv'
<1>1. RetentionTypes'
  <2>1. Gone \in Nat
    BY MaintenanceAssumption DEF Gone
  <2>2. QED
    BY <2>1 DEF RetentionInv, RetentionTypes, Erase
<1>2. \A q \in Answers : received'[q] # Gone' => received[q] # Gone /\ q \notin sought[s]
  BY DEF Erase, Gone
<1>3. CASE s \in doomed
  <2>1. \A q \in Answers : received'[q] # Gone' => q \in late
    BY <1>2, <1>3 DEF RetentionInv, SelectedOrLate, OnlyStragglersStay
  <2>2. doomed' = {} /\ late' = late
    BY <1>3 DEF Erase
  <2>3. QED
    BY <1>1, <2>1, <2>2 DEF RetentionInv, SelectedOrLate, OnlyStragglersStay
<1>4. CASE s \notin doomed
  <2>1. version' = version /\ doomed' = doomed /\ late' = late
        /\ sought' = [t \in Schedulers |-> sought[t] \ sought[s]]
    BY <1>4 DEF Erase
  <2>2. QED
    BY <1>1, <1>2, <2>1 DEF RetentionInv, RetentionTypes, SelectedOrLate, OnlyStragglersStay
<1>5. QED
  BY <1>3, <1>4

\* The purge of deliveries takes some away.
LEMMA PurgeKeeps ==
  ASSUME RetentionInv, NEW s \in Schedulers, PurgeDeliveries(s)
  PROVE  RetentionInv'
<1>1. RetentionTypes'
  <2>1. Gone \in Nat
    BY MaintenanceAssumption DEF Gone
  <2>2. QED
    BY <2>1 DEF RetentionInv, RetentionTypes, PurgeDeliveries
<1> DEFINE old == {q \in Answers : Older(received[q], JobRetention)}
<1>2. \A q \in Answers : received'[q] # Gone' => received[q] # Gone /\ q \notin old
  BY DEF PurgeDeliveries, Gone
<1>3. version' = version /\ doomed' = doomed /\ late' = late
      /\ sought' = [t \in Schedulers |-> sought[t] \ old]
  BY DEF PurgeDeliveries
<1> HIDE DEF old
<1>4. QED
  BY <1>1, <1>2, <1>3 DEF RetentionInv, RetentionTypes, SelectedOrLate, OnlyStragglersStay

\* The other steps of callbacks, the finalizer and schedulers delete nothing and put
\* nothing on record.
LEMMA RestKeeps ==
  ASSUME RetentionInv,
         \/ NextDay
         \/ \E q \in Answers : RecordDelivery(q) \/ StageAnswer(q) \/ RollBack(q) \/ Finalize(q)
         \/ \E s \in Schedulers :
              \/ StartScheduler(s) \/ LoseLockSession(s) \/ StopScheduler(s)
              \/ EnqueueReconciliations(s) \/ PurgeTerminalJobs(s) \/ PurgeCompletions(s)
  PROVE  RetentionInv'
<1>1. CASE NextDay
  BY <1>1 DEF RetentionInv, RetentionTypes, SelectedOrLate, OnlyStragglersStay, NextDay, Gone
<1>2. CASE \E q \in Answers : RecordDelivery(q) \/ StageAnswer(q) \/ RollBack(q)
  BY <1>2 DEF RetentionInv, RetentionTypes, SelectedOrLate, OnlyStragglersStay, Gone,
    RecordDelivery, StageAnswer, RollBack, Closed
<1>3. CASE \E q \in Answers : Finalize(q)
  BY <1>3 DEF RetentionInv, RetentionTypes, SelectedOrLate, OnlyStragglersStay, Gone, Finalize
<1>4. CASE \E s \in Schedulers : StopScheduler(s)
  BY <1>4 DEF RetentionInv, RetentionTypes, SelectedOrLate, OnlyStragglersStay, Gone, StopScheduler
<1>5. CASE \E s \in Schedulers :
             \/ StartScheduler(s) \/ LoseLockSession(s)
             \/ EnqueueReconciliations(s) \/ PurgeTerminalJobs(s) \/ PurgeCompletions(s)
  BY <1>5 DEF RetentionInv, RetentionTypes, SelectedOrLate, OnlyStragglersStay, Gone,
    StartScheduler, LoseLockSession, EnqueueReconciliations, PurgeTerminalJobs,
    PurgeCompletions, Elsewhere
<1>6. QED
  BY <1>1, <1>2, <1>3, <1>4, <1>5

\* A raw callback that outlives its version was committed while an expurgation was at
\* work, and every callback on record had its version stored with it: for any number of
\* schedulers, whether or not they hold the lock, and any number of answers (expurgar,
\* judit_webhook).
THEOREM StragglersOnly == MaintenanceSpec => []OnlyStragglersStay
<1>1. RetentionInv /\ [MaintenanceNext]_maintenanceVars => RetentionInv'
  <2> SUFFICES ASSUME RetentionInv, [MaintenanceNext]_maintenanceVars PROVE RetentionInv'
    OBVIOUS
  <2>1. CASE MaintenanceNext
    BY <2>1, CallbackKeeps, SelectionKeeps, ErasureKeeps, PurgeKeeps, RestKeeps
      DEF MaintenanceNext
  <2>2. CASE UNCHANGED maintenanceVars
    BY <2>2 DEF maintenanceVars, RetentionInv, RetentionTypes, SelectedOrLate,
      OnlyStragglersStay, Gone
  <2>3. QED
    BY <2>1, <2>2
<1>2. RetentionInv => OnlyStragglersStay
  BY DEF RetentionInv
<1>3. QED
  BY RetentionStarts, <1>1, <1>2, PTL DEF MaintenanceSpec
=============================================================================
