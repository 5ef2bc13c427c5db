------------------------------ MODULE Rollout ------------------------------
(* A release reaches production (scripts/deploy_production.py, app/migrations.py).

   A deployment validates its environment and the rendered compose file, pulls the
   image and brings the services up: the migrations of the image first, one
   transaction each under an advisory lock, and the other services when they ended
   well. A rollback is the deployment of an earlier release. Deployments may overlap,
   and each may die between two steps. *)
EXTENDS Naturals, SequencesExt

CONSTANTS
  Deployments,  \* runs of the script, each of one release
  Files,        \* Files[d]: what the image of d carries, sorted: <<name, checksum>>
  Invalid       \* deployments whose environment or compose file is refused

\* No deployment is nobody, and the migrations directory of an image has a name once.
ASSUME RolloutAssumption ==
  /\ 0 \notin Deployments
  /\ Files \in [Deployments -> Seq(STRING \X Nat)]
  /\ \A d \in Deployments : \A i, k \in DOMAIN Files[d] :
       Files[d][i][1] = Files[d][k][1] => i = k

VARIABLES
  deployment,   \* each deployment: where it is, and the next of its files
  migrationLock, \* the deployment that holds the advisory lock
  ledger,       \* schema_migrations: pairs of a name and a checksum
  schema,       \* ghost: the files the database has executed, in that order
  serving       \* the deployment whose services run

rolloutVars == <<deployment, migrationLock, ledger, schema, serving>>

Nobody == 0

RolloutInit ==
  /\ deployment = [d \in Deployments |-> [pc |-> "new", next |-> 1]]
  /\ migrationLock = Nobody
  /\ ledger = {}
  /\ schema = <<>>
  /\ serving = Nobody

Stage(d, pc) == deployment' = [deployment EXCEPT ![d].pc = pc]

\* Secret file, values and compose file are validated before anything is changed.
Preflight(d) ==
  /\ deployment[d].pc = "new"
  /\ Stage(d, IF d \in Invalid THEN "failed" ELSE "pulled")
  /\ UNCHANGED <<migrationLock, ledger, schema, serving>>

\* Mutant: the migration does not ask for the lock.
MigrateUnlocked(d) ==
  /\ deployment[d].pc = "pulled"
  /\ Stage(d, "migrating")
  /\ UNCHANGED <<migrationLock, ledger, schema, serving>>

\* The migration service waits for the lock.
LockMigrations(d) ==
  /\ deployment[d].pc = "pulled"
  /\ migrationLock = Nobody
  /\ migrationLock' = d
  /\ Stage(d, "migrating")
  /\ UNCHANGED <<ledger, schema, serving>>

Release(d) == migrationLock' = IF migrationLock = d THEN Nobody ELSE migrationLock

NextFile(d) == Files[d][deployment[d].next]

Recorded(name) == {entry[2] : entry \in {e \in ledger : e[1] = name}}

\* Mutant: a file that is recorded is skipped whatever it says.
ReadLedgerByName(d) ==
  /\ deployment[d].pc = "migrating"
  /\ deployment[d].next <= Len(Files[d])
  /\ deployment' = [deployment EXCEPT ![d] =
       IF Recorded(NextFile(d)[1]) # {} THEN [@ EXCEPT !.next = @ + 1]
       ELSE [@ EXCEPT !.pc = "applying"]]
  /\ UNCHANGED <<migrationLock, ledger, schema, serving>>

\* The next file: skipped when it is recorded as it is, an error when it is recorded
\* otherwise, and to be applied when it is not recorded.
ReadLedger(d) ==
  /\ deployment[d].pc = "migrating"
  /\ deployment[d].next <= Len(Files[d])
  /\ LET recorded == Recorded(NextFile(d)[1])
     IN \/ /\ recorded = {}
           /\ Stage(d, "applying")
           /\ UNCHANGED migrationLock
        \/ /\ recorded = {NextFile(d)[2]}
           /\ deployment' = [deployment EXCEPT ![d].next = @ + 1]
           /\ UNCHANGED migrationLock
        \/ /\ recorded # {} /\ recorded # {NextFile(d)[2]}
           /\ Stage(d, "failed")
           /\ Release(d)
  /\ UNCHANGED <<ledger, schema, serving>>

\* One transaction executes the file and records it; a name that another migration
\* recorded meanwhile makes it fail as a whole.
ApplyFile(d) ==
  /\ deployment[d].pc = "applying"
  /\ IF Recorded(NextFile(d)[1]) = {}
     THEN /\ schema' = Append(schema, NextFile(d)[1])
          /\ ledger' = ledger \cup {NextFile(d)}
          /\ Stage(d, "migrating")
          /\ UNCHANGED migrationLock
     ELSE /\ Stage(d, "failed")
          /\ Release(d)
          /\ UNCHANGED <<schema, ledger>>
  /\ UNCHANGED serving

\* All files are there: the lock is released, and the services are replaced.
StartServices(d) ==
  /\ deployment[d].pc = "migrating"
  /\ deployment[d].next > Len(Files[d])
  /\ Release(d)
  /\ serving' = d
  /\ Stage(d, "started")
  /\ UNCHANGED <<ledger, schema>>

\* The services answer /ready in time, or the script fails and leaves them running.
AwaitReady(d) ==
  /\ deployment[d].pc = "started"
  /\ \E outcome \in {"ready", "failed"} : Stage(d, outcome)
  /\ UNCHANGED <<migrationLock, ledger, schema, serving>>

\* The script or the migration service dies: the lock goes with its connection.
DieDuringDeployment(d) ==
  /\ deployment[d].pc \in {"pulled", "migrating", "applying", "started"}
  /\ Stage(d, "died")
  /\ Release(d)
  /\ UNCHANGED <<ledger, schema, serving>>

RolloutNext ==
  \E d \in Deployments :
    \/ Preflight(d) \/ LockMigrations(d) \/ ReadLedger(d) \/ ApplyFile(d)
    \/ StartServices(d) \/ AwaitReady(d) \/ DieDuringDeployment(d)

RolloutSpec == RolloutInit /\ [][RolloutNext]_rolloutVars

-----------------------------------------------------------------------------
(* Properties. *)

\* The services never run on a database that lacks a file of their image, or that
\* executed another text under its name, whatever was deployed or died before.
ServicesFindTheirSchema ==
  serving # Nobody => \A i \in DOMAIN Files[serving] : Files[serving][i] \in ledger

\* What the ledger records is what the database has executed, each file once
\* (one transaction per file).
LedgerIsSchema ==
  /\ ToSet(schema) = {entry[1] : entry \in ledger}
  /\ Len(schema) = Cardinality(ToSet(schema))

\* The services run on the schema of their image, and the ledger that decides on it can be
\* believed (migrate and the order in which deploy starts the services).
SchemaIsServed == ServicesFindTheirSchema /\ LedgerIsSchema

\* A valid deployment whose files agree with those of the others never fails in its
\* migrations, however they overlap: it waits.
OnlyDriftFails ==
  \A d \in Deployments \ Invalid :
    deployment[d].pc = "failed" /\ deployment[d].next <= Len(Files[d]) =>
      \E c \in Deployments \ {d} : \E i \in DOMAIN Files[c] :
        /\ Files[c][i][1] = NextFile(d)[1]
        /\ Files[c][i][2] # NextFile(d)[2]
=============================================================================
