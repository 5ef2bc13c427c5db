----------------------------- MODULE Embeddings -----------------------------
(* The vectors of the movements of one version (embedding_runtime.py,
   embedding_store.py, embedding_spaces.py and the search of retrieval.py).

   Executions of generation jobs fill in the vectors that are missing in the space of
   their deployment, a batch at a time, and then search that space. Two of them may
   run at once and any of them may die; deployments with different spaces overlap
   while a new one is rolled out, and the process may become secret at any time. *)
EXTENDS Naturals, FiniteSets

CONSTANTS
  Steps,     \* the movements of the version, numbered
  Blank,     \* those without a text
  Nearness,  \* how near the vector of each movement is to that of the query
  SearchLimit,  \* how many movements a search returns
  Private,   \* those that say themselves that they are not public
  Runs,      \* executions that retrieve
  Spaces,    \* pairs of a provider and a model
  External,  \* those whose provider is outside
  BatchSize

ASSUME EmbeddingsAssumption ==
  /\ Steps \subseteq Nat /\ Nearness \in [Steps -> Nat]
  /\ BatchSize \in Nat \ {0} /\ SearchLimit \in Nat \ {0}

VARIABLES
  secret,    \* processes.secrecy_level > 0
  stored,    \* process_step_embeddings: pairs of a space and a movement
  run        \* each execution: place, space, movements left to embed, what it found

embeddingVars == <<secret, stored, run>>

NotRunning == [pc |-> "idle", space |-> "none", left |-> {}, found |-> {}]

EmbeddingsInit ==
  /\ secret = FALSE
  /\ stored = {}
  /\ run = [r \in Runs |-> NotRunning]

\* A later version of the process is promoted as a secret one.
BecomeSecret ==
  /\ ~secret
  /\ secret' = TRUE
  /\ UNCHANGED <<stored, run>>

\* The context is loaded from a process that is not secret.
BeginRetrieval(r, s) ==
  /\ run[r].pc = "idle"
  /\ ~secret
  /\ run' = [run EXCEPT ![r] = [NotRunning EXCEPT !.pc = "check", !.space = s]]
  /\ UNCHANGED <<secret, stored>>

\* The secrecy of the process is read once, before anything is embedded: an external space
\* is refused to a secret one.
CheckSecrecy(r) ==
  /\ run[r].pc = "check"
  /\ run' = [run EXCEPT ![r] =
       IF secret /\ run[r].space \in External THEN NotRunning ELSE [@ EXCEPT !.pc = "ensure"]]
  /\ UNCHANGED <<secret, stored>>

\* The movements of the version that have a text and no vector in that space.
MissingIn(s) == {i \in Steps \ Blank : <<s, i>> \notin stored}

\* The missing movements are read once, by a statement of its own.
ReadMissing(r) ==
  /\ run[r].pc = "ensure"
  /\ run' = [run EXCEPT ![r].pc = "embed", ![r].left = MissingIn(run[r].space)]
  /\ UNCHANGED <<secret, stored>>

\* The next batch: the smallest numbers among those that are left.
Batch(left) == {i \in left : Cardinality({k \in left : k < i}) < BatchSize}

\* The batch is given to the provider of the space, whose vectors are awaited.
SendBatch(r) ==
  /\ run[r].pc = "embed" /\ run[r].left # {}
  /\ run' = [run EXCEPT ![r].pc = "sent"]
  /\ UNCHANGED <<secret, stored>>

\* Mutant: the vectors go to the space that was filled last.
StoreBatchInAny(r) ==
  /\ run[r].pc = "sent"
  /\ \E s \in Spaces : stored' = stored \cup ({s} \X Batch(run[r].left))
  /\ run' = [run EXCEPT ![r].pc = "embed", ![r].left = @ \ Batch(@)]
  /\ UNCHANGED secret

\* The vectors of the batch are stored in one transaction; one that another execution
\* stored meanwhile is written again.
StoreBatch(r) ==
  /\ run[r].pc = "sent"
  /\ stored' = stored \cup ({run[r].space} \X Batch(run[r].left))
  /\ run' = [run EXCEPT ![r].pc = "embed", ![r].left = @ \ Batch(@)]
  /\ UNCHANGED secret

\* The order of a search: the nearest first, of those that are as near the later one.
Before(i, k) == Nearness[i] > Nearness[k] \/ (Nearness[i] = Nearness[k] /\ i > k)

\* As many as the search returns, the first in that order.
Nearest(S) == {i \in S : Cardinality({k \in S : Before(k, i)}) < SearchLimit}

\* The nearest movements of the version that have a vector in the space of this execution.
SearchSpace(r) ==
  /\ run[r].pc = "embed" /\ run[r].left = {}
  /\ run' = [run EXCEPT ![r].pc = "found",
                        ![r].found = {run[r].space} \X Nearest({i \in Steps : <<run[r].space, i>> \in stored})]
  /\ UNCHANGED <<secret, stored>>

\* The scores of movements that may not be shown, or of a process that has become
\* secret, are dropped; no other movement takes their place.
KeepEligible(r) ==
  /\ run[r].pc = "found"
  /\ run' = [run EXCEPT ![r].pc = "scored",
                        ![r].found = {v \in @ : v[2] \notin Private /\ ~secret}]
  /\ UNCHANGED <<secret, stored>>

\* The execution ends, or dies: its next attempt begins anew.
LeaveRetrieval(r) ==
  /\ run[r].pc # "idle"
  /\ run' = [run EXCEPT ![r] = NotRunning]
  /\ UNCHANGED <<secret, stored>>

EmbeddingsNext ==
  \/ BecomeSecret
  \/ \E r \in Runs :
       \/ \E s \in Spaces : BeginRetrieval(r, s)
       \/ CheckSecrecy(r) \/ ReadMissing(r) \/ SendBatch(r) \/ StoreBatch(r)
       \/ SearchSpace(r) \/ KeepEligible(r) \/ LeaveRetrieval(r)

EmbeddingsSpec == EmbeddingsInit /\ [][EmbeddingsNext]_embeddingVars

-----------------------------------------------------------------------------
(* Properties. *)

\* The search returns the nearest of all movements of the version that have a text, and of
\* nothing else: whoever embedded them, however many executions died between two batches, and
\* whatever other spaces hold, none is passed over because its vector is missing
\* (ensure_step_embeddings before vector_search_space).
SearchIsComplete ==
  \A r \in Runs :
    /\ run[r].pc \in {"embed", "sent"} =>
         \A i \in Steps \ Blank : <<run[r].space, i>> \in stored \/ i \in run[r].left
    /\ run[r].pc = "found" => run[r].found = {run[r].space} \X Nearest(Steps \ Blank)

\* What docs/deployment/production.md:159 says: "Secret process versions never cross the
\* Cohere boundary." The code does not keep it: ensure_step_embeddings reads the secrecy once,
\* before the missing movements and all batches, in no transaction with either, so that what is
\* sent after the process has become secret still goes outside.
SecretNeverLeaves ==
  [][\A r \in Runs :
       secret /\ run[r].space \in External => ~(run[r].pc = "embed" /\ run'[r].pc = "sent")]_embeddingVars
=============================================================================
