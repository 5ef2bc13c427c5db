------------------------------ MODULE Retrieval ------------------------------
(* Which movements of a version reach the provider (retrieval.py, reranking.py).

   The movements of a version are numbered 1..n. A movement is [cnj, instance,
   private, secrecy] as its metadata says; a score stands for the weighted sum of
   the lexical and the vector score with the boost of recency. The limits are small
   numbers in place of 40 movements, 5 recent ones, 50 candidates and 15 or 20 chosen. *)
EXTENDS Naturals, FiniteSetsExt

ShortProcess == 2
RecentSteps == 1
CandidateLimit == 3
RerankOutput == 2
LegacyOutput == 2

-----------------------------------------------------------------------------
(* Eligibility. *)

\* A movement of this process and instance, public as far as it says.
Eligible(step, process) ==
  /\ step.cnj \in {"none", process.code}
  /\ (step.instance = "none" \/ process.instance = "none" \/ step.instance = process.instance)
  /\ step.private \notin {"true", "1", "yes"}
  /\ process.secrecy = 0
  /\ step.secrecy \in {"none", "word", "0"}

-----------------------------------------------------------------------------
(* Selection. *)

\* Mutant: the last of the movements is recent, the first is nothing special.
MandatoryRecent(S, milestones) ==
  {i \in S : Cardinality({k \in S : k > i}) < RecentSteps} \cup (S \cap milestones)

\* The first movement, the recent ones and the milestones are always kept.
Mandatory(S, milestones) ==
  {i \in S : \A k \in S : i <= k}
  \cup {i \in S : Cardinality({k \in S : k > i}) < RecentSteps}
  \cup (S \cap milestones)

\* The n best of S, the earlier one of two with equal scores.
Best(S, score, n) ==
  {i \in S : Cardinality({k \in S : score[k] > score[i] \/ (score[k] = score[i] /\ k < i)}) < n}

\* The mandatory movements and the best others, up to limit in all.
Select(S, score, milestones, limit) ==
  LET kept  == Mandatory(S, milestones)
      total == Max({limit, Cardinality(kept)})
  IN kept \cup Best(S \ kept, score, total - Cardinality(kept))

\* A short process goes whole.
RankSteps(S, score, milestones, limit) ==
  IF Cardinality(S) <= ShortProcess THEN S ELSE Select(S, score, milestones, limit)

RerankSteps(S, score, milestones) ==
  IF S = {} THEN {} ELSE Select(S, score, milestones, RerankOutput)

\* With a reranker, its scores choose among the candidates of the first ranking.
SelectContextSteps(S, score, rerank, milestones, scorer) ==
  LET candidates == RankSteps(S, score, milestones, IF scorer THEN CandidateLimit ELSE LegacyOutput)
  IN IF ~scorer \/ Cardinality(S) <= ShortProcess THEN candidates
     ELSE RerankSteps(candidates, rerank, milestones)
=============================================================================
