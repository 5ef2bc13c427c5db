-------------------------- MODULE AcquisitionProofs --------------------------
(* Theorems about public summary requests and the paid request behind them, for any
   tenants, any public requests and any number of attempts. *)
EXTENDS Acquisition, TLAPS

PublicStatuses == Statuses \cup {"absent"}

\* An attempt that was not made yet has nothing; one that waits has not been sent; while
\* its handler is at work it is the latest and its row is being processed without an id;
\* and only an accepted one is paid, which bars every further attempt.
AttemptSound(i) ==
  /\ i[2] > row[i[1]].attempt => job[i] = "free" /\ handler[i] = "none" /\ i \notin paid
  /\ job[i] = "pending" =>
       /\ i[2] = row[i[1]].attempt /\ row[i[1]].status = "processing" /\ row[i[1]].id = 0
       /\ handler[i] = "none" /\ i \notin paid
  /\ handler[i] \in {"loaded", "accepted", "rejected", "unsure"} =>
       i[2] = row[i[1]].attempt /\ row[i[1]].status = "processing" /\ row[i[1]].id = 0
  /\ handler[i] # "none" => job[i] \notin {"free", "pending"}
  /\ handler[i] \in {"loaded", "rejected"} => i \notin paid
  /\ handler[i] = "accepted" => i \in paid
  /\ i \in paid =>
       i[2] = row[i[1]].attempt /\ row[i[1]].status \in {"processing", "failed_ambiguous"}

\* The id of a row is that of its latest attempt, which is paid and bars another.
RowSound(t) ==
  /\ row[t].status = "absent" => row[t].attempt = 0
  /\ row[t].status \in {"absent", "failed_retryable"} => row[t].id = 0
  /\ row[t].id # 0 =>
       row[t].status = "processing" /\ row[t].id = row[t].attempt /\ <<t, row[t].id>> \in paid

\* Callbacks come for accepted requests only, and one that will grant has seen the id.
HookSound(i) ==
  /\ hook[i] # "closed" => i \in paid
  /\ hook[i] = "granted" => row[i[1]].id = i[2]
  /\ i \in staged => i \in paid

AttemptsSound == \A i \in Attempts : AttemptSound(i)
RowsSound == \A t \in Tenants : RowSound(t)
HooksSound == \A i \in Attempts : HookSound(i)

\* A generation that reports a summary that passed has published one.
ReportsAreTrue == \A i \in Attempts : summary[i] = "passed" => i \in published

AcquisitionInv ==
  /\ TypeOK
  /\ AttemptsSound
  /\ RowsSound
  /\ HooksSound
  /\ AccessIsEarned
  /\ ReportsAreTrue
  /\ CompletedIsBacked

-----------------------------------------------------------------------------
(* The order of the statuses. *)

\* The six statuses of the progress are different, and their rank is their place.
LEMMA RankIsPlace ==
  ASSUME NEW n \in 1..6
  PROVE  Rank(Progress[n]) = n
<1>1. \A m \in 1..6 : Progress[m] = Progress[n] => m = n
  BY DEF Progress
<1>2. QED
  BY <1>1 DEF Rank

\* A status that is not terminal has a place, and another one has another.
LEMMA RankOfProgress ==
  /\ \A s \in Statuses \ Terminal : Rank(s) \in 1..6
  /\ \A s, u \in Statuses \ Terminal : Rank(s) = Rank(u) => s = u
<1>1. ASSUME NEW s \in Statuses \ Terminal
      PROVE  \E n \in 1..6 : s = Progress[n]
  BY DEF Statuses
<1>2. ASSUME NEW s \in Statuses \ Terminal
      PROVE  Rank(s) \in 1..6 /\ s = Progress[Rank(s)]
  BY <1>1, RankIsPlace
<1>3. QED
  BY <1>2

\* g[p] is f[p] or a status after it, and no request is lost: what NeverBackwards asks
\* of a step.
Forward(f, g) ==
  \A p \in Publics : f[p] # "absent" =>
      \/ g[p] = f[p]
      \/ /\ f[p] \notin Terminal /\ g[p] # "absent"
         /\ g[p] \in Terminal \/ Rank(g[p]) > Rank(f[p])

\* A transition gives each request a status, and moves it forward if at all.
LEMMA MoveIsForward ==
  ASSUME NEW f \in [Publics -> PublicStatuses], NEW S, NEW target \in Statuses
  PROVE  /\ Move(f, S, target) \in [Publics -> PublicStatuses]
         /\ Forward(f, Move(f, S, target))
<1> DEFINE g == Move(f, S, target)
<1>1. g \in [Publics -> PublicStatuses]
  BY DEF Move, PublicStatuses
<1>2. ASSUME NEW p \in Publics, f[p] # "absent", g[p] # f[p]
      PROVE  /\ f[p] \notin Terminal /\ g[p] # "absent"
             /\ g[p] \in Terminal \/ Rank(g[p]) > Rank(f[p])
  <2>1. g[p] = target /\ TransitionAllowed(f[p], target)
    BY <1>2 DEF Move
  <2>2. f[p] \in Statuses
    BY <1>2 DEF PublicStatuses
  <2>3. target # "absent"
    BY DEF Statuses, Progress, Terminal
  <2>4. QED
    BY <1>2, <2>1, <2>2, <2>3, RankOfProgress DEF TransitionAllowed
<1>3. QED
  BY <1>1, <1>2 DEF Forward

\* Two transitions in one transaction move a request forward as well.
LEMMA ForwardTwice ==
  ASSUME NEW f \in [Publics -> PublicStatuses], NEW g \in [Publics -> PublicStatuses],
         NEW h \in [Publics -> PublicStatuses], Forward(f, g), Forward(g, h)
  PROVE  Forward(f, h)
<1> SUFFICES ASSUME NEW p \in Publics, f[p] # "absent", h[p] # f[p]
             PROVE  /\ f[p] \notin Terminal /\ h[p] # "absent"
                    /\ h[p] \in Terminal \/ Rank(h[p]) > Rank(f[p])
  BY DEF Forward
<1>1. f[p] \in Statuses
  BY DEF PublicStatuses
<1>2. CASE g[p] = f[p]
  BY <1>2 DEF Forward
<1>3. CASE g[p] # f[p] /\ h[p] = g[p]
  BY <1>3 DEF Forward
<1>4. CASE g[p] # f[p] /\ h[p] # g[p]
  <2>1. /\ f[p] \notin Terminal /\ g[p] # "absent"
        /\ g[p] \in Terminal \/ Rank(g[p]) > Rank(f[p])
    BY <1>4 DEF Forward
  <2>2. /\ g[p] \notin Terminal /\ h[p] # "absent"
        /\ h[p] \in Terminal \/ Rank(h[p]) > Rank(g[p])
    BY <1>4, <2>1 DEF Forward
  <2>3. CASE h[p] \in Terminal
    BY <2>1, <2>2, <2>3
  <2>4. CASE h[p] \notin Terminal
    <3>1. /\ f[p] \in Statuses \ Terminal /\ g[p] \in Statuses \ Terminal
          /\ h[p] \in Statuses \ Terminal
      BY <1>1, <2>1, <2>2, <2>4 DEF PublicStatuses
    <3>2. Rank(f[p]) \in 1..6 /\ Rank(g[p]) \in 1..6 /\ Rank(h[p]) \in 1..6
      BY <3>1, RankOfProgress
    <3>3. QED
      BY <2>1, <2>2, <2>4, <3>2
  <2>5. QED
    BY <2>3, <2>4
<1>5. QED
  BY <1>2, <1>3, <1>4

-----------------------------------------------------------------------------
(* Types. *)

\* A set of requests that is moved once.
LEMMA MoveOnce ==
  ASSUME TypeOK, NEW S, NEW target \in Statuses, public' = Move(public, S, target)
  PROVE  public' \in [Publics -> PublicStatuses] /\ Forward(public, public')
BY MoveIsForward DEF TypeOK, PublicStatuses

\* A set of requests that is moved twice in one transaction.
LEMMA MoveTwice ==
  ASSUME TypeOK, NEW S, NEW first \in Statuses, NEW second \in Statuses,
         public' = Move(Move(public, S, first), S, second)
  PROVE  public' \in [Publics -> PublicStatuses] /\ Forward(public, public')
<1> DEFINE g == Move(public, S, first)
<1>1. public \in [Publics -> PublicStatuses]
  BY DEF TypeOK, PublicStatuses
<1>2. g \in [Publics -> PublicStatuses] /\ Forward(public, g)
  BY <1>1, MoveIsForward
<1> HIDE DEF g
<1>3. public' = Move(g, S, second)
  BY DEF g
<1>4. public' \in [Publics -> PublicStatuses] /\ Forward(g, public')
  BY <1>2, <1>3, MoveIsForward
<1>5. QED
  BY <1>1, <1>2, <1>4, ForwardTwice

\* The requests that stay as they are.
LEMMA MoveNever ==
  ASSUME TypeOK, public' = public
  PROVE  public' \in [Publics -> PublicStatuses] /\ Forward(public, public')
BY DEF TypeOK, PublicStatuses, Forward

\* The statuses the code moves requests to.
LEMMA Targets ==
  {"queued", "fetching", "indexing", "generating", "validating", "completed", "failed",
   "source_unavailable", "validation_failed"} \subseteq Statuses
<1>1. \A n \in 1..6 : Progress[n] \in Statuses
  BY DEF Statuses
<1>2. /\ Progress[1] = "queued" /\ Progress[2] = "fetching" /\ Progress[3] = "indexing"
      /\ Progress[4] = "generating" /\ Progress[5] = "validating"
  BY DEF Progress
<1>3. {"completed", "failed", "source_unavailable", "validation_failed"} \subseteq Statuses
  BY DEF Statuses, Terminal
<1>4. QED
  BY <1>1, <1>2, <1>3

\* No action takes a public request back.
LEMMA PublicForward ==
  ASSUME TypeOK, Next
  PROVE  public' \in [Publics -> PublicStatuses] /\ Forward(public, public')
<1>1. ASSUME NEW p \in Publics, Create(p)
      PROVE  public' \in [Publics -> PublicStatuses] /\ Forward(public, public')
  BY <1>1, Targets DEF Create, TypeOK, PublicStatuses, Forward
<1>2. ASSUME NEW t \in Tenants, NEW S, RequestProcess(t, S)
      PROVE  public' \in [Publics -> PublicStatuses] /\ Forward(public, public')
  BY <1>2, Targets, MoveOnce, MoveNever DEF RequestProcess
<1>3. ASSUME NEW i \in Attempts, AcquisitionStep(i)
      PROVE  public' \in [Publics -> PublicStatuses] /\ Forward(public, public')
  BY <1>3, Targets, MoveOnce, MoveNever
     DEF AcquisitionStep, Load, LoseClaim, Call, StoreId, RecordFailure, CompleteAcquisition,
         Interrupt, BuryAcquisition
<1>4. ASSUME NEW i \in Attempts, ProviderStep(i)
      PROVE  public' \in [Publics -> PublicStatuses] /\ Forward(public, public')
  BY <1>4, MoveNever DEF ProviderStep, ReceiveLawsuit, CommitLawsuit, AbortLawsuit, ReceiveCompletion
<1>5. ASSUME NEW i \in Attempts, Finalize(i)
      PROVE  public' \in [Publics -> PublicStatuses] /\ Forward(public, public')
  BY <1>5, Targets, MoveOnce, MoveTwice DEF Finalize
<1>6. ASSUME NEW i \in Attempts, CompleteSummary(i)
      PROVE  public' \in [Publics -> PublicStatuses] /\ Forward(public, public')
  <2>1. PICK outcome \in Outcomes(summary[i]) :
          public' = Move(Move(public, Followers(i), "validating"), Followers(i), outcome)
    BY <1>6 DEF CompleteSummary
  <2>2. outcome \in Statuses
    BY Targets DEF Outcomes
  <2>3. QED
    BY <2>1, <2>2, Targets, MoveTwice
<1>7. ASSUME NEW i \in Attempts, PipelineStep(i), ~Finalize(i), ~CompleteSummary(i)
      PROVE  public' \in [Publics -> PublicStatuses] /\ Forward(public, public')
  BY <1>7, Targets, MoveOnce, MoveNever
     DEF PipelineStep, CompleteFinalizer, BuryFinalizer, Download, BuryDownload, StartSummary,
         WriteSummary, LoseSummary
<1>8. QED
  <2>1. TenantOf \in [Publics -> Tenants]
    BY AcquisitionAssumption
  <2>2. QED
    BY <1>1, <1>2, <1>3, <1>4, <1>5, <1>6, <1>7, <2>1 DEF Next, Register, RequestAnonymously

\* The steps of the handler that asks Judit keep the types.
LEMMA AcquisitionTypes ==
  ASSUME TypeOK, NEW i \in Attempts, AcquisitionStep(i), public' \in [Publics -> PublicStatuses]
  PROVE  TypeOK'
<1>1. i[1] \in Tenants /\ i[2] \in 1..MaxTries
  BY DEF Attempts, Tries
<1> USE DEF TypeOK, PublicStatuses, JobStatuses
<1>2. CASE Load(i)
  BY <1>2 DEF Load, provider, pipeline
<1>3. CASE LoseClaim(i)
  BY <1>3 DEF LoseClaim, provider, pipeline
<1>4. CASE Call(i)
  BY <1>4 DEF Call, provider, pipeline
<1>5. CASE StoreId(i)
  BY <1>1, <1>5, AcquisitionAssumption DEF StoreId, pipeline
<1>6. CASE RecordFailure(i)
  BY <1>1, <1>6 DEF RecordFailure, Verdict, provider, pipeline
<1>7. CASE CompleteAcquisition(i) \/ Interrupt(i) \/ BuryAcquisition(i)
  BY <1>7 DEF CompleteAcquisition, Interrupt, BuryAcquisition, provider, pipeline
<1>8. QED
  BY <1>2, <1>3, <1>4, <1>5, <1>6, <1>7 DEF AcquisitionStep

\* The callbacks keep the types.
LEMMA ProviderTypes ==
  ASSUME TypeOK, NEW i \in Attempts, ProviderStep(i)
  PROVE  TypeOK'
<1>1. i[1] \in Tenants
  BY DEF Attempts
<1> USE DEF TypeOK, JobStatuses
<1>2. CASE ReceiveLawsuit(i) \/ AbortLawsuit(i)
  BY <1>2 DEF ReceiveLawsuit, AbortLawsuit, acquiring, pipeline
<1>3. CASE CommitLawsuit(i)
  BY <1>1, <1>3 DEF CommitLawsuit, acquiring
<1>4. CASE ReceiveCompletion(i)
  BY <1>4 DEF ReceiveCompletion, acquiring
<1>5. QED
  BY <1>2, <1>3, <1>4 DEF ProviderStep

\* The jobs of the pipeline keep the types.
LEMMA PipelineTypes ==
  ASSUME TypeOK, NEW i \in Attempts, PipelineStep(i), public' \in [Publics -> PublicStatuses]
  PROVE  TypeOK'
<1> USE DEF TypeOK, PublicStatuses, JobStatuses
<1>1. CASE Finalize(i)
  BY <1>1 DEF Finalize, acquiring, provider
<1>2. CASE CompleteFinalizer(i) \/ BuryFinalizer(i)
  BY <1>2 DEF CompleteFinalizer, BuryFinalizer, acquiring, provider
<1>3. CASE Download(i) \/ BuryDownload(i)
  BY <1>3 DEF Download, BuryDownload, acquiring, provider
<1>4. CASE StartSummary(i) \/ WriteSummary(i)
  BY <1>4 DEF StartSummary, WriteSummary, acquiring, provider
<1>5. CASE CompleteSummary(i) \/ LoseSummary(i)
  BY <1>5 DEF CompleteSummary, LoseSummary, acquiring, provider
<1>6. QED
  BY <1>1, <1>2, <1>3, <1>4, <1>5 DEF PipelineStep

\* Asking for a process keeps the types: there are never more attempts than the bound.
LEMMA RequestTypes ==
  ASSUME TypeOK, NEW t \in Tenants, NEW S, RequestProcess(t, S), RowsSound,
         public' \in [Publics -> PublicStatuses]
  PROVE  TypeOK'
<1>1. row[t].attempt \in 0..MaxTries /\ MaxTries \in Nat /\ MaxTries > 0
  BY AcquisitionAssumption DEF TypeOK
<1>2. CanAttempt(t) => row[t].attempt + 1 \in 1..MaxTries
  <2>1. CASE row[t].status = "absent"
    <3>1. row[t].attempt = 0
      BY <2>1 DEF RowsSound, RowSound
    <3>2. QED
      BY <1>1, <3>1
  <2>2. CASE row[t].attempt < MaxTries
    BY <1>1, <2>2
  <2>3. QED
    BY <2>1, <2>2 DEF CanAttempt
<1>3. linked' \in [Publics -> 0..MaxTries]
  BY <1>1, <1>2 DEF RequestProcess, TypeOK
<1>4. CASE CanAttempt(t)
  <2>1. <<t, row[t].attempt + 1>> \in Attempts
    BY <1>2, <1>4 DEF Attempts, Tries
  <2>2. QED
    BY <1>2, <1>3, <1>4, <2>1
       DEF RequestProcess, Attempt, TypeOK, PublicStatuses, JobStatuses, provider, pipeline
<1>5. CASE ~CanAttempt(t)
  BY <1>3, <1>5 DEF RequestProcess, TypeOK, PublicStatuses, provider, pipeline
<1>6. QED
  BY <1>4, <1>5

-----------------------------------------------------------------------------
(* Attempts, rows, callbacks and access. *)

Earned ==
  /\ AttemptsSound
  /\ RowsSound
  /\ HooksSound
  /\ AccessIsEarned

\* Each attempt is that of a tenant, with a number.
LEMMA AttemptIsPair ==
  ASSUME NEW i \in Attempts
  PROVE  i = <<i[1], i[2]>> /\ i[1] \in Tenants /\ i[2] \in Tries /\ i[2] \in Nat \ {0}
BY AcquisitionAssumption DEF Attempts, Tries

\* A step that only touches what Earned does not look at.
LEMMA EarnedStays ==
  ASSUME Earned, UNCHANGED <<row, job, handler, paid, hook, staged, access>>
  PROVE  Earned'
BY DEF Earned, AttemptsSound, AttemptSound, RowsSound, RowSound, HooksSound, HookSound, AccessIsEarned

\* A new attempt is made only when none was paid, none waits and no handler is at work.
LEMMA RequestEarned ==
  ASSUME TypeOK, Earned, NEW t \in Tenants, NEW S, RequestProcess(t, S)
  PROVE  Earned'
<1>1. CASE ~CanAttempt(t)
  BY <1>1, EarnedStays DEF RequestProcess, provider, pipeline
<1>2. CASE CanAttempt(t)
  <2> DEFINE n == row[t].attempt + 1
  <2>1. UNCHANGED <<handler, paid, hook, staged, access>>
    BY DEF RequestProcess, provider, pipeline
  <2>2. /\ row[t].status \in {"absent", "failed_retryable"} /\ row[t].id = 0
        /\ row[t].attempt \in Nat /\ n \in Nat /\ n > row[t].attempt
    <3>1. row[t].status \in {"absent", "failed_retryable"}
      BY <1>2 DEF CanAttempt
    <3>2. row[t].id = 0
      BY <3>1 DEF Earned, RowsSound, RowSound
    <3>3. row[t].attempt \in Nat
      BY AcquisitionAssumption DEF TypeOK
    <3>4. QED
      BY <3>1, <3>2, <3>3
  <2>3. /\ row'[t].status = "processing" /\ row'[t].attempt = n /\ row'[t].id = 0
        /\ \A u \in Tenants \ {t} : row'[u] = row[u]
    BY <1>2, <2>2 DEF RequestProcess, Attempt, TypeOK
  <2>4. \A k \in Attempts : job'[k] = IF k = <<t, n>> THEN "pending" ELSE job[k]
    BY <1>2 DEF RequestProcess, Attempt, TypeOK
  <2> HIDE DEF n
  <2>5. ASSUME NEW k \in Attempts PROVE AttemptSound(k)'
    <3>1. AttemptSound(k) /\ k = <<k[1], k[2]>> /\ k[1] \in Tenants /\ k[2] \in Nat
      BY AttemptIsPair DEF Earned, AttemptsSound
    <3>2. CASE k[1] # t
      BY <2>1, <2>3, <2>4, <3>1, <3>2 DEF AttemptSound
    <3>3. CASE k = <<t, n>>
      <4>1. handler[k] = "none" /\ k \notin paid
        BY <2>2, <3>1, <3>3 DEF AttemptSound
      <4>2. QED
        BY <2>1, <2>2, <2>3, <2>4, <3>3, <4>1 DEF AttemptSound
    <3>4. CASE k[1] = t /\ k[2] # n
      BY <2>1, <2>2, <2>3, <2>4, <3>1, <3>4 DEF AttemptSound
    <3>5. QED
      BY <3>1, <3>2, <3>3, <3>4
  <2>6. RowsSound'
    BY <2>1, <2>2, <2>3 DEF Earned, RowsSound, RowSound
  <2>7. \A k \in Attempts : k[1] = t => hook[k] # "granted"
    BY <2>2, AttemptIsPair DEF Earned, HooksSound, HookSound
  <2>8. HooksSound'
    BY <2>1, <2>3, <2>7, AttemptIsPair DEF Earned, HooksSound, HookSound
  <2>9. AccessIsEarned'
    BY <2>1, <2>2, <2>3 DEF Earned, AccessIsEarned, TypeOK
  <2>10. QED
    BY <2>5, <2>6, <2>8, <2>9 DEF Earned, AttemptsSound
<1>3. QED
  BY <1>1, <1>2

\* A step of the handler of i that leaves the rows alone and pays at most i keeps the rest.
LEMMA HandlerMoves ==
  ASSUME TypeOK, Earned, NEW i \in Attempts,
         UNCHANGED <<row, hook, staged, access>>,
         paid \subseteq paid', paid' \subseteq paid \cup {i},
         \A k \in Attempts : k # i => job'[k] = job[k] /\ handler'[k] = handler[k],
         AttemptSound(i)'
  PROVE  Earned'
<1>1. ASSUME NEW k \in Attempts, k # i PROVE AttemptSound(k)'
  BY <1>1 DEF Earned, AttemptsSound, AttemptSound
<1>2. RowsSound' /\ HooksSound' /\ AccessIsEarned'
  BY DEF Earned, RowsSound, RowSound, HooksSound, HookSound, AccessIsEarned
<1>3. QED
  BY <1>1, <1>2 DEF Earned, AttemptsSound

\* The claim of the job, the call of Judit and the ends of the handler and of the job.
LEMMA HandlerEarned ==
  ASSUME TypeOK, Earned, NEW i \in Attempts,
         \/ Load(i) \/ LoseClaim(i) \/ Call(i)
         \/ CompleteAcquisition(i) \/ Interrupt(i) \/ BuryAcquisition(i)
  PROVE  Earned'
<1>1. AttemptSound(i) /\ i[1] \in Tenants
  BY AttemptIsPair DEF Earned, AttemptsSound
<1> USE DEF TypeOK
<1>2. CASE Load(i)
  <2>1. AttemptSound(i)'
    BY <1>1, <1>2 DEF Load, AttemptSound, provider, pipeline
  <2>2. QED
    BY <1>2, <2>1, HandlerMoves DEF Load, provider, pipeline
<1>3. CASE LoseClaim(i)
  <2>1. AttemptSound(i)'
    BY <1>1, <1>3 DEF LoseClaim, AttemptSound, provider, pipeline
  <2>2. QED
    BY <1>3, <2>1, HandlerMoves DEF LoseClaim, provider, pipeline
<1>4. CASE Call(i)
  <2>1. AttemptSound(i)'
    BY <1>1, <1>4 DEF Call, AttemptSound, provider, pipeline
  <2>2. QED
    BY <1>4, <2>1, HandlerMoves DEF Call, provider, pipeline
<1>5. CASE CompleteAcquisition(i)
  <2>1. AttemptSound(i)'
    BY <1>1, <1>5 DEF CompleteAcquisition, AttemptSound, provider, pipeline
  <2>2. QED
    BY <1>5, <2>1, HandlerMoves DEF CompleteAcquisition, provider, pipeline
<1>6. CASE Interrupt(i)
  <2>1. AttemptSound(i)'
    BY <1>1, <1>6 DEF Interrupt, AttemptSound, provider, pipeline
  <2>2. QED
    BY <1>6, <2>1, HandlerMoves DEF Interrupt, provider, pipeline
<1>7. CASE BuryAcquisition(i)
  <2>1. AttemptSound(i)'
    BY <1>1, <1>7 DEF BuryAcquisition, AttemptSound, provider, pipeline
  <2>2. QED
    BY <1>7, <2>1, HandlerMoves DEF BuryAcquisition, provider, pipeline
<1>8. QED
  BY <1>2, <1>3, <1>4, <1>5, <1>6, <1>7

\* A row that is processed without an id has no paid attempt but its latest, so the id
\* that is stored, or the failure that is recorded, is that of the attempt Judit answered.
LEMMA StoreIdEarned ==
  ASSUME TypeOK, Earned, NEW i \in Attempts, StoreId(i)
  PROVE  Earned'
<1> DEFINE t == i[1]
<1>1. AttemptSound(i) /\ t \in Tenants /\ i = <<t, i[2]>> /\ i[2] \in Nat \ {0}
  BY AttemptIsPair DEF Earned, AttemptsSound
<1>2. /\ handler[i] = "accepted" /\ i \in paid /\ job[i] \notin {"free", "pending"}
      /\ row[t].id = 0 /\ row[t].status = "processing" /\ i[2] = row[t].attempt
  BY <1>1 DEF StoreId, AttemptSound
<1>3. /\ handler' = [handler EXCEPT ![i] = "ended"]
      /\ UNCHANGED <<job, paid, hook, staged>>
      /\ access' = IF i \in staged THEN access \cup {t} ELSE access
  BY <1>2 DEF StoreId, pipeline
<1>4. /\ row'[t].id = i[2] /\ row'[t].status = "processing" /\ row'[t].attempt = row[t].attempt
      /\ \A u \in Tenants \ {t} : row'[u] = row[u]
  BY <1>1, <1>2 DEF StoreId, TypeOK
<1>5. /\ handler'[i] = "ended"
      /\ \A k \in Attempts \ {i} : handler'[k] = handler[k]
  BY <1>3 DEF TypeOK
<1> HIDE DEF t
<1>6. ASSUME NEW k \in Attempts PROVE AttemptSound(k)'
  <2>1. AttemptSound(k) /\ k = <<k[1], k[2]>> /\ k[1] \in Tenants
    BY AttemptIsPair DEF Earned, AttemptsSound
  <2>2. CASE k[1] # t
    BY <1>1, <1>3, <1>4, <1>5, <2>1, <2>2 DEF AttemptSound, t
  <2>3. CASE k = i
    BY <1>1, <1>2, <1>3, <1>4, <1>5, <2>3 DEF AttemptSound, t
  <2>4. CASE k[1] = t /\ k # i
    <3>1. k[2] # row[t].attempt
      BY <1>1, <1>2, <2>1, <2>4
    <3>2. handler'[k] = handler[k] /\ job'[k] = job[k] /\ (k \in paid' <=> k \in paid)
      BY <1>3, <1>5, <2>4
    <3>3. QED
      BY <1>4, <2>1, <2>4, <3>1, <3>2 DEF AttemptSound
  <2>5. QED
    BY <2>2, <2>3, <2>4
<1>7. RowsSound'
  BY <1>1, <1>2, <1>3, <1>4 DEF Earned, RowsSound, RowSound
<1>8. ASSUME NEW k \in Attempts PROVE HookSound(k)'
  <2>1. HookSound(k) /\ k[1] \in Tenants /\ k[2] \in Nat \ {0}
    BY AttemptIsPair DEF Earned, HooksSound
  <2>2. k[1] = t => hook[k] # "granted"
    BY <1>2, <2>1 DEF HookSound
  <2>3. QED
    BY <1>3, <1>4, <2>1, <2>2 DEF HookSound
<1>9. AccessIsEarned'
  <2>1. t \notin access
    BY <1>2 DEF Earned, AccessIsEarned
  <2>2. ASSUME NEW u \in access', u # t
        PROVE  row'[u].id # 0 /\ <<u, row'[u].id>> \in staged' \cap paid'
    BY <1>3, <1>4, <2>2 DEF Earned, AccessIsEarned, TypeOK
  <2>3. t \in access' => row'[t].id # 0 /\ <<t, row'[t].id>> \in staged' \cap paid'
    BY <1>1, <1>2, <1>3, <1>4, <2>1
  <2>4. QED
    BY <2>2, <2>3 DEF AccessIsEarned
<1>10. QED
  BY <1>6, <1>7, <1>8, <1>9 DEF Earned, AttemptsSound, HooksSound

\* Only a rejected attempt, which is not paid, makes its row retryable.
LEMMA RecordFailureEarned ==
  ASSUME TypeOK, Earned, NEW i \in Attempts, RecordFailure(i)
  PROVE  Earned'
<1> DEFINE t == i[1]
<1>1. AttemptSound(i) /\ t \in Tenants /\ i = <<t, i[2]>> /\ i[2] \in Nat \ {0}
  BY AttemptIsPair DEF Earned, AttemptsSound
<1>2. /\ handler[i] \in {"rejected", "unsure"} /\ job[i] \notin {"free", "pending"}
      /\ row[t].id = 0 /\ row[t].status = "processing" /\ i[2] = row[t].attempt
      /\ handler[i] = "rejected" => i \notin paid
  BY <1>1 DEF RecordFailure, AttemptSound
<1>3. UNCHANGED <<job, paid, hook, staged, access>>
  BY DEF RecordFailure, provider, pipeline
<1>4. /\ row'[t].id = 0 /\ row'[t].attempt = row[t].attempt
      /\ row'[t].status \in {"failed_ambiguous", "failed_retryable"}
      /\ row'[t].status = "failed_retryable" => i \notin paid
      /\ \A u \in Tenants \ {t} : row'[u] = row[u]
  BY <1>1, <1>2 DEF RecordFailure, Verdict, TypeOK
<1>5. /\ handler'[i] = "none"
      /\ \A k \in Attempts \ {i} : handler'[k] = handler[k]
  BY DEF RecordFailure, TypeOK
<1> HIDE DEF t
<1>6. ASSUME NEW k \in Attempts PROVE AttemptSound(k)'
  <2>1. AttemptSound(k) /\ k = <<k[1], k[2]>> /\ k[1] \in Tenants
    BY AttemptIsPair DEF Earned, AttemptsSound
  <2>2. CASE k[1] # t
    BY <1>1, <1>3, <1>4, <1>5, <2>1, <2>2 DEF AttemptSound, t
  <2>3. CASE k = i
    BY <1>1, <1>2, <1>3, <1>4, <1>5, <2>3 DEF AttemptSound, t
  <2>4. CASE k[1] = t /\ k # i
    <3>1. k[2] # row[t].attempt
      BY <1>1, <1>2, <2>1, <2>4
    <3>2. handler'[k] = handler[k] /\ job'[k] = job[k] /\ (k \in paid' <=> k \in paid)
      BY <1>3, <1>5, <2>4
    <3>3. QED
      BY <1>4, <2>1, <2>4, <3>1, <3>2 DEF AttemptSound
  <2>5. QED
    BY <2>2, <2>3, <2>4
<1>7. RowsSound'
  BY <1>1, <1>2, <1>3, <1>4 DEF Earned, RowsSound, RowSound
<1>8. ASSUME NEW k \in Attempts PROVE HookSound(k)'
  <2>1. HookSound(k) /\ k[1] \in Tenants /\ k[2] \in Nat \ {0}
    BY AttemptIsPair DEF Earned, HooksSound
  <2>2. QED
    BY <1>2, <1>3, <1>4, <2>1 DEF HookSound
<1>9. AccessIsEarned'
  BY <1>1, <1>2, <1>3, <1>4 DEF Earned, AccessIsEarned, TypeOK
<1>10. QED
  BY <1>6, <1>7, <1>8, <1>9 DEF Earned, AttemptsSound, HooksSound

\* A callback grants access only to the tenant whose row has had its id, and the id stays.
LEMMA CallbackEarned ==
  ASSUME TypeOK, Earned, NEW i \in Attempts, ProviderStep(i)
  PROVE  Earned'
<1>1. i[1] \in Tenants /\ i = <<i[1], i[2]>> /\ i[2] \in Nat \ {0} /\ HookSound(i)
  BY AttemptIsPair DEF Earned, HooksSound
<1>2. UNCHANGED <<row, job, handler, paid>>
  BY DEF ProviderStep, ReceiveLawsuit, CommitLawsuit, AbortLawsuit, ReceiveCompletion, acquiring
<1>3. AttemptsSound' /\ RowsSound'
  BY <1>2 DEF Earned, AttemptsSound, AttemptSound, RowsSound, RowSound
<1>4. CASE ReceiveLawsuit(i)
  BY <1>1, <1>2, <1>3, <1>4
     DEF ReceiveLawsuit, Grants, Earned, HooksSound, HookSound, AccessIsEarned, TypeOK
<1>5. CASE AbortLawsuit(i)
  BY <1>1, <1>2, <1>3, <1>5
     DEF AbortLawsuit, Earned, HooksSound, HookSound, AccessIsEarned, TypeOK
<1>6. CASE CommitLawsuit(i)
  <2>1. hook' = [hook EXCEPT ![i] = "closed"] /\ staged' = staged \cup {i} /\ i \in paid
    BY <1>1, <1>6 DEF CommitLawsuit, HookSound
  <2>2. HooksSound'
    BY <1>2, <2>1 DEF Earned, HooksSound, HookSound, TypeOK
  <2>3. AccessIsEarned'
    BY <1>1, <1>2, <1>6, <2>1 DEF CommitLawsuit, Earned, HookSound, AccessIsEarned
  <2>4. QED
    BY <1>3, <2>2, <2>3 DEF Earned
<1>7. CASE ReceiveCompletion(i)
  BY <1>7, <1>2, EarnedStays DEF ReceiveCompletion
<1>8. QED
  BY <1>4, <1>5, <1>6, <1>7 DEF ProviderStep

\* Every step keeps what is earned.
LEMMA EarnedNext ==
  ASSUME TypeOK, Earned, Next
  PROVE  Earned'
<1>1. ASSUME NEW p \in Publics, Create(p) PROVE Earned'
  BY <1>1, EarnedStays DEF Create, acquiring, provider
<1>2. ASSUME NEW p \in Publics, Register(p) PROVE Earned'
  BY <1>2, RequestEarned, AcquisitionAssumption DEF Register
<1>3. ASSUME NEW t \in Tenants, RequestAnonymously(t) PROVE Earned'
  BY <1>3, RequestEarned DEF RequestAnonymously
<1>4. ASSUME NEW i \in Attempts, AcquisitionStep(i) PROVE Earned'
  BY <1>4, HandlerEarned, StoreIdEarned, RecordFailureEarned DEF AcquisitionStep
<1>5. ASSUME NEW i \in Attempts, PipelineStep(i) PROVE Earned'
  BY <1>5, EarnedStays
     DEF PipelineStep, Finalize, CompleteFinalizer, BuryFinalizer, Download, BuryDownload,
         StartSummary, WriteSummary, CompleteSummary, LoseSummary, acquiring, provider
<1>6. QED
  BY <1>1, <1>2, <1>3, <1>4, <1>5, CallbackEarned DEF Next

-----------------------------------------------------------------------------
(* Completed requests. *)

\* What has been published stays, and a generation reports a summary that passed only
\* with the summary.
LEMMA ReportsNext ==
  ASSUME TypeOK, ReportsAreTrue, Next
  PROVE  ReportsAreTrue' /\ published \subseteq published'
<1>1. ASSUME NEW i \in Attempts, PipelineStep(i)
      PROVE  ReportsAreTrue' /\ published \subseteq published'
  <2> USE DEF TypeOK, ReportsAreTrue
  <2>1. CASE Finalize(i)
    BY <2>1 DEF Finalize
  <2>2. CASE CompleteFinalizer(i) \/ BuryFinalizer(i) \/ Download(i) \/ BuryDownload(i)
    BY <2>2 DEF CompleteFinalizer, BuryFinalizer, Download, BuryDownload
  <2>3. CASE StartSummary(i) \/ WriteSummary(i)
    BY <2>3 DEF StartSummary, WriteSummary
  <2>4. CASE CompleteSummary(i) \/ LoseSummary(i)
    BY <2>4 DEF CompleteSummary, LoseSummary
  <2>5. QED
    BY <1>1, <2>1, <2>2, <2>3, <2>4 DEF PipelineStep
<1>2. CASE UNCHANGED <<summary, published>>
  BY <1>2 DEF ReportsAreTrue
<1>3. ASSUME NEW i \in Attempts, AcquisitionStep(i) \/ ProviderStep(i)
      PROVE  UNCHANGED <<summary, published>>
  BY <1>3
     DEF AcquisitionStep, ProviderStep, Load, LoseClaim, Call, StoreId, RecordFailure,
         CompleteAcquisition, Interrupt, BuryAcquisition, ReceiveLawsuit, CommitLawsuit,
         AbortLawsuit, ReceiveCompletion, pipeline
<1>4. QED
  BY <1>1, <1>2, <1>3 DEF Next, Create, Register, RequestAnonymously, RequestProcess, pipeline

\* No request becomes completed by a transition to another status.
LEMMA MoveCompletesOnly ==
  ASSUME NEW f, NEW S, NEW target, target # "completed", NEW p \in Publics,
         Move(f, S, target)[p] = "completed"
  PROVE  f[p] = "completed"
BY DEF Move

\* A request becomes completed only when something has been published.
LEMMA BackedNext ==
  ASSUME TypeOK, ReportsAreTrue, CompletedIsBacked, Next
  PROVE  CompletedIsBacked'
<1> SUFFICES ASSUME NEW p \in Publics, public'[p] = "completed", public[p] # "completed"
             PROVE  published # {}
  BY ReportsNext DEF CompletedIsBacked
<1>1. ASSUME NEW i \in Attempts, Finalize(i) PROVE published # {}
  <2>1. PICK target \in {"source_unavailable", "completed", "failed", "indexing"} :
          /\ public' = Move(Move(public, Followers(i), "indexing"), Followers(i), target)
          /\ target = "completed" => published # {}
    <3>1. Move(Move(public, Followers(i), "indexing"), Followers(i), "indexing")
            = Move(public, Followers(i), "indexing")
      BY DEF Move
    <3>2. QED
      BY <1>1, <3>1 DEF Finalize
  <2>2. QED
    BY <2>1, MoveCompletesOnly
<1>2. ASSUME NEW i \in Attempts, CompleteSummary(i) PROVE published # {}
  <2>1. PICK outcome \in Outcomes(summary[i]) :
          public' = Move(Move(public, Followers(i), "validating"), Followers(i), outcome)
    BY <1>2 DEF CompleteSummary
  <2>2. outcome = "completed"
    BY <2>1, MoveCompletesOnly
  <2>3. summary[i] = "passed"
    BY <2>2 DEF Outcomes
  <2>4. QED
    BY <2>3 DEF ReportsAreTrue
<1>3. ASSUME NEW i \in Attempts, PipelineStep(i), ~Finalize(i), ~CompleteSummary(i)
      PROVE  FALSE
  BY <1>3, MoveCompletesOnly
     DEF PipelineStep, CompleteFinalizer, BuryFinalizer, Download, BuryDownload, StartSummary,
         WriteSummary, LoseSummary
<1>4. ASSUME NEW i \in Attempts, AcquisitionStep(i) \/ ProviderStep(i) PROVE FALSE
  BY <1>4, MoveCompletesOnly
     DEF AcquisitionStep, ProviderStep, Load, LoseClaim, Call, StoreId, RecordFailure,
         CompleteAcquisition, Interrupt, BuryAcquisition, ReceiveLawsuit, CommitLawsuit,
         AbortLawsuit, ReceiveCompletion
<1>5. ASSUME NEW t \in Tenants, NEW S, RequestProcess(t, S) PROVE FALSE
  BY <1>5, MoveCompletesOnly DEF RequestProcess
<1>6. ASSUME NEW q \in Publics, Create(q) PROVE FALSE
  BY <1>6 DEF Create, TypeOK
<1>7. TenantOf \in [Publics -> Tenants]
  BY AcquisitionAssumption
<1>8. QED
  BY <1>1, <1>2, <1>3, <1>4, <1>5, <1>6, <1>7 DEF Next, Register, RequestAnonymously

-----------------------------------------------------------------------------
(* The theorems. *)

\* The invariant holds initially.
LEMMA InitInv == Init => AcquisitionInv
<1> SUFFICES ASSUME Init PROVE AcquisitionInv
  OBVIOUS
<1>1. TypeOK
  BY AcquisitionAssumption DEF Init, TypeOK, JobStatuses
<1>2. AttemptsSound
  BY DEF Init, AttemptsSound, AttemptSound
<1>3. RowsSound /\ HooksSound /\ AccessIsEarned
  BY DEF Init, RowsSound, RowSound, HooksSound, HookSound, AccessIsEarned
<1>4. ReportsAreTrue /\ CompletedIsBacked
  BY DEF Init, ReportsAreTrue, CompletedIsBacked
<1>5. QED
  BY <1>1, <1>2, <1>3, <1>4 DEF AcquisitionInv

\* Every step keeps the types.
LEMMA TypeNext ==
  ASSUME TypeOK, RowsSound, Next
  PROVE  TypeOK'
<1>1. public' \in [Publics -> PublicStatuses]
  BY PublicForward
<1>2. ASSUME NEW p \in Publics, Create(p) PROVE TypeOK'
  BY <1>1, <1>2 DEF Create, TypeOK, PublicStatuses, acquiring, provider, pipeline
<1>3. TenantOf \in [Publics -> Tenants]
  BY AcquisitionAssumption
<1>4. QED
  BY <1>1, <1>2, <1>3, AcquisitionTypes, ProviderTypes, PipelineTypes, RequestTypes
     DEF Next, Register, RequestAnonymously

\* Every step keeps the invariant.
LEMMA NextInv ==
  ASSUME AcquisitionInv, [Next]_vars
  PROVE  AcquisitionInv'
<1>1. CASE Next
  BY <1>1, TypeNext, EarnedNext, ReportsNext, BackedNext DEF AcquisitionInv, Earned
<1>2. CASE UNCHANGED vars
  <2>1. TypeOK'
    BY <1>2 DEF AcquisitionInv, TypeOK, vars
  <2>2. Earned'
    BY <1>2, EarnedStays DEF AcquisitionInv, Earned, vars
  <2>3. ReportsAreTrue' /\ CompletedIsBacked'
    BY <1>2 DEF AcquisitionInv, ReportsAreTrue, CompletedIsBacked, vars
  <2>4. QED
    BY <2>1, <2>2, <2>3 DEF AcquisitionInv, Earned
<1>3. QED
  BY <1>1, <1>2

\* In every state the attempts, rows, callbacks and public requests are sound.
THEOREM AcquisitionIsSound == Spec => []AcquisitionInv
BY InitInv, NextInv, PTL DEF Spec

\* A tenant pays at most once for a process, whatever becomes of answers, workers and
\* leases: a new attempt is made only after a rejection (process_requests.py,
\* public_lifecycle.py).
THEOREM PaidAtMostOnce == Spec => []PaidOnce
<1>1. AcquisitionInv => PaidOnce
  <2> SUFFICES ASSUME AcquisitionInv, NEW i \in paid, NEW k \in paid, i[1] = k[1]
               PROVE  i = k
    BY DEF PaidOnce
  <2>1. i \in Attempts /\ k \in Attempts
    BY DEF AcquisitionInv, TypeOK
  <2>2. i[2] = row[i[1]].attempt /\ k[2] = row[k[1]].attempt
    BY <2>1 DEF AcquisitionInv, AttemptsSound, AttemptSound
  <2>3. QED
    BY <2>1, <2>2, AttemptIsPair
<1>2. QED
  BY <1>1, AcquisitionIsSound, PTL

\* A tenant reads a process only by a committed version of a Judit request that it asked
\* for and that was accepted (grant_request_tenants and the store of the id).
THEOREM AccessAlwaysEarned == Spec => []AccessIsEarned
BY AcquisitionIsSound, PTL DEF AcquisitionInv

\* A public request is completed only after a summary has passed validation.
THEOREM CompletedAlwaysBacked == Spec => []CompletedIsBacked
BY AcquisitionIsSound, PTL DEF AcquisitionInv

\* No job, callback or replay takes a public request back (transition_summary_request).
THEOREM PublicNeverBackwards == Spec => NeverBackwards
<1>1. ASSUME AcquisitionInv, [Next]_vars
      PROVE  [\A p \in Publics : public[p] # "absent" =>
                \/ public'[p] = public[p]
                \/ /\ public[p] \notin Terminal
                   /\ public'[p] \in Terminal \/ Rank(public'[p]) > Rank(public[p])]_vars
  BY <1>1, PublicForward DEF AcquisitionInv, Forward
<1>2. QED
  BY <1>1, AcquisitionIsSound, PTL DEF Spec, NeverBackwards

\* Once a row has the id of a Judit request, it stays as it is and nothing more is paid.
THEOREM IdAlwaysKept == Spec => IdIsKept
<1>1. ASSUME AcquisitionInv, [Next]_vars
      PROVE  [\A t \in Tenants : row[t].id # 0 =>
                /\ row'[t] = row[t]
                /\ \A n \in Tries : <<t, n>> \in paid' => <<t, n>> \in paid]_vars
  <2> SUFFICES ASSUME Next, NEW t \in Tenants, row[t].id # 0
               PROVE  /\ row'[t] = row[t]
                      /\ \A n \in Tries : <<t, n>> \in paid' => <<t, n>> \in paid
    BY <1>1
  <2>a. TypeOK /\ AttemptsSound /\ RowsSound
    BY <1>1 DEF AcquisitionInv
  <2> USE <2>a DEF TypeOK
  <2>1. ASSUME NEW u \in Tenants, NEW S, RequestProcess(u, S)
        PROVE  row'[t] = row[t] /\ paid' = paid
    <3>1. CanAttempt(u) => u # t
      BY DEF CanAttempt, RowsSound, RowSound
    <3>2. row' = [row EXCEPT ![u] = row'[u]] \/ row' = row
      BY <2>1 DEF RequestProcess, Attempt
    <3>3. ~CanAttempt(u) => row' = row
      BY <2>1 DEF RequestProcess
    <3>4. QED
      BY <2>1, <3>1, <3>2, <3>3 DEF RequestProcess
  <2>2. ASSUME NEW i \in Attempts, AcquisitionStep(i)
        PROVE  row'[t] = row[t] /\ \A n \in Tries : <<t, n>> \in paid' => <<t, n>> \in paid
    <3>1. AttemptSound(i)
      BY DEF AttemptsSound
    <3>2. CASE Call(i)
      BY <3>1, <3>2 DEF Call, AttemptSound
    <3>3. CASE StoreId(i) \/ RecordFailure(i)
      BY <3>3, AttemptIsPair DEF StoreId, RecordFailure
    <3>4. CASE Load(i) \/ LoseClaim(i) \/ CompleteAcquisition(i) \/ Interrupt(i) \/ BuryAcquisition(i)
      BY <3>4 DEF Load, LoseClaim, CompleteAcquisition, Interrupt, BuryAcquisition
    <3>5. QED
      BY <2>2, <3>2, <3>3, <3>4 DEF AcquisitionStep
  <2>3. ASSUME NEW i \in Attempts, ProviderStep(i) \/ PipelineStep(i)
        PROVE  row' = row /\ paid' = paid
    BY <2>3 DEF ProviderStep, ReceiveLawsuit, CommitLawsuit, AbortLawsuit, ReceiveCompletion,
                PipelineStep, Finalize, CompleteFinalizer, BuryFinalizer, Download, BuryDownload,
                StartSummary, WriteSummary, CompleteSummary, LoseSummary, acquiring
  <2>4. ASSUME NEW p \in Publics, Create(p)
        PROVE  row' = row /\ paid' = paid
    BY <2>4 DEF Create, acquiring
  <2>5. TenantOf \in [Publics -> Tenants]
    BY AcquisitionAssumption
  <2>6. QED
    BY <2>1, <2>2, <2>3, <2>4, <2>5 DEF Next, Register, RequestAnonymously
<1>2. QED
  BY <1>1, AcquisitionIsSound, PTL DEF Spec, IdIsKept
=============================================================================
