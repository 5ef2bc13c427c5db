---------------------------- MODULE RulesProofs ----------------------------
(* Theorems about the rules of the system, for inputs of any size. *)
EXTENDS Rules, FiniteSetTheorems, SequenceTheorems, WellFoundedInduction, TLAPS

-----------------------------------------------------------------------------
(* The structure of an answer. *)

\* What may be wrong with one claim, as facts about it.
LEMMA ClaimErrorsAre ==
  ASSUME NEW answer, NEW i \in DOMAIN answer, NEW expected, NEW catalog
  PROVE  ClaimErrors(answer, i, expected, catalog) = {} <=>
           /\ \A k \in 1..(i - 1) : answer[k].id # answer[i].id
           /\ answer[i].id \in expected /\ answer[i].same /\ answer[i].refs # <<>>
           /\ IsInjective(answer[i].refs) /\ ToSet(answer[i].refs) \subseteq catalog
<1> DEFINE c == answer[i]
<1> DEFINE E == ClaimErrors(answer, i, expected, catalog)
<1>1. CASE \E k \in 1..(i - 1) : answer[k].id = c.id
  <2>1. "duplicate" \in E
    BY <1>1 DEF ClaimErrors
  <2>2. QED
    BY <1>1, <2>1
<1>2. CASE ~(\E k \in 1..(i - 1) : answer[k].id = c.id) /\ c.id \notin expected
  <2>1. "unexpected" \in E
    BY <1>2 DEF ClaimErrors
  <2>2. QED
    BY <1>2, <2>1
<1>3. CASE ~(\E k \in 1..(i - 1) : answer[k].id = c.id) /\ c.id \in expected
  <2>1. E = {e \in {"text", "bare", "repeated_ref", "unknown_ref"} :
          CASE e = "text"         -> ~c.same
            [] e = "bare"         -> c.refs = <<>>
            [] e = "repeated_ref" -> ~IsInjective(c.refs)
            [] e = "unknown_ref"  -> ~(ToSet(c.refs) \subseteq catalog)}
    BY <1>3 DEF ClaimErrors
  <2>2. /\ "text" \in E <=> ~c.same
        /\ "bare" \in E <=> c.refs = <<>>
        /\ "repeated_ref" \in E <=> ~IsInjective(c.refs)
        /\ "unknown_ref" \in E <=> ~(ToSet(c.refs) \subseteq catalog)
    BY <2>1
  <2>3. E \subseteq {"text", "bare", "repeated_ref", "unknown_ref"}
    BY <2>1
  <2>4. QED
    BY <1>3, <2>2, <2>3
<1>4. QED
  BY <1>1, <1>2, <1>3

\* The validation accepts exactly the answers whose readers accept them and whose
\* references the catalog has, for any fields, any catalog and any number of claims.
LEMMA ValidationDecides ==
  ASSUME NEW n \in Nat, NEW answer, DOMAIN answer = 1..n, NEW expected, NEW catalog
  PROVE  ValidateClaimEvidence(answer, expected, catalog) = {} <=>
           /\ Declares(answer, expected)
           /\ \A i \in DOMAIN answer : ToSet(answer[i].refs) \subseteq catalog
<1> DEFINE Missing == {"missing" : id \in {x \in expected : \A i \in DOMAIN answer : answer[i].id # x}}
<1>1. ValidateClaimEvidence(answer, expected, catalog) = {} <=>
        /\ \A i \in DOMAIN answer : ClaimErrors(answer, i, expected, catalog) = {}
        /\ Missing = {}
  <2> DEFINE Wrong == UNION {ClaimErrors(answer, i, expected, catalog) : i \in DOMAIN answer}
  <2>1. ValidateClaimEvidence(answer, expected, catalog) = Wrong \cup Missing
    BY DEF ValidateClaimEvidence
  <2>2. Wrong = {} <=> \A i \in DOMAIN answer : ClaimErrors(answer, i, expected, catalog) = {}
    OBVIOUS
  <2> HIDE DEF Wrong, Missing
  <2>3. QED
    BY <2>1, <2>2
<1>2. Missing = {} <=> \A x \in expected : \E i \in DOMAIN answer : answer[i].id = x
  OBVIOUS
<1>3. (\A i \in DOMAIN answer : \A k \in 1..(i - 1) : answer[k].id # answer[i].id) <=>
        \A i, k \in DOMAIN answer : answer[i].id = answer[k].id => i = k
  <2>1. ASSUME \A i \in DOMAIN answer : \A k \in 1..(i - 1) : answer[k].id # answer[i].id,
               NEW i \in DOMAIN answer, NEW k \in DOMAIN answer, answer[i].id = answer[k].id
        PROVE  i = k
    <3>1. i \in Int /\ k \in Int /\ i >= 1 /\ k >= 1
      BY <2>1
    <3>2. ~(i < k) /\ ~(k < i)
      BY <2>1, <3>1
    <3>3. QED
      BY <3>1, <3>2
  <2>2. ASSUME \A i, k \in DOMAIN answer : answer[i].id = answer[k].id => i = k,
               NEW i \in DOMAIN answer, NEW k \in 1..(i - 1)
        PROVE  answer[k].id # answer[i].id
    <3>1. k \in DOMAIN answer /\ k # i
      OBVIOUS
    <3>2. QED
      BY <2>2, <3>1
  <2>3. QED
    BY <2>1, <2>2
<1>4. {answer[i].id : i \in DOMAIN answer} = expected <=>
        /\ \A i \in DOMAIN answer : answer[i].id \in expected
        /\ \A x \in expected : \E i \in DOMAIN answer : answer[i].id = x
  OBVIOUS
<1> HIDE DEF Missing
<1>5. (\A i \in DOMAIN answer : ClaimErrors(answer, i, expected, catalog) = {}) <=>
        \A i \in DOMAIN answer :
           /\ \A k \in 1..(i - 1) : answer[k].id # answer[i].id
           /\ answer[i].id \in expected /\ answer[i].same /\ answer[i].refs # <<>>
           /\ IsInjective(answer[i].refs) /\ ToSet(answer[i].refs) \subseteq catalog
  BY ClaimErrorsAre
<1>6. Declares(answer, expected) <=>
        /\ \A i \in DOMAIN answer :
             answer[i].same /\ answer[i].refs # <<>> /\ IsInjective(answer[i].refs)
        /\ \A i, k \in DOMAIN answer : answer[i].id = answer[k].id => i = k
        /\ {answer[i].id : i \in DOMAIN answer} = expected
  BY <1>4 DEF Declares
<1>7. QED
  BY <1>1, <1>2, <1>3, <1>4, <1>5, <1>6

-----------------------------------------------------------------------------
(* The verification of a claim. *)

\* What acceptance says of the references and of the status.
LEMMA AcceptedSays ==
  ASSUME NEW claim, NEW refs, NEW catalog, Accepted(claim, refs, catalog)
  PROVE  /\ refs # <<>> /\ IsInjective(refs) /\ ToSet(refs) \subseteq DOMAIN catalog
         /\ ~VerificationErrors(claim, VerifyClaim(claim, {catalog[r] : r \in ToSet(refs)}))
<1> DEFINE answer == <<[id |-> "synthesis", same |-> TRUE, refs |-> refs]>>
<1>1. DOMAIN answer = 1..1 /\ 1 \in DOMAIN answer
      /\ answer[1].id = "synthesis" /\ answer[1].refs = refs
  OBVIOUS
<1>2. ValidateClaimEvidence(answer, {"synthesis"}, DOMAIN catalog) = {}
  BY DEF Accepted
<1>3. ClaimErrors(answer, 1, {"synthesis"}, DOMAIN catalog) = {}
  BY <1>1, <1>2 DEF ValidateClaimEvidence
<1>4. refs # <<>> /\ IsInjective(refs) /\ ToSet(refs) \subseteq DOMAIN catalog
  BY <1>1, <1>3, ClaimErrorsAre
<1>5. QED
  BY <1>4 DEF Accepted

\* A status that is not refused is supported by the sources or has nothing to support.
LEMMA GoodStatusSays ==
  ASSUME NEW claim, NEW cited, ~VerificationErrors(claim, VerifyClaim(claim, cited))
  PROVE  /\ \A e \in cited : RelationStatus(claim, e) # "contradicted"
         /\ \/ claim.facts \subseteq UNION {e.facts : e \in cited}
            \/ \E e \in cited : claim.text \in e.texts
<1>1. VerifyClaim(claim, cited) # "contradicted"
  BY DEF VerificationErrors
<1>2. \A e \in cited : RelationStatus(claim, e) # "contradicted"
  BY <1>1 DEF VerifyClaim
<1>3. CASE \E e \in cited : claim.text \in e.texts
  BY <1>2, <1>3
<1>4. CASE claim.facts = {}
  BY <1>2, <1>4
<1>5. CASE ~(\E e \in cited : claim.text \in e.texts) /\ claim.facts # {}
  <2>1. VerifyClaim(claim, cited) # "insufficient"
    BY <1>5 DEF VerificationErrors
  <2>2. claim.facts \subseteq UNION {e.facts : e \in cited}
    BY <1>1, <1>2, <1>5, <2>1 DEF VerifyClaim
  <2>3. QED
    BY <1>2, <2>2
<1>6. QED
  BY <1>3, <1>4, <1>5

\* The first kind that is missing when it is not an identifier of the process: its amounts.
LEMMA MissingAmountIsFirst ==
  ASSUME NEW claim, NEW have, Of(claim.facts, "cnj") \subseteq have,
         ~(Of(claim.facts, "amount") \subseteq have)
  PROVE  FirstMissing(claim, have) = "amount"
<1> DEFINE First(i) == /\ ~(Of(claim.facts, FactKinds[i]) \subseteq have)
                       /\ \A k \in 1..(i - 1) : Of(claim.facts, FactKinds[k]) \subseteq have
<1>1. DOMAIN FactKinds = 1..5 /\ FactKinds[1] = "cnj" /\ FactKinds[2] = "amount"
  BY DEF FactKinds
<1>2. First(2)
  BY <1>1
<1>3. \A i \in DOMAIN FactKinds : First(i) => i = 2
  <2> SUFFICES ASSUME NEW i \in DOMAIN FactKinds, First(i), i # 2 PROVE FALSE
    OBVIOUS
  <2>1. CASE i = 1
    BY <1>1, <2>1
  <2>2. CASE i > 2
    <3>1. 2 \in 1..(i - 1)
      BY <1>1, <2>2
    <3>2. QED
      BY <1>1, <3>1
  <2>3. QED
    BY <1>1, <2>1, <2>2
<1> HIDE DEF First
<1>4. (CHOOSE i \in DOMAIN FactKinds : First(i)) = 2
  BY <1>1, <1>2, <1>3
<1>5. QED
  BY <1>1, <1>4 DEF FirstMissing, First

\* A claim that cites the process and repeats none of its fields calls no amount its value
\* but that of the header: the rules of the rendered text (validar) hold the claim to the
\* process's own CNJ, so the amount is the first thing that could be missing.
LEMMA AgreesWithProcess ==
  ASSUME NEW claim, NEW cited, NEW have, NEW process,
         ProcessEvidence(process) \in cited,
         Of(process.named, "amount") = {}, process.amount # 0,
         claim.labeled \subseteq Of(claim.facts, "amount"),
         claim.text \notin process.scalars,
         ~VerificationErrors(claim, VerifyClaim(claim, cited)),
         ~ContentErrors(claim.facts, Identity(process), have)
  PROVE  claim.labeled \subseteq {<<"amount", process.amount>>}
<1> DEFINE p == ProcessEvidence(process)
<1>1. /\ p.kind = "process" /\ p.texts = process.scalars
      /\ p.facts = process.named \cup {<<"cnj", process.code>>, <<"count", process.stepCount>>}
                   \cup {<<"amount", process.amount>>}
  BY DEF ProcessEvidence
<1>2. RelationStatus(claim, p) # "contradicted"
  BY GoodStatusSays
<1> HIDE DEF p
<1>3. Of(claim.facts, "cnj") \subseteq p.facts
  <2> SUFFICES ASSUME NEW f \in claim.facts, f[1] = "cnj" PROVE f \in p.facts
    BY DEF Of
  <2>1. f \in Identity(process)
    BY DEF ContentErrors
  <2>2. f = <<"cnj", process.code>>
    BY <2>1 DEF Identity, Of
  <2>3. QED
    BY <1>1, <2>2
<1>4. \A f \in p.facts : f[1] = "amount" => f = <<"amount", process.amount>>
  <2> SUFFICES ASSUME NEW f \in p.facts, f[1] = "amount" PROVE f = <<"amount", process.amount>>
    OBVIOUS
  <2>1. f \notin process.named
    BY DEF Of
  <2>2. QED
    BY <1>1, <2>1
<1>5. claim.labeled \subseteq p.facts
  <2>1. CASE Of(claim.facts, "amount") \subseteq p.facts
    BY <2>1
  <2>2. CASE ~(Of(claim.facts, "amount") \subseteq p.facts)
    <3>1. FirstMissing(claim, p.facts) = "amount"
      BY <1>3, <2>2, MissingAmountIsFirst
    <3>2. claim.facts # {} /\ ~(claim.facts \subseteq p.facts)
      BY <2>2 DEF Of
    <3>3. ~ProcessDisagrees(claim, "amount", p.facts, p.facts)
      BY <1>1, <1>2, <3>1, <3>2 DEF RelationStatus
    <3>4. <<"amount", process.amount>> \in Of(p.facts, "amount")
      BY <1>1 DEF Of
    <3>5. QED
      BY <3>3, <3>4 DEF ProcessDisagrees
  <2>3. QED
    BY <2>1, <2>2
<1>6. \A f \in claim.labeled : f[1] = "amount"
  BY DEF Of
<1>7. QED
  BY <1>4, <1>5, <1>6

-----------------------------------------------------------------------------
(* The facts of the rendered text. *)

\* A smaller source supports less.
LEMMA MoreSourceSupports ==
  ASSUME NEW facts, NEW own, NEW source, NEW more, source \subseteq more,
         ContentErrors(facts, own, more)
  PROVE  ContentErrors(facts, own, source)
BY DEF ContentErrors, SourceErrors, DateErrors

\* What the text says of the process itself is not supported by any source.
LEMMA IdentityIsOwn ==
  ASSUME NEW facts, NEW own, NEW source,
         \A f \in facts : f[1] \in {"cnj", "count", "party", "identifier"} \/ f \in source
  PROVE  ContentErrors(facts, own, source) <=>
           ContentErrors({f \in facts : f[1] \in {"cnj", "count", "party", "identifier"}}, own, {})
<1> DEFINE identity == {f \in facts : f[1] \in {"cnj", "count", "party", "identifier"}}
<1>1. ~SourceErrors(identity, {}) /\ ~DateErrors(identity, {})
  BY DEF SourceErrors, DateErrors
<1>2. SourceErrors(facts, source) \/ DateErrors(facts, source) => ContentErrors(identity, own, {})
  BY DEF SourceErrors, DateErrors
<1>3. QED
  BY <1>1, <1>2 DEF ContentErrors, PartyErrors, IdentifierErrors

-----------------------------------------------------------------------------
(* Inputs of any size. *)

\* An answer is any sequence of claims about any fields.
AnyAnswer == case.part = "answer" => \E n \in Nat : DOMAIN case.answer = 1..n

\* Evidence of which nothing was left has neither facts nor texts.
BlankIsEmpty(e) == e.blank \in BOOLEAN /\ (e.blank => e.facts = {} /\ e.texts = {})

\* A claim labels amounts it has, and cites any number of sources of a catalog in which
\* p is the process, whose fields name no amounts, and m and n are something else.
AnyClaim ==
  case.part = "claim" =>
    /\ case.claim.labeled \subseteq Of(case.claim.facts, "amount")
    /\ \E S : case.refs \in Seq(S)
    /\ {"m", "n"} \subseteq DOMAIN case.catalog
    /\ case.catalog["m"].kind # "process" /\ case.catalog["n"].kind # "process"
    /\ case.catalog.p = ProcessEvidence(case.process)
    /\ Of(case.process.named, "amount") = {}
    /\ \A r \in DOMAIN case.catalog : BlankIsEmpty(case.catalog[r])

\* The facts of a text are identities of the process, or of kinds a source may tell.
AnyContent ==
  case.part = "content" =>
    /\ case.source \subseteq ForeignFacts
    /\ \A f \in case.facts : f[1] \in {"cnj", "count", "party", "identifier"} \/ f \in ForeignFacts

\* For answers of any length on any catalog, claims with any facts and sources, and texts
\* with any facts, the three checks achieve together what SummaryIsGrounded says.
THEOREM GroundedForAnyInput ==
  AnyAnswer /\ AnyClaim /\ AnyContent => SummaryIsGrounded
<1> SUFFICES ASSUME AnyAnswer, AnyClaim, AnyContent PROVE SummaryIsGrounded
  OBVIOUS
<1>1. ValidationIsExact
  <2> SUFFICES ASSUME case.part = "answer"
               PROVE  ValidateClaimEvidence(case.answer, {"a", "b"}, {"p", "m"}) = {} <=>
                        /\ Declares(case.answer, {"a", "b"})
                        /\ \A i \in DOMAIN case.answer : ToSet(case.answer[i].refs) \subseteq {"p", "m"}
    BY DEF ValidationIsExact
  <2>1. PICK n \in Nat : DOMAIN case.answer = 1..n
    BY DEF AnyAnswer
  <2>2. QED
    BY <2>1, ValidationDecides
<1>2. ClaimIsAccepted =>
        ~VerificationErrors(case.claim, VerifyClaim(case.claim, Cited))
  BY AcceptedSays DEF ClaimIsAccepted, Cited
<1>3. AcceptedIsGrounded
  <2> SUFFICES ASSUME ClaimIsAccepted
               PROVE  \/ case.claim.facts \subseteq UNION {e.facts : e \in Cited}
                      \/ \E e \in Cited : case.claim.text \in e.texts
    BY DEF AcceptedIsGrounded
  <2>1. QED
    BY <1>2, GoodStatusSays
<1>4. AcceptedAgreesWithProcess
  <2> SUFFICES ASSUME ClaimIsAccepted, "p" \in ToSet(case.refs),
                      ~ContentErrors(case.claim.facts, Identity(case.process), UNION {e.facts : e \in Cited}),
                      case.process.amount # 0, case.claim.text \notin case.process.scalars
               PROVE  case.claim.labeled \subseteq {<<"amount", case.process.amount>>}
    BY DEF AcceptedAgreesWithProcess
  <2>1. case.catalog.p \in Cited
    BY DEF Cited
  <2>2. /\ case.catalog.p = ProcessEvidence(case.process)
        /\ Of(case.process.named, "amount") = {}
        /\ case.claim.labeled \subseteq Of(case.claim.facts, "amount")
    BY DEF AnyClaim, ClaimIsAccepted
  <2>3. ProcessEvidence(case.process) \in Cited
    BY <2>1, <2>2
  <2>4. QED
    BY <1>2, <2>2, <2>3, AgreesWithProcess
<1>5. SourceOnlySupports
  BY MoreSourceSupports, IdentityIsOwn DEF SourceOnlySupports, AnyContent
<1>6. QED
  BY <1>1, <1>3, <1>4, <1>5 DEF SummaryIsGrounded

-----------------------------------------------------------------------------
(* Numbers and finite sets. *)

\* A set of natural numbers has a least element.
LEMMA LeastExists ==
  ASSUME NEW S, S \subseteq Nat, S # {}
  PROVE  \E m \in S : \A k \in S : m <= k
<1>1. PICK m \in S : \A k \in S : ~(<<k, m>> \in OpToRel(<, Nat))
  BY WFMin, NatLessThanWellFounded, Zenon
<1>2. \A k \in S : ~(k < m)
  BY <1>1 DEF OpToRel
<1>3. QED
  BY <1>2

\* A set of natural numbers with a bound has a greatest element.
LEMMA GreatestExists ==
  ASSUME NEW n \in Nat, NEW S, S \subseteq 1..n, S # {}
  PROVE  \E m \in S : \A k \in S : k <= m
<1> DEFINE T == {n - k : k \in S}
<1>1. \A k \in S : n - k \in Nat /\ n - k \in T
  OBVIOUS
<1>0. T \subseteq Nat /\ T # {}
  BY <1>1
<1>2. PICK t \in T : \A u \in T : t <= u
  BY <1>0, LeastExists
<1>3. PICK m \in S : t = n - m
  BY <1>2
<1>4. \A k \in S : n - m <= n - k
  BY <1>1, <1>2, <1>3
<1>5. QED
  BY <1>4

\* The greatest of two numbers is the greatest.
LEMMA MaxOfTwo ==
  ASSUME NEW a \in Nat, NEW b \in Nat
  PROVE  Max({a, b}) = IF a >= b THEN a ELSE b
BY DEF Max

\* The greatest of three numbers is not below any of them.
LEMMA MaxOfThree ==
  ASSUME NEW a \in Nat, NEW b \in Nat, NEW c \in Nat
  PROVE  Max({a, b, c}) \in Nat /\ Max({a, b, c}) >= a /\ Max({a, b, c}) >= b /\ Max({a, b, c}) >= c
<1>1. \E x \in {a, b, c} : \A y \in {a, b, c} : x >= y
  OBVIOUS
<1>2. QED
  BY <1>1 DEF Max

-----------------------------------------------------------------------------
(* The choice of movements. *)

\* No more than n movements are the n best.
LEMMA BestIsBounded ==
  ASSUME NEW S, S \subseteq Nat, IsFiniteSet(S), NEW n \in Nat, NEW score,
         \A i \in S : score[i] \in Int
  PROVE  /\ Best(S, score, n) \subseteq S /\ IsFiniteSet(Best(S, score, n))
         /\ Cardinality(Best(S, score, n)) <= n
<1> DEFINE Better(i) == {k \in S : score[k] > score[i] \/ (score[k] = score[i] /\ k < i)}
<1> DEFINE B == Best(S, score, n)
<1>1. B \subseteq S /\ B = {i \in S : Cardinality(Better(i)) < n}
  BY DEF Best
<1>2. \A i \in S : IsFiniteSet(Better(i)) /\ Cardinality(Better(i)) \in Nat
  BY FS_Subset, FS_CardinalityType
<1>3. ASSUME NEW i \in S, NEW j \in S, i \in Better(j)
      PROVE  Cardinality(Better(i)) < Cardinality(Better(j))
  <2>0. /\ i \in Nat /\ j \in Nat /\ score[i] \in Int /\ score[j] \in Int
        /\ score[i] > score[j] \/ (score[i] = score[j] /\ i < j)
    BY <1>3
  <2>1. ASSUME NEW k \in Better(i) PROVE k \in Better(j) \ {i}
    <3>1. /\ k \in S /\ k \in Nat /\ score[k] \in Int
          /\ score[k] > score[i] \/ (score[k] = score[i] /\ k < i)
      BY <2>1
    <3>2. k # i
      BY <2>0, <3>1
    <3>3. score[k] > score[j] \/ (score[k] = score[j] /\ k < j)
      BY <2>0, <3>1
    <3>4. QED
      BY <3>1, <3>2, <3>3
  <2>2. /\ IsFiniteSet(Better(j) \ {i})
        /\ Cardinality(Better(j) \ {i}) = Cardinality(Better(j)) - 1
    BY <1>2, <1>3, FS_RemoveElement
  <2>3. Cardinality(Better(i)) <= Cardinality(Better(j) \ {i})
    BY <2>1, <2>2, FS_Subset
  <2>4. QED
    BY <1>2, <2>2, <2>3
<1>4. \A i, j \in S : i # j => i \in Better(j) \/ j \in Better(i)
  OBVIOUS
<1> HIDE DEF Better
<1> DEFINE rank == [i \in B |-> Cardinality(Better(i))]
<1>5. rank \in Injection(B, 0..(n - 1))
  <2>0. ASSUME NEW i \in B PROVE i \in S /\ Cardinality(Better(i)) \in 0..(n - 1)
    <3>1. i \in S /\ Cardinality(Better(i)) < n
      BY <1>1
    <3>2. Cardinality(Better(i)) \in Nat
      BY <1>2, <3>1
    <3>3. QED
      BY <3>1, <3>2
  <2>1. rank \in [B -> 0..(n - 1)]
    BY <2>0
  <2>2. ASSUME NEW i \in B, NEW j \in B, rank[i] = rank[j] PROVE i = j
    <3>1. Cardinality(Better(i)) = Cardinality(Better(j)) /\ Cardinality(Better(i)) \in Nat
      BY <1>2, <2>0, <2>2
    <3>2. i \in Better(j) => Cardinality(Better(i)) < Cardinality(Better(j))
      BY <1>3, <2>0
    <3>4. j \in Better(i) => Cardinality(Better(j)) < Cardinality(Better(i))
      BY <1>3, <2>0
    <3>5. i \notin Better(j) /\ j \notin Better(i)
      BY <3>1, <3>2, <3>4
    <3>6. i \in S /\ j \in S
      BY <2>0
    <3>7. QED
      BY <1>4, <3>5, <3>6
  <2>3. QED
    BY <2>1, <2>2 DEF Injection, IsInjective
<1>6. IsFiniteSet(0..(n - 1)) /\ Cardinality(0..(n - 1)) = n
  BY FS_Interval
<1>7. QED
  BY <1>1, <1>5, <1>6, FS_Injection

\* A choice keeps what is mandatory, chooses from what there is and is not larger than
\* its limit unless the mandatory movements are.
LEMMA SelectKeeps ==
  ASSUME NEW S, S \subseteq Nat, IsFiniteSet(S), NEW limit \in Nat, NEW score, NEW milestones,
         \A i \in S : score[i] \in Int
  PROVE  /\ Mandatory(S, milestones) \subseteq Select(S, score, milestones, limit)
         /\ Select(S, score, milestones, limit) \subseteq S
         /\ Cardinality(Select(S, score, milestones, limit))
              <= Max({limit, Cardinality(Mandatory(S, milestones))})
<1> DEFINE kept == Mandatory(S, milestones)
<1> DEFINE total == Max({limit, Cardinality(kept)})
<1> DEFINE others == Best(S \ kept, score, total - Cardinality(kept))
<1>1. Select(S, score, milestones, limit) = kept \cup others
  BY DEF Select
<1>2. kept \subseteq S
  BY DEF Mandatory
<1>3. IsFiniteSet(kept) /\ Cardinality(kept) \in Nat /\ IsFiniteSet(S \ kept)
  BY <1>2, FS_Subset, FS_CardinalityType
<1>4. total \in Nat /\ total - Cardinality(kept) \in Nat
  BY <1>3, MaxOfTwo
<1>5. others \subseteq S \ kept /\ IsFiniteSet(others) /\ Cardinality(others) <= total - Cardinality(kept)
  BY <1>3, <1>4, BestIsBounded
<1>6. Cardinality(kept \cup others) = Cardinality(kept) + Cardinality(others) - Cardinality(kept \cap others)
  BY <1>3, <1>5, FS_Union
<1>7. Cardinality(others) \in Nat /\ Cardinality(kept \cap others) \in Nat
  BY <1>3, <1>5, FS_Subset, FS_CardinalityType
<1> HIDE DEF kept, total, others
<1>8. Cardinality(kept \cup others) <= total
  BY <1>3, <1>4, <1>5, <1>6, <1>7
<1>9. QED
  BY <1>1, <1>2, <1>5, <1>8 DEF kept, total

\* The first and the last movement are mandatory.
LEMMA FirstAndLast ==
  ASSUME NEW n \in Nat, NEW S, S \subseteq 1..n, NEW milestones
  PROVE  /\ \A i \in S : (\A k \in S : i <= k) \/ (\A k \in S : k <= i) \/ i \in milestones
                           => i \in Mandatory(S, milestones)
         /\ \A i \in Mandatory(S, milestones) :
              i \in S /\ ((\A k \in S : i <= k) \/ (\A k \in S : k <= i) \/ i \in milestones)
<1>1. IsFiniteSet(S) /\ \A i \in S : i \in Nat
  <2>1. IsFiniteSet(1..n) /\ S \in SUBSET (1..n)
    BY FS_Interval
  <2>2. IsFiniteSet(S)
    BY <2>1, FS_Subset
  <2>3. QED
    BY <2>1, <2>2
<1>2. \A i \in S : IsFiniteSet({k \in S : k > i}) /\ Cardinality({k \in S : k > i}) \in Nat
  BY <1>1, FS_Subset, FS_CardinalityType
<1>3. ASSUME NEW i \in S
      PROVE  Cardinality({k \in S : k > i}) < RecentSteps <=> \A k \in S : k <= i
  <2>1. Cardinality({k \in S : k > i}) < 1 <=> Cardinality({k \in S : k > i}) = 0
    BY <1>2
  <2>2. Cardinality({k \in S : k > i}) = 0 <=> {k \in S : k > i} = {}
    BY <1>2, FS_EmptySet
  <2>3. {k \in S : k > i} = {} <=> \A k \in S : ~(k > i)
    OBVIOUS
  <2>5. \A k \in S : k > i <=> ~(k <= i)
    BY <1>1
  <2>4. QED
    BY <2>1, <2>2, <2>3, <2>5 DEF RecentSteps
<1>4. QED
  BY <1>3 DEF Mandatory

\* What is mandatory among candidates that include the mandatory movements was mandatory.
LEMMA MandatoryOfCandidates ==
  ASSUME NEW n \in Nat, NEW S, S \subseteq 1..n, NEW C, C \subseteq S, NEW milestones,
         Mandatory(S, milestones) \subseteq C
  PROVE  /\ Mandatory(C, milestones) \subseteq Mandatory(S, milestones)
         /\ Mandatory(S, milestones) \subseteq Mandatory(C, milestones)
<1>1. CASE S = {}
  BY <1>1, FirstAndLast
<1>2. CASE S # {}
  <2>0. S \subseteq Nat
    OBVIOUS
  <2>1. PICK f \in S : \A k \in S : f <= k
    BY <1>2, <2>0, LeastExists
  <2>2. PICK l \in S : \A k \in S : k <= l
    BY <1>2, GreatestExists
  <2>3. f \in C /\ l \in C
    BY <2>1, <2>2, FirstAndLast
  <2>4. ASSUME NEW i \in Mandatory(C, milestones) PROVE i \in Mandatory(S, milestones)
    <3>1. i \in C /\ ((\A k \in C : i <= k) \/ (\A k \in C : k <= i) \/ i \in milestones)
      BY FirstAndLast
    <3>2. i \in S /\ f \in Nat /\ l \in Nat /\ i \in Nat
      BY <3>1
    <3>3. (\A k \in S : i <= k) \/ (\A k \in S : k <= i) \/ i \in milestones
      BY <2>1, <2>2, <2>3, <3>1, <3>2
    <3>4. QED
      BY <3>2, <3>3, FirstAndLast
  <2>5. ASSUME NEW i \in Mandatory(S, milestones) PROVE i \in Mandatory(C, milestones)
    <3>1. i \in C /\ ((\A k \in C : i <= k) \/ (\A k \in C : k <= i) \/ i \in milestones)
      BY FirstAndLast
    <3>2. QED
      BY <3>1, FirstAndLast
  <2>6. QED
    BY <2>4, <2>5
<1>3. QED
  BY <1>1, <1>2

\* Whatever the two rankings say, the mandatory movements pass both, and they count
\* towards the limits.
LEMMA ContextKeepsMandatory ==
  ASSUME NEW n \in Nat, NEW S, S \subseteq 1..n, NEW score, NEW rerank, NEW milestones,
         NEW scorer \in BOOLEAN,
         \A i \in S : score[i] \in Int /\ rerank[i] \in Int
  PROVE  LET sent == SelectContextSteps(S, score, rerank, milestones, scorer)
         IN /\ Mandatory(S, milestones) \subseteq sent
            /\ Cardinality(sent)
                 <= Max({RerankOutput, LegacyOutput, Cardinality(Mandatory(S, milestones))})
<1> DEFINE M == Mandatory(S, milestones)
<1> DEFINE most == Max({RerankOutput, LegacyOutput, Cardinality(M)})
<1> DEFINE C == RankSteps(S, score, milestones, IF scorer THEN CandidateLimit ELSE LegacyOutput)
<1> DEFINE sent == SelectContextSteps(S, score, rerank, milestones, scorer)
<1>1. /\ IsFiniteSet(S) /\ S \subseteq Nat /\ Cardinality(S) \in Nat
      /\ M \subseteq S /\ IsFiniteSet(M) /\ Cardinality(M) \in Nat
  <2>1. IsFiniteSet(1..n) /\ S \in SUBSET (1..n) /\ M \in SUBSET S
    BY FS_Interval DEF Mandatory
  <2>2. IsFiniteSet(S) /\ IsFiniteSet(M)
    BY <2>1, FS_Subset
  <2>3. QED
    BY <2>1, <2>2, FS_CardinalityType
<1>0. (\A i \in S : score[i] \in Int) /\ (\A i \in S : rerank[i] \in Int)
  OBVIOUS
<1>2. most \in Nat /\ most >= 2 /\ most >= Cardinality(M)
  BY <1>1, MaxOfThree DEF RerankOutput, LegacyOutput
<1>3. M \subseteq C /\ C \subseteq S
  <2>1. CASE Cardinality(S) <= ShortProcess
    BY <1>1, <2>1 DEF RankSteps
  <2>2. CASE ~(Cardinality(S) <= ShortProcess)
    <3>1. C = Select(S, score, milestones, IF scorer THEN CandidateLimit ELSE LegacyOutput)
      BY <2>2 DEF RankSteps
    <3>2. (IF scorer THEN CandidateLimit ELSE LegacyOutput) \in Nat
      BY DEF CandidateLimit, LegacyOutput
    <3>3. ASSUME NEW limit \in Nat
          PROVE  /\ Mandatory(S, milestones) \subseteq Select(S, score, milestones, limit)
                 /\ Select(S, score, milestones, limit) \subseteq S
      BY <1>0, <1>1, SelectKeeps
    <3>4. QED
      BY <3>1, <3>2, <3>3
  <2>3. QED
    BY <2>1, <2>2
<1> HIDE DEF C
<1>4. CASE Cardinality(S) <= ShortProcess
  <2>1. sent = S
    BY <1>4 DEF SelectContextSteps, RankSteps
  <2>2. QED
    BY <1>1, <1>2, <1>4, <2>1 DEF ShortProcess
<1>5. CASE ~(Cardinality(S) <= ShortProcess) /\ ~scorer
  <2>1. sent = Select(S, score, milestones, 2)
    BY <1>5 DEF SelectContextSteps, RankSteps, LegacyOutput
  <2>2. /\ M \subseteq sent /\ sent \subseteq S
        /\ Cardinality(sent) <= Max({2, Cardinality(M)})
    <3>1. /\ M \subseteq Select(S, score, milestones, 2)
          /\ Select(S, score, milestones, 2) \subseteq S
          /\ Cardinality(Select(S, score, milestones, 2)) <= Max({2, Cardinality(M)})
      BY <1>0, <1>1, SelectKeeps
    <3>2. QED
      BY <2>1, <3>1
  <2>3. Max({2, Cardinality(M)}) <= most /\ Max({2, Cardinality(M)}) \in Nat
    BY <1>1, <1>2, MaxOfTwo
  <2>4. IsFiniteSet(sent) /\ Cardinality(sent) \in Nat
    BY <1>1, <2>2, FS_Subset, FS_CardinalityType
  <2>5. QED
    BY <1>2, <2>2, <2>3, <2>4
<1>6. CASE ~(Cardinality(S) <= ShortProcess) /\ scorer
  <2>1. sent = RerankSteps(C, rerank, milestones)
    BY <1>6 DEF SelectContextSteps, C
  <2>2. Mandatory(C, milestones) = M
    <3>1. /\ Mandatory(C, milestones) \subseteq Mandatory(S, milestones)
          /\ Mandatory(S, milestones) \subseteq Mandatory(C, milestones)
      BY <1>3, MandatoryOfCandidates
    <3>2. QED
      BY <3>1
  <2>3. CASE C = {}
    <3>1. sent = {} /\ Cardinality(sent) = 0
      BY <2>1, <2>3, FS_EmptySet DEF RerankSteps
    <3>2. QED
      BY <1>2, <1>3, <2>3, <3>1
  <2>4. CASE C # {}
    <3>1. sent = Select(C, rerank, milestones, 2)
      BY <2>1, <2>4 DEF RerankSteps, RerankOutput
    <3>2. IsFiniteSet(C) /\ C \subseteq Nat /\ \A i \in C : rerank[i] \in Int
      BY <1>0, <1>1, <1>3, FS_Subset
    <3>3. /\ M \subseteq sent /\ sent \subseteq C
          /\ Cardinality(sent) <= Max({2, Cardinality(M)})
      <4>1. /\ Mandatory(C, milestones) \subseteq Select(C, rerank, milestones, 2)
            /\ Select(C, rerank, milestones, 2) \subseteq C
            /\ Cardinality(Select(C, rerank, milestones, 2))
                 <= Max({2, Cardinality(Mandatory(C, milestones))})
        BY <3>2, SelectKeeps
      <4>2. QED
        BY <2>2, <3>1, <4>1
    <3>4. Max({2, Cardinality(M)}) <= most /\ Max({2, Cardinality(M)}) \in Nat
      BY <1>1, <1>2, MaxOfTwo
    <3>5. IsFiniteSet(sent) /\ Cardinality(sent) \in Nat
      BY <3>2, <3>3, FS_Subset, FS_CardinalityType
    <3>6. QED
      BY <1>2, <3>3, <3>4, <3>5
  <2>5. QED
    BY <2>3, <2>4
<1>7. QED
  BY <1>4, <1>5, <1>6

-----------------------------------------------------------------------------
(* Lists. *)

\* The elements that are kept come from their places, each place from one of them.
KeepsBy(place, s, I) ==
  /\ \A k \in 1..Cardinality(I) : KeepAt(s, I)[k] = s[place[k]]
  /\ \A j, k \in 1..Cardinality(I) : place[j] = place[k] => j = k
  /\ \A i \in I : \E k \in 1..Cardinality(I) : place[k] = i

\* The elements that are kept are those at the positions, one for each of them.
LEMMA KeptElements ==
  ASSUME NEW n \in Nat, NEW I, I \subseteq 1..n, NEW s
  PROVE  /\ IsFiniteSet(I) /\ Cardinality(I) \in Nat /\ Cardinality(I) <= n
         /\ KeepAt(s, I) = [k \in 1..Cardinality(I) |-> KeepAt(s, I)[k]]
         /\ \E place \in [1..Cardinality(I) -> I] : KeepsBy(place, s, I)
<1> DEFINE Place(i) == Cardinality({j \in I : j <= i})
<1> DEFINE c == Cardinality(I)
<1> DEFINE rank == [i \in I |-> Place(i)]
<1> DEFINE place == [k \in 1..c |-> CHOOSE i \in I : Place(i) = k]
<1>1. /\ IsFiniteSet(I) /\ c \in Nat /\ c <= n
      /\ \A T \in SUBSET I : IsFiniteSet(T) /\ Cardinality(T) \in Nat /\ Cardinality(T) <= c
  <2>1. IsFiniteSet(1..n) /\ Cardinality(1..n) = n /\ I \in SUBSET (1..n)
    BY FS_Interval
  <2>2. IsFiniteSet(I) /\ Cardinality(I) <= n
    BY <2>1, FS_Subset
  <2>3. QED
    BY <2>2, FS_Subset, FS_CardinalityType
<1>2. \A i \in I : Place(i) \in 1..c
  <2> TAKE i \in I
  <2>1. {j \in I : j <= i} \in SUBSET I /\ i \in {j \in I : j <= i}
    OBVIOUS
  <2>2. Place(i) # 0
    BY <1>1, <2>1, FS_EmptySet
  <2>3. Place(i) \in Nat /\ Place(i) <= c
    BY <1>1, <2>1
  <2> HIDE DEF Place, c
  <2>4. QED
    BY <2>2, <2>3
<1>3. \A i, j \in I : i < j => Place(i) < Place(j)
  <2> SUFFICES ASSUME NEW i \in I, NEW j \in I, i < j PROVE Place(i) < Place(j)
    OBVIOUS
  <2> DEFINE A == {k \in I : k <= i}
  <2> DEFINE B == {k \in I : k <= j}
  <2>0. \A k \in I : k \in Int
    OBVIOUS
  <2>1. A \in SUBSET (B \ {j})
    <3>1. \A k \in A : k \in B /\ k # j
      BY <2>0
    <3>2. QED
      BY <3>1
  <2>2. j \in B /\ IsFiniteSet(B) /\ Cardinality(B) \in Nat /\ Cardinality(A) \in Nat
    BY <1>1
  <2>3. IsFiniteSet(B \ {j}) /\ Cardinality(B \ {j}) = Cardinality(B) - 1
    BY <2>2, FS_RemoveElement
  <2>4. Cardinality(A) <= Cardinality(B \ {j})
    BY <2>1, <2>3, FS_Subset
  <2>5. Cardinality(A) < Cardinality(B)
    BY <2>2, <2>3, <2>4
  <2>6. QED
    BY <2>5
<1> HIDE DEF Place
<1>4. \A i, j \in I : Place(i) = Place(j) => i = j
  <2> SUFFICES ASSUME NEW i \in I, NEW j \in I, Place(i) = Place(j), i # j PROVE FALSE
    OBVIOUS
  <2>1. i \in Int /\ j \in Int /\ Place(i) \in Int /\ Place(j) \in Int
    BY <1>1, <1>2
  <2>2. QED
    BY <1>3, <2>1
<1>5. rank \in Surjection(I, 1..c)
  <2>1. rank \in Injection(I, 1..c)
    BY <1>2, <1>4 DEF Injection, IsInjective
  <2>2. IsFiniteSet(1..c) /\ Cardinality(1..c) = c
    BY <1>1, FS_Interval
  <2>3. QED
    BY <2>1, <2>2, FS_Injection
<1>6. \A k \in 1..c : \E i \in I : Place(i) = k
  BY <1>5 DEF Surjection
<1>7. \A k \in 1..c : place[k] \in I /\ Place(place[k]) = k
  BY <1>6
<1>8. KeepAt(s, I) = [k \in 1..c |-> s[place[k]]]
  BY DEF KeepAt, Place
<1> HIDE DEF place
<1>9. /\ \A j, k \in 1..c : place[j] = place[k] => j = k
      /\ \A i \in I : place[Place(i)] = i
  BY <1>2, <1>4, <1>7
<1>10. place \in [1..c -> I]
  BY <1>7 DEF place
<1>11. KeepAt(s, I) = [k \in 1..c |-> KeepAt(s, I)[k]] /\ \A k \in 1..c : KeepAt(s, I)[k] = s[place[k]]
  BY <1>8
<1> HIDE DEF c, rank
<1>12. \A i \in I : \E k \in 1..c : place[k] = i
  BY <1>2, <1>9
<1>13. KeepsBy(place, s, I)
  BY <1>9, <1>11, <1>12 DEF KeepsBy, c
<1>14. QED
  BY <1>1, <1>10, <1>11, <1>13 DEF c

\* Who keeps all of a list has the list.
LEMMA KeptWhole ==
  ASSUME NEW n \in Nat, NEW s, s = [k \in 1..n |-> s[k]]
  PROVE  KeepAt(s, 1..n) = s
<1>1. Cardinality(1..n) = n
  BY FS_Interval
<1>2. ASSUME NEW i \in 1..n PROVE Cardinality({j \in 1..n : j <= i}) = i
  <2>1. {j \in 1..n : j <= i} = 1..i
    OBVIOUS
  <2>2. Cardinality(1..i) = i
    BY FS_Interval
  <2>3. QED
    BY <2>1, <2>2
<1>3. ASSUME NEW k \in 1..n
      PROVE  (CHOOSE i \in 1..n : Cardinality({j \in 1..n : j <= i}) = k) = k
  BY <1>2
<1>4. KeepAt(s, 1..n) = [k \in 1..n |-> s[k]]
  BY <1>1, <1>3 DEF KeepAt
<1>5. QED
  BY <1>4

-----------------------------------------------------------------------------
(* Publication. *)

\* References that are in the catalog, each once, and a status that is not refused are
\* all that acceptance asks.
LEMMA AcceptedWhen ==
  ASSUME NEW claim, NEW refs, NEW catalog,
         refs # <<>>, IsInjective(refs), ToSet(refs) \subseteq DOMAIN catalog,
         ~VerificationErrors(claim, VerifyClaim(claim, {catalog[r] : r \in ToSet(refs)}))
  PROVE  Accepted(claim, refs, catalog)
<1> DEFINE answer == <<[id |-> "synthesis", same |-> TRUE, refs |-> refs]>>
<1>1. DOMAIN answer = 1..1 /\ answer[1].id = "synthesis" /\ answer[1].same /\ answer[1].refs = refs
  OBVIOUS
<1> HIDE DEF answer
<1>2. \A i \in DOMAIN answer : i = 1
  BY <1>1
<1>3. {answer[i].id : i \in DOMAIN answer} = {"synthesis"}
  BY <1>1, <1>2
<1>4. Declares(answer, {"synthesis"})
  BY <1>1, <1>2, <1>3 DEF Declares
<1>5. \A i \in DOMAIN answer : ToSet(answer[i].refs) \subseteq DOMAIN catalog
  BY <1>1, <1>2
<1>6. ValidateClaimEvidence(answer, {"synthesis"}, DOMAIN catalog) = {}
  BY <1>1, <1>4, <1>5, ValidationDecides
<1>7. QED
  BY <1>6 DEF Accepted, answer

\* Only the process contradicts.
LEMMA OthersDoNotContradict ==
  ASSUME NEW claim, NEW e, e.kind # "process"
  PROVE  RelationStatus(claim, e) # "contradicted"
BY DEF RelationStatus

\* A claim that is accepted stays so when it also cites evidence that is not a process.
LEMMA AcceptedStays ==
  ASSUME NEW S, NEW claim, NEW refs \in Seq(S), NEW catalog,
         NEW r \in DOMAIN catalog \ ToSet(refs), catalog[r].kind # "process",
         Accepted(claim, refs, catalog)
  PROVE  Accepted(claim, Append(refs, r), catalog)
<1> DEFINE cited == {catalog[q] : q \in ToSet(refs)}
<1> DEFINE e == catalog[r]
<1> DEFINE more == Append(refs, r)
<1>1. /\ refs # <<>> /\ IsInjective(refs) /\ ToSet(refs) \subseteq DOMAIN catalog
      /\ ~VerificationErrors(claim, VerifyClaim(claim, cited))
  BY AcceptedSays
<1>2. refs \in Seq(S \cup {r})
  <2>1. PICK n \in Nat : refs \in [1..n -> S]
    BY SeqDef
  <2>2. refs \in [1..n -> S \cup {r}]
    BY <2>1
  <2>3. QED
    BY <2>2, SeqDef
<1>3. /\ Len(refs) \in Nat /\ DOMAIN refs = 1..Len(refs) /\ DOMAIN more = 1..(Len(refs) + 1)
      /\ more[Len(refs) + 1] = r /\ \A i \in 1..Len(refs) : more[i] = refs[i]
  BY <1>2
<1>4. ToSet(more) = ToSet(refs) \cup {r}
  <2>1. \A i \in 1..(Len(refs) + 1) : i \in 1..Len(refs) \/ i = Len(refs) + 1
    BY <1>3
  <2>2. \A i \in 1..Len(refs) : i \in 1..(Len(refs) + 1)
    BY <1>3
  <2>3. Len(refs) + 1 \in 1..(Len(refs) + 1)
    BY <1>3
  <2> HIDE DEF more
  <2>4. QED
    BY <1>3, <2>1, <2>2, <2>3 DEF ToSet
<1>5. more # <<>>
  BY <1>3
<1>6. IsInjective(more)
  <2> SUFFICES ASSUME NEW i \in DOMAIN more, NEW j \in DOMAIN more, more[i] = more[j] PROVE i = j
    BY DEF IsInjective
  <2>1. \A k \in 1..Len(refs) : refs[k] # r
    BY <1>3 DEF ToSet
  <2>2. \A k, l \in 1..Len(refs) : refs[k] = refs[l] => k = l
    BY <1>1, <1>3 DEF IsInjective
  <2>3. \A k \in DOMAIN more : k \in 1..Len(refs) \/ k = Len(refs) + 1
    BY <1>3
  <2> HIDE DEF more
  <2>4. QED
    BY <1>3, <2>1, <2>2, <2>3
<1>7. {catalog[q] : q \in ToSet(more)} = cited \cup {e}
  BY <1>4
<1>8. ~VerificationErrors(claim, VerifyClaim(claim, cited \cup {e}))
  <2> DEFINE have == UNION {x.facts : x \in cited}
  <2> DEFINE haveMore == UNION {x.facts : x \in cited \cup {e}}
  <2> DEFINE stated == UNION {x.facts : x \in {y \in cited : y.kind = "process"}}
  <2> DEFINE status == VerifyClaim(claim, cited \cup {e})
  <2> HIDE DEF cited, e
  <2>1. /\ \A x \in cited : RelationStatus(claim, x) # "contradicted"
        /\ \/ claim.facts \subseteq have
           \/ \E x \in cited : claim.text \in x.texts
    BY <1>1, GoodStatusSays
  <2>2. e.kind # "process" /\ RelationStatus(claim, e) # "contradicted"
    BY OthersDoNotContradict DEF e
  <2>3. \A x \in cited \cup {e} : RelationStatus(claim, x) # "contradicted"
    BY <2>1, <2>2
  <2>4. {y \in cited \cup {e} : y.kind = "process"} = {y \in cited : y.kind = "process"}
    BY <2>2
  <2>5. have \subseteq haveMore
    OBVIOUS
  <2>6. CASE \E x \in cited : claim.text \in x.texts
    <3>1. status = "supported"
      BY <2>3, <2>6 DEF VerifyClaim
    <3>2. QED
      BY <3>1 DEF VerificationErrors
  <2>7. CASE ~(\E x \in cited : claim.text \in x.texts) /\ claim.facts = {}
    <3>1. VerifyClaim(claim, cited) = "not_evaluated"
      BY <2>1, <2>7 DEF VerifyClaim
    <3>2. claim.class \notin MaterialClasses
      BY <1>1, <3>1 DEF VerificationErrors
    <3>3. status \in {"supported", "not_evaluated"}
      BY <2>3, <2>7 DEF VerifyClaim
    <3>4. QED
      BY <3>2, <3>3 DEF VerificationErrors
  <2>8. CASE ~(\E x \in cited : claim.text \in x.texts) /\ claim.facts # {}
    <3>1. VerifyClaim(claim, cited) # "contradicted"
      BY <1>1 DEF VerificationErrors
    <3>2. \A k \in {"amount", "count"} : ~ProcessDisagrees(claim, k, have, stated)
      BY <2>1, <2>8, <3>1 DEF VerifyClaim
    <3>3. \A k \in {"amount", "count"} : ~ProcessDisagrees(claim, k, haveMore, stated)
      BY <2>5, <3>2 DEF ProcessDisagrees
    <3>4. claim.facts \subseteq haveMore
      BY <2>1, <2>5, <2>8
    <3>5. status = "supported"
      <4>1. CASE claim.text \in e.texts
        BY <2>3, <4>1 DEF VerifyClaim
      <4>2. CASE ~(claim.text \in e.texts)
        <5>1. ~(\E x \in cited \cup {e} : claim.text \in x.texts)
          BY <2>8, <4>2
        <5>2. QED
          BY <2>3, <2>4, <2>8, <3>3, <3>4, <5>1 DEF VerifyClaim
      <4>3. QED
        BY <4>1, <4>2
    <3>6. QED
      BY <3>5 DEF VerificationErrors
  <2>9. QED
    BY <2>6, <2>7, <2>8
<1>9. ToSet(more) \subseteq DOMAIN catalog
  BY <1>1, <1>4
<1> HIDE DEF more, cited, e
<1>10. ~VerificationErrors(claim, VerifyClaim(claim, {catalog[q] : q \in ToSet(more)}))
  BY <1>7, <1>8
<1>11. Accepted(claim, more, catalog)
  BY <1>5, <1>6, <1>9, <1>10, AcceptedWhen
<1>12. QED
  BY <1>11 DEF more

\* The relations that are stored for a claim, and the places of those that are loaded.
Relations(claim, refs, catalog) ==
  [i \in DOMAIN refs |-> [ref |-> refs[i], status |-> RelationStatus(claim, catalog[refs[i]]),
                          reason |-> TRUE, digest |-> ~catalog[refs[i]].blank]]
LivePlaces(refs, live) == {i \in DOMAIN refs : refs[i] \in live}
StatusOf(claim, refs, catalog) == VerifyClaim(claim, {catalog[r] : r \in ToSet(refs)})

\* What is loaded of the rows of a claim.
LEMMA LoadedIs ==
  ASSUME NEW refs, NEW claim, NEW catalog, NEW live
  PROVE  /\ LoadClaim(StoredClaim(claim, refs, catalog), live).status = StatusOf(claim, refs, catalog)
         /\ LoadClaim(StoredClaim(claim, refs, catalog), live).reason = TRUE
         /\ LoadClaim(StoredClaim(claim, refs, catalog), live).sources
              = KeepAt(Relations(claim, refs, catalog), LivePlaces(refs, live))
<1> DEFINE sources == Relations(claim, refs, catalog)
<1> DEFINE row == StoredClaim(claim, refs, catalog)
<1> DEFINE kept == {i \in DOMAIN row.sources : row.sources[i].ref \in live}
<1>1. row = [status |-> StatusOf(claim, refs, catalog), reason |-> TRUE, sources |-> sources]
  BY DEF StoredClaim, HasDigest, StatusOf, Relations
<1>2. kept = LivePlaces(refs, live)
  BY <1>1 DEF Relations, LivePlaces
<1>3. LoadClaim(row, live) = [row EXCEPT !.sources = KeepAt(row.sources, kept)]
  BY DEF LoadClaim
<1> HIDE DEF row, kept, sources
<1>4. LoadClaim(row, live)
        = [status |-> StatusOf(claim, refs, catalog), reason |-> TRUE,
           sources |-> KeepAt(sources, kept)]
  BY <1>1, <1>3
<1>5. QED
  BY <1>2, <1>4 DEF row, sources

\* What is accepted is publishable while its sources are there, if and only if it has no
\* facts to compare or nothing that it cites is blank.
LEMMA AcceptedPublishes ==
  ASSUME NEW S, NEW claim, NEW refs \in Seq(S), NEW catalog, Accepted(claim, refs, catalog),
         \A r \in DOMAIN catalog : BlankIsEmpty(catalog[r])
  PROVE  PublishableClaim(LoadClaim(StoredClaim(claim, refs, catalog), DOMAIN catalog), refs)
           <=> claim.facts = {} \/ \A e \in {catalog[r] : r \in ToSet(refs)} : ~e.blank
<1> DEFINE cited == {catalog[r] : r \in ToSet(refs)}
<1> DEFINE sources == Relations(claim, refs, catalog)
<1> DEFINE loaded == LoadClaim(StoredClaim(claim, refs, catalog), DOMAIN catalog)
<1>1. /\ Len(refs) \in Nat /\ DOMAIN refs = 1..Len(refs) /\ refs = [i \in 1..Len(refs) |-> refs[i]]
      /\ refs # <<>> /\ ToSet(refs) \subseteq DOMAIN catalog
      /\ ~VerificationErrors(claim, VerifyClaim(claim, cited))
  <2>1. PICK n \in Nat : refs \in [1..n -> S]
    BY SeqDef
  <2>2. Len(refs) = n /\ DOMAIN refs = 1..n /\ refs = [i \in 1..n |-> refs[i]]
    BY <2>1
  <2>3. refs # <<>> /\ ToSet(refs) \subseteq DOMAIN catalog
    BY AcceptedSays
  <2>4. ~VerificationErrors(claim, VerifyClaim(claim, cited))
    BY AcceptedSays
  <2> HIDE DEF cited
  <2>5. QED
    BY <2>2, <2>3, <2>4
<1>2. /\ \A i \in 1..Len(refs) : refs[i] \in DOMAIN catalog /\ catalog[refs[i]] \in cited
      /\ \A e \in cited : \E i \in 1..Len(refs) : e = catalog[refs[i]]
      /\ Len(refs) >= 1
  BY <1>1 DEF ToSet
<1>3. LivePlaces(refs, DOMAIN catalog) = 1..Len(refs)
  BY <1>1, <1>2 DEF LivePlaces
<1>4. /\ loaded.status = VerifyClaim(claim, cited) /\ loaded.reason = TRUE
      /\ loaded.sources = KeepAt(sources, 1..Len(refs))
  <2>1. StatusOf(claim, refs, catalog) = VerifyClaim(claim, cited)
    BY DEF StatusOf
  <2> HIDE DEF cited
  <2>2. QED
    BY <1>3, <2>1, LoadedIs
<1>5. KeepAt(sources, 1..Len(refs)) = sources
  <2>1. sources = [k \in 1..Len(refs) |-> sources[k]]
    BY <1>1 DEF Relations
  <2> HIDE DEF sources
  <2>2. QED
    BY <1>1, <2>1, KeptWhole
<1>6. /\ \A e \in cited : RelationStatus(claim, e) # "contradicted"
      /\ VerifyClaim(claim, cited) # "contradicted"
  BY <1>1, GoodStatusSays DEF VerificationErrors
<1>7. Evaluated(VerifyClaim(claim, cited)) =>
        \E i \in 1..Len(refs) : Evaluated(RelationStatus(claim, catalog[refs[i]]))
  <2> SUFFICES ASSUME Evaluated(VerifyClaim(claim, cited))
               PROVE  \E e \in cited : Evaluated(RelationStatus(claim, e))
    BY <1>2
  <2> HIDE DEF cited
  <2>1. CASE \E e \in cited : claim.text \in e.texts
    <3>1. PICK e \in cited : claim.text \in e.texts
      BY <2>1
    <3>2. RelationStatus(claim, e) = "supported"
      BY <3>1 DEF RelationStatus
    <3>3. QED
      BY <3>2 DEF Evaluated
  <2>2. CASE ~(\E e \in cited : claim.text \in e.texts)
    <3>1. claim.facts # {}
      BY <1>6, <2>2 DEF VerifyClaim, Evaluated
    <3>2. PICK e : e \in cited
      BY <1>2 DEF cited
    <3>3. RelationStatus(claim, e) # "not_evaluated"
      BY <2>2, <3>1, <3>2 DEF RelationStatus
    <3>4. QED
      BY <3>2, <3>3 DEF Evaluated
  <2>3. QED
    BY <2>1, <2>2
<1> HIDE DEF loaded, cited
<1>8. /\ DOMAIN loaded.sources = 1..Len(refs)
      /\ \A i \in 1..Len(refs) : /\ loaded.sources[i].ref = refs[i]
                                 /\ loaded.sources[i].status = RelationStatus(claim, catalog[refs[i]])
                                 /\ loaded.sources[i].reason = TRUE
                                 /\ loaded.sources[i].digest = ~catalog[refs[i]].blank
  <2>1. loaded.sources = sources
    BY <1>4, <1>5
  <2>2. QED
    BY <1>1, <2>1 DEF Relations
<1> HIDE DEF sources
<1>9. ClaimMetadata(loaded)
  BY <1>4, <1>6 DEF ClaimMetadata
<1>10. [i \in DOMAIN loaded.sources |-> loaded.sources[i].ref] = refs
  BY <1>1, <1>8
<1>11. loaded.sources # <<>>
  BY <1>2, <1>8
<1>12. Evaluated(loaded.status) => \E i \in DOMAIN loaded.sources : Evaluated(loaded.sources[i].status)
  BY <1>4, <1>7, <1>8
<1>13. PublishableClaim(loaded, refs) <=> \A i \in 1..Len(refs) : SourceMetadata(loaded.sources[i])
  BY <1>8, <1>9, <1>10, <1>11, <1>12 DEF PublishableClaim
<1>14. ASSUME NEW i \in 1..Len(refs)
       PROVE  SourceMetadata(loaded.sources[i]) <=> claim.facts = {} \/ ~catalog[refs[i]].blank
  <2> DEFINE e == catalog[refs[i]]
  <2>1. /\ refs[i] \in DOMAIN catalog /\ e \in cited
        /\ loaded.sources[i].status = RelationStatus(claim, e)
        /\ loaded.sources[i].reason = TRUE /\ loaded.sources[i].digest = ~e.blank
    BY <1>2, <1>8
  <2>2. BlankIsEmpty(e) /\ RelationStatus(claim, e) # "contradicted"
    BY <1>6, <2>1
  <2> HIDE DEF e
  <2>3. SourceMetadata(loaded.sources[i]) <=> RelationStatus(claim, e) = "not_evaluated" \/ ~e.blank
    BY <2>1, <2>2 DEF SourceMetadata, Evaluated
  <2>4. CASE e.blank
    <3>1. e.facts = {} /\ e.texts = {}
      BY <2>2, <2>4 DEF BlankIsEmpty
    <3>2. RelationStatus(claim, e) = "not_evaluated" <=> claim.facts = {}
      BY <3>1 DEF RelationStatus
    <3>3. QED
      BY <2>3, <2>4, <3>2 DEF e
  <2>5. CASE ~e.blank
    BY <2>3, <2>5 DEF e
  <2>6. QED
    BY <2>4, <2>5
<1>15. (\A e \in cited : ~e.blank) <=> \A i \in 1..Len(refs) : ~catalog[refs[i]].blank
  BY <1>2
<1>16. Len(refs) \in Nat /\ 1 \in 1..Len(refs)
  BY <1>1, <1>2
<1>17. PublishableClaim(loaded, refs) <=> claim.facts = {} \/ \A e \in cited : ~e.blank
  BY <1>13, <1>14, <1>15, <1>16
<1>18. QED
  BY <1>17 DEF loaded, cited

\* What has lost a source is not published.
LEMMA LostSourceBlocks ==
  ASSUME NEW S, NEW claim, NEW refs \in Seq(S), NEW catalog, NEW live,
         NEW r \in ToSet(refs), r \notin live
  PROVE  ~PublishableClaim(LoadClaim(StoredClaim(claim, refs, catalog), live), refs)
<1> DEFINE kept == LivePlaces(refs, live)
<1> DEFINE loaded == LoadClaim(StoredClaim(claim, refs, catalog), live)
<1>1. Len(refs) \in Nat /\ DOMAIN refs = 1..Len(refs)
  OBVIOUS
<1>2. PICK lost \in 1..Len(refs) : refs[lost] = r
  BY <1>1 DEF ToSet
<1>0. lost \notin kept /\ kept \in SUBSET (1..Len(refs))
  BY <1>1, <1>2 DEF LivePlaces
<1>3. IsFiniteSet(1..Len(refs)) /\ Cardinality(1..Len(refs)) = Len(refs)
      /\ kept \in SUBSET (1..Len(refs)) /\ kept # 1..Len(refs)
  <2>1. IsFiniteSet(1..Len(refs)) /\ Cardinality(1..Len(refs)) = Len(refs)
    BY <1>1, FS_Interval
  <2>2. QED
    BY <1>0, <1>2, <2>1
<1>4. Cardinality(kept) # Len(refs)
  BY <1>3, FS_Subset
<1>5. Cardinality(kept) \in Nat
  BY <1>3, FS_Subset, FS_CardinalityType
<1> DEFINE sources == Relations(claim, refs, catalog)
<1>6. loaded.sources = KeepAt(sources, kept)
  BY LoadedIs
<1>7. DOMAIN loaded.sources = 1..Cardinality(kept)
  BY <1>6 DEF KeepAt
<1> HIDE DEF loaded, kept
<1>8. 1..Cardinality(kept) # 1..Len(refs)
  <2>1. Cardinality(1..Cardinality(kept)) = Cardinality(kept)
    BY <1>5, FS_Interval
  <2>2. QED
    BY <1>3, <1>4, <2>1
<1>9. [i \in DOMAIN loaded.sources |-> loaded.sources[i].ref] # refs
  BY <1>1, <1>7, <1>8
<1>10. ~PublishableClaim(loaded, refs)
  BY <1>9 DEF PublishableClaim
<1>11. QED
  BY <1>10 DEF loaded

\* For claims with any facts that cite any number of sources, publication follows the
\* evidence.
THEOREM PublicationForAnyInput ==
  AnyClaim => PublicationFollowsEvidence
<1> SUFFICES ASSUME AnyClaim PROVE PublicationFollowsEvidence
  OBVIOUS
<1>1. ASSUME ClaimIsAccepted
      PROVE  /\ \E S : case.refs \in Seq(S)
             /\ {"m", "n"} \subseteq DOMAIN case.catalog
             /\ case.catalog["m"].kind # "process" /\ case.catalog["n"].kind # "process"
             /\ Accepted(case.claim, case.refs, case.catalog)
             /\ \A r \in DOMAIN case.catalog : BlankIsEmpty(case.catalog[r])
  BY <1>1 DEF ClaimIsAccepted, AnyClaim
<1>2. AcceptedIsPublishable
  <2> SUFFICES ASSUME ClaimIsAccepted
               PROVE  PublishableClaim(LoadClaim(StoredClaim(case.claim, case.refs, case.catalog),
                                                 DOMAIN case.catalog), case.refs)
                        <=> case.claim.facts = {} \/ \A e \in Cited : ~e.blank
    BY DEF AcceptedIsPublishable
  <2>1. QED
    BY <1>1, AcceptedPublishes DEF Cited
<1>3. LostSourceIsSeen
  <2> SUFFICES ASSUME ClaimIsAccepted, NEW r \in ToSet(case.refs)
               PROVE  ~PublishableClaim(LoadClaim(StoredClaim(case.claim, case.refs, case.catalog),
                                                  DOMAIN case.catalog \ {r}), case.refs)
    BY DEF LostSourceIsSeen
  <2>1. r \notin DOMAIN case.catalog \ {r}
    OBVIOUS
  <2>2. QED
    BY <1>1, <2>1, LostSourceBlocks
<1>4. MoreEvidenceNeverHurts
  <2> SUFFICES ASSUME ClaimIsAccepted, NEW r \in {"m", "n"} \ ToSet(case.refs)
               PROVE  Accepted(case.claim, Append(case.refs, r), case.catalog)
    BY DEF MoreEvidenceNeverHurts
  <2>1. r \in DOMAIN case.catalog \ ToSet(case.refs) /\ case.catalog[r].kind # "process"
    BY <1>1
  <2>2. QED
    BY <1>1, <2>1, AcceptedStays
<1>5. QED
  BY <1>2, <1>3, <1>4 DEF PublicationFollowsEvidence

-----------------------------------------------------------------------------
(* Recursion and sums. *)

\* What holds of 0, and of every number up to n when it holds of the one before, holds of
\* all numbers up to n.
LEMMA ReachesAll ==
  ASSUME NEW n \in Nat, NEW S, 0 \in S, \A i \in 1..n : i - 1 \in S => i \in S
  PROVE  \A i \in 0..n : i \in S
<1> DEFINE T == (0..n) \ S
<1> SUFFICES ASSUME T # {} PROVE FALSE
  OBVIOUS
<1>1. T \subseteq Nat
  OBVIOUS
<1>2. PICK m \in T : \A k \in T : m <= k
  BY <1>1, LeastExists
<1>3. m \in 1..n /\ m - 1 \in 0..n /\ m \notin S
  BY <1>2
<1>4. m - 1 \in T
  BY <1>3
<1>5. QED
  BY <1>2, <1>3, <1>4

\* The function f starts with first, and next gives its values up to n one from the other.
Stepwise(f, first, next, n) == f[0] = first /\ \A i \in 1..n : f[i] = next[i][f[i - 1]]

\* A function on 0..n that is given by its first value and by how each follows from the
\* one before exists.
LEMMA StepwiseExists ==
  ASSUME NEW n \in Nat, NEW V, NEW first \in V, NEW next,
         \A i \in 1..n : \A v \in V : next[i][v] \in V
  PROVE  \E f \in [0..n -> V] : Stepwise(f, first, next, n)
<1> DEFINE Upto(m, f) == Stepwise(f, first, next, m)
<1> DEFINE S == {m \in 0..n : \E f \in [0..m -> V] : Upto(m, f)}
<1>1. 0 \in S
  <2> DEFINE f == [i \in 0..0 |-> first]
  <2>1. f \in [0..0 -> V] /\ Upto(0, f) /\ 0 \in 0..n
    BY DEF Stepwise
  <2> HIDE DEF f, Upto
  <2>2. QED
    BY <2>1
<1>2. ASSUME NEW m \in 1..n, m - 1 \in S PROVE m \in S
  <2>1. PICK f \in [0..(m - 1) -> V] : Upto(m - 1, f)
    BY <1>2
  <2> DEFINE g == [i \in 0..m |-> IF i = m THEN next[m][f[m - 1]] ELSE f[i]]
  <2>2. m - 1 \in 0..(m - 1) /\ f[m - 1] \in V
    OBVIOUS
  <2>3. next[m][f[m - 1]] \in V
    BY <2>2
  <2>4. \A i \in 0..m : i # m => i \in 0..(m - 1)
    OBVIOUS
  <2>5. g \in [0..m -> V]
    BY <2>3, <2>4
  <2>6. ASSUME NEW i \in 1..m PROVE g[i] = next[i][g[i - 1]]
    <3>1. i - 1 \in 0..m /\ i - 1 # m /\ g[i - 1] = f[i - 1]
      OBVIOUS
    <3>2. CASE i = m
      BY <3>1, <3>2
    <3>3. CASE i # m
      <4>1. i \in 1..(m - 1) /\ g[i] = f[i]
        BY <3>3
      <4>2. QED
        BY <2>1, <3>1, <4>1 DEF Stepwise
    <3>4. QED
      BY <3>2, <3>3
  <2>7. g[0] = first
    BY <2>1 DEF Stepwise
  <2>8. Upto(m, g)
    BY <2>6, <2>7 DEF Stepwise
  <2>9. m \in 0..n
    OBVIOUS
  <2> HIDE DEF g, Upto
  <2>10. QED
    BY <2>5, <2>8, <2>9
<1>3. n \in S
  <2> HIDE DEF S
  <2>1. \A i \in 1..n : i - 1 \in S => i \in S
    BY <1>2
  <2>2. \A i \in 0..n : i \in S
    BY <1>1, <2>1, ReachesAll
  <2>3. QED
    BY <2>2
<1>4. QED
  BY <1>3

\* The running totals of numbers are numbers, and follow from each other.
LEMMA TotalsFollow ==
  ASSUME NEW s \in Seq(Nat)
  PROVE  /\ RunningTotals(s) \in [0..Len(s) -> Nat]
         /\ RunningTotals(s)[0] = 0
         /\ \A i \in 1..Len(s) : RunningTotals(s)[i] = RunningTotals(s)[i - 1] + s[i]
<1> DEFINE n == Len(s)
<1> DEFINE Is(f) == f = [i \in 0..n |-> IF i = 0 THEN 0 ELSE f[i - 1] + s[i]]
<1> DEFINE adds == [i \in 1..n |-> [v \in Nat |-> v + s[i]]]
<1>1. n \in Nat /\ \A i \in 1..n : s[i] \in Nat
  OBVIOUS
<1>2. \A i \in 1..n : \A v \in Nat : adds[i][v] = v + s[i] /\ adds[i][v] \in Nat
  BY <1>1
<1> HIDE DEF n, adds
<1>3. PICK f \in [0..n -> Nat] : Stepwise(f, 0, adds, n)
  <2>0. 0 \in Nat
    OBVIOUS
  <2>1. \A i \in 1..n : \A v \in Nat : adds[i][v] \in Nat
    BY <1>2
  <2>2. QED
    BY <1>1, <2>0, <2>1, StepwiseExists
<1>4. \A i \in 1..n : i - 1 \in 0..n /\ f[i] = f[i - 1] + s[i]
  <2> TAKE i \in 1..n
  <2>1. i - 1 \in 0..n
    BY <1>1
  <2>2. f[i - 1] \in Nat /\ f[i] = adds[i][f[i - 1]]
    BY <1>3, <2>1 DEF Stepwise
  <2>3. QED
    BY <1>2, <2>1, <2>2
<1>5. Is(f)
  <2>1. \A i \in 0..n : f[i] = IF i = 0 THEN 0 ELSE f[i - 1] + s[i]
    BY <1>1, <1>3, <1>4 DEF Stepwise
  <2>2. QED
    BY <1>3, <2>1
<1>6. RunningTotals(s) = CHOOSE f2 : Is(f2)
  BY DEF RunningTotals, n
<1>7. Is(RunningTotals(s))
  BY <1>5, <1>6
<1> DEFINE S == {i \in 0..n : RunningTotals(s)[i] \in Nat}
<1>8. 0 \in S
  BY <1>1, <1>7
<1>9. \A i \in 1..n : RunningTotals(s)[i] = RunningTotals(s)[i - 1] + s[i]
  BY <1>1, <1>7
<1>10. \A i \in 1..n : i - 1 \in S => i \in S
  BY <1>1, <1>9
<1> HIDE DEF S
<1>11. \A i \in 0..n : i \in S
  BY <1>1, <1>8, <1>10, ReachesAll
<1>12. RunningTotals(s) \in [0..n -> Nat]
  BY <1>7, <1>11 DEF S
<1>13. RunningTotals(s)[0] = 0
  BY <1>1, <1>7
<1>14. QED
  BY <1>9, <1>12, <1>13 DEF n

-----------------------------------------------------------------------------
(* The borders. *)

\* The addresses of an answer and the chunks of a body come in any number.
AnyConnection ==
  case.part = "connection" => \E n \in Nat : DOMAIN case.answers[1] = 1..n
AnyBody == case.part = "body" => case.request.chunks \in Seq(Nat)

\* The proxy connects only to an address of the answer it looked at, one that is global.
LEMMA ReachesOnlyPublic ==
  ASSUME NEW n \in Nat, NEW resolutions, DOMAIN resolutions[1] = 1..n, NEW up,
         NEW a \in OpenPublicConnection(resolutions, up).to
  PROVE  a.global /\ a.id \in up /\ a \in ToSet(resolutions[1])
<1> DEFINE answer == resolutions[1]
<1>1. CASE answer = <<>>
  BY <1>1 DEF OpenPublicConnection, Rejected
<1>2. CASE answer # <<>> /\ ~AnswerIsPublic(answer)
  BY <1>2 DEF OpenPublicConnection, Rejected
<1>3. CASE answer # <<>> /\ AnswerIsPublic(answer)
  <2> DEFINE reached == {i \in DOMAIN answer : answer[i].id \in up}
  <2> DEFINE first == CHOOSE i \in reached : \A j \in reached : i <= j
  <2>1. a \in FirstReachable(answer, up).to
    BY <1>3 DEF OpenPublicConnection
  <2>2. reached # {} /\ a = answer[first]
    BY <2>1 DEF FirstReachable, Rejected
  <2>3. reached \subseteq Nat
    OBVIOUS
  <2>4. \E i \in reached : \A j \in reached : i <= j
    BY <2>2, <2>3, LeastExists
  <2>5. first \in reached
    BY <2>4
  <2>6. first \in DOMAIN answer /\ answer[first].id \in up /\ answer[first].global
    BY <1>3, <2>5 DEF AnswerIsPublic
  <2> HIDE DEF first, reached
  <2>7. QED
    BY <2>2, <2>6 DEF ToSet
<1>4. QED
  BY <1>1, <1>2, <1>3

\* What a limited body hands on is within the limit, and all of it unless it is refused.
LEMMA ReceivesWithin ==
  ASSUME NEW chunks \in Seq(Nat), NEW limit \in Nat
  PROVE  /\ ReceiveLimited(chunks, limit).taken <= limit
         /\ ReceiveLimited(chunks, limit).whole => ReceiveLimited(chunks, limit).taken = SumOf(chunks)
<1> DEFINE received == RunningTotals(chunks)
<1> DEFINE over == {i \in 1..Len(chunks) : received[i] > limit}
<1> DEFINE first == CHOOSE i \in over : \A j \in over : i <= j
<1>1. /\ Len(chunks) \in Nat
      /\ \A i \in 0..Len(chunks) : received[i] \in Nat
      /\ received[0] = 0
  BY TotalsFollow
<1> HIDE DEF received
<1>2. CASE over = {}
  <2>1. ReceiveLimited(chunks, limit) = [whole |-> TRUE, taken |-> received[Len(chunks)]]
    BY <1>2 DEF ReceiveLimited, received
  <2>2. Len(chunks) \in 0..Len(chunks) /\ (Len(chunks) = 0 \/ Len(chunks) \in 1..Len(chunks))
    BY <1>1
  <2>3. received[Len(chunks)] <= limit
    BY <1>1, <1>2, <2>2
  <2>4. received[Len(chunks)] = SumOf(chunks)
    BY DEF SumOf, received
  <2>5. QED
    BY <2>1, <2>3, <2>4
<1>3. CASE over # {}
  <2>1. ReceiveLimited(chunks, limit) = [whole |-> FALSE, taken |-> received[first - 1]]
    BY <1>3 DEF ReceiveLimited, received
  <2>2. over \subseteq Nat
    OBVIOUS
  <2>3. \E i \in over : \A j \in over : i <= j
    BY <1>3, <2>2, LeastExists
  <2>4. first \in over /\ \A j \in over : first <= j
    BY <2>3
  <2> HIDE DEF first
  <2>5. first \in 1..Len(chunks) /\ first - 1 \in 0..Len(chunks)
    BY <1>1, <2>4
  <2>6. first - 1 \notin over
    BY <2>4, <2>5
  <2>7. received[first - 1] <= limit
    <3>1. CASE first = 1
      BY <1>1, <3>1
    <3>2. CASE first # 1
      <4>1. first - 1 \in 1..Len(chunks)
        BY <2>5, <3>2
      <4>2. QED
        BY <1>1, <2>5, <2>6, <4>1
    <3>3. QED
      BY <3>1, <3>2
  <2>8. QED
    BY <2>1, <2>7
<1>4. QED
  BY <1>2, <1>3

\* For answers of any length, and bodies of any length in any pieces, the borders hold.
THEOREM BordersForAnyInput ==
  AnyConnection /\ AnyBody => BordersHold
<1> SUFFICES ASSUME AnyConnection, AnyBody PROVE BordersHold
  OBVIOUS
<1>1. ConnectedIsChecked
  <2> SUFFICES ASSUME case.part = "connection",
                      NEW a \in HandleClient(case.request, {"judit"}, case.answers, case.up).to
               PROVE  /\ a.global /\ a.id \in case.up /\ a \in ToSet(case.answers[1])
                      /\ case.request.target.host = "judit" /\ case.request.target.port = 443
    BY DEF ConnectedIsChecked
  <2> DEFINE request == case.request
  <2> DEFINE refused == \/ ~request.readable \/ request.method # "CONNECT"
                        \/ ~TargetIsValid(request.target) \/ request.target.host \notin {"judit"}
  <2>1. CASE refused
    BY <2>1 DEF HandleClient, Rejected
  <2>2. CASE ~refused
    <3>1. a \in OpenPublicConnection(case.answers, case.up).to
      BY <2>2 DEF HandleClient
    <3>2. PICK n \in Nat : DOMAIN case.answers[1] = 1..n
      BY DEF AnyConnection
    <3>3. a.global /\ a.id \in case.up /\ a \in ToSet(case.answers[1])
      BY <3>1, <3>2, ReachesOnlyPublic
    <3>4. QED
      BY <2>2, <3>3 DEF TargetIsValid
  <2>3. QED
    BY <2>1, <2>2
<1>2. BodyIsBounded
  <2> SUFFICES ASSUME case.part = "body", case.request.method = "POST"
               PROVE  /\ LimitBody(case.request, 3).taken <= 3
                      /\ LimitBody(case.request, 3).status = 200
                           => LimitBody(case.request, 3).taken = SumOf(case.request.chunks)
    BY DEF BodyIsBounded, BodyLimit
  <2> DEFINE received == ReceiveLimited(case.request.chunks, 3)
  <2>1. /\ received.taken <= 3
        /\ received.whole => received.taken = SumOf(case.request.chunks)
    BY ReceivesWithin DEF AnyBody
  <2> HIDE DEF received
  <2>2. \/ LimitBody(case.request, 3) \in {NotTaken(400), NotTaken(413)}
        \/ LimitBody(case.request, 3) = [status |-> IF received.whole THEN 200 ELSE 413, taken |-> received.taken]
    BY DEF LimitBody, received
  <2>3. QED
    BY <2>1, <2>2 DEF NotTaken
<1>3. QED
  BY <1>1, <1>2 DEF BordersHold

-----------------------------------------------------------------------------
(* The intake. *)

\* A request that is rejected explicitly was not carried out; a timeout of the server and
\* a limit of rate leave it open.
AnyReply ==
  case.part = "reply" =>
    /\ case.reply.status \in Nat
    /\ case.reply.sent /\ case.reply.status \in (400..499) \ {408, 429} => ~case.acted

\* Two answers on one process, of any length, that differ in one movement.
AnyMovements ==
  case.part = "movements" =>
    /\ \E n \in Nat : DOMAIN case.steps = 1..n
    /\ case.steps = [i \in DOMAIN case.steps |-> [id |-> case.steps[i].id, wellFormed |-> case.steps[i].wellFormed]]
    /\ case.broken \in DOMAIN case.steps /\ case.steps[case.broken].id = case.broken

\* Metadata of two origins for the same fields, with any subjects.
AnyMetadata ==
  case.part = "metadata" =>
    /\ case.process = [secrecy |-> case.process.secrecy, scalars |-> case.process.scalars,
                       subjects |-> case.process.subjects]
    /\ case.process.scalars = [f \in DOMAIN case.official.scalars |-> case.process.scalars[f]]
    /\ "class" \in DOMAIN case.official.scalars
    /\ \E n \in Nat : DOMAIN case.process.subjects = 1..n
    /\ \E n \in Nat : DOMAIN case.official.subjects = 1..n

\* Only what was rejected explicitly may be asked for again.
LEMMA RepeatedWasRejected ==
  ASSUME NEW reply, reply.status \in Nat, CreateRequest(reply).again
  PROVE  reply.sent /\ reply.status >= 400 /\ ExplicitRejection(reply.status)
<1> DEFINE answer == ProviderRequest(reply, {201}, FALSE)
<1>1. \A code : ~ProviderError(code, FALSE).again
  BY DEF ProviderError
<1>2. answer.again
  BY <1>1 DEF CreateRequest, WithIdentifier
<1>3. ~Answered("nothing").again /\ ~Answered(reply.body).again
  BY DEF Answered
<1>4. CASE ~reply.sent
  <2>1. answer = ProviderError("transport_error", FALSE)
    BY <1>4 DEF ProviderRequest
  <2>2. QED
    BY <1>1, <1>2, <2>1
<1>5. CASE reply.sent /\ reply.status >= 400
  <2>1. CASE ExplicitRejection(reply.status)
    BY <1>5, <2>1
  <2>2. CASE ~ExplicitRejection(reply.status)
    <3>1. ExplicitRejection(reply.status) = FALSE
      BY <2>2 DEF ExplicitRejection
    <3>2. ~(reply.status < 400) /\ reply.status \notin {201}
      BY <1>5
    <3>3. answer = ProviderError("http", ExplicitRejection(reply.status))
      BY <1>5, <3>2, Zenon DEF ProviderRequest
    <3>4. answer = ProviderError("http", FALSE)
      BY <3>1, <3>3
    <3>5. QED
      BY <1>1, <1>2, <3>4
  <2>3. QED
    BY <2>1, <2>2
<1>6. CASE reply.sent /\ ~(reply.status >= 400)
  <2>1. reply.status < 400
    BY <1>6
  <2>2. \/ answer = ProviderError("http", FALSE)
        \/ answer = Answered("nothing")
        \/ answer = ProviderError("response_too_large", FALSE)
        \/ answer = ProviderError("invalid_response", FALSE)
        \/ answer = Answered(reply.body)
    BY <1>6, <2>1 DEF ProviderRequest
  <2>3. QED
    BY <1>1, <1>2, <1>3, <2>2
<1>7. QED
  BY <1>4, <1>5, <1>6

\* Events that are taken for an answer have a request, and not a tracking's reference.
LEMMA TakenHasRequest ==
  ASSUME NEW body, ParseEvent(body).accepted,
         ParseEvent(body).lawsuit \/ ParseEvent(body).completed
  PROVE  /\ ParseEvent(body).request # "none"
         /\ body.about = "tracking" => ParseEvent(body).request = body.request
         /\ ~(ParseEvent(body).lawsuit /\ ParseEvent(body).completed)
<1>1. RequestOf(body) # "none"
  BY DEF ParseEvent
<1>2. body.about = "tracking" => RequestOf(body) = body.request
  BY <1>1 DEF RequestOf
<1>3. ~(IsLawsuit(body) /\ RequestCompleted(body))
  BY DEF IsLawsuit, RequestCompleted
<1>4. QED
  BY <1>1, <1>2, <1>3 DEF ParseEvent

\* What is kept of a list of movements says which place each well-formed one has.
LEMMA NumberedAre ==
  ASSUME NEW n \in Nat, NEW steps, DOMAIN steps = 1..n
  PROVE  ToSet(NumberSteps(steps))
           = {[number |-> i, id |-> steps[i].id] : i \in {k \in 1..n : steps[k].wellFormed}}
<1> DEFINE I == {k \in DOMAIN steps : steps[k].wellFormed}
<1> DEFINE numbered == [i \in DOMAIN steps |-> [number |-> i, id |-> steps[i].id]]
<1>1. NumberSteps(steps) = KeepAt(numbered, I)
  BY DEF NumberSteps
<1>2. I \subseteq 1..n
  OBVIOUS
<1>3. \A i \in I : numbered[i] = [number |-> i, id |-> steps[i].id]
  OBVIOUS
<1> HIDE DEF numbered, I
<1>4. KeepAt(numbered, I) = [k \in 1..Cardinality(I) |-> KeepAt(numbered, I)[k]]
  BY <1>2, KeptElements
<1>5. PICK place \in [1..Cardinality(I) -> I] : KeepsBy(place, numbered, I)
  BY <1>2, KeptElements
<1>6. \A k \in 1..Cardinality(I) : \E i \in I : KeepAt(numbered, I)[k] = [number |-> i, id |-> steps[i].id]
  BY <1>3, <1>5 DEF KeepsBy
<1>7. \A i \in I : \E k \in 1..Cardinality(I) : KeepAt(numbered, I)[k] = [number |-> i, id |-> steps[i].id]
  BY <1>3, <1>5 DEF KeepsBy
<1>8. ToSet(KeepAt(numbered, I)) = {KeepAt(numbered, I)[k] : k \in 1..Cardinality(I)}
  BY <1>4 DEF ToSet
<1>9. {KeepAt(numbered, I)[k] : k \in 1..Cardinality(I)} = {[number |-> i, id |-> steps[i].id] : i \in I}
  <2> DEFINE L == {KeepAt(numbered, I)[k] : k \in 1..Cardinality(I)}
  <2> DEFINE R == {[number |-> i, id |-> steps[i].id] : i \in I}
  <2>1. ASSUME NEW x \in L PROVE x \in R
    <3>1. PICK k \in 1..Cardinality(I) : x = KeepAt(numbered, I)[k]
      OBVIOUS
    <3>2. PICK i \in I : x = [number |-> i, id |-> steps[i].id]
      BY <1>6, <3>1
    <3>3. QED
      BY <3>2
  <2>2. \A x \in R : x \in L
    BY <1>7
  <2> HIDE DEF L, R
  <2>3. L = R
    BY <2>1, <2>2
  <2>4. QED
    BY <2>3 DEF L, R
<1>10. QED
  BY <1>1, <1>8, <1>9 DEF I

\* The names that stand in a list of subjects, and the list of each once.
Named(s) == {s[i] : i \in DOMAIN s} \ {"none"}
Distinct(s) == KeepAt(s, {i \in FirstPositions(s) : s[i] # "none"})

\* The list of each once has the same names, each once.
LEMMA DistinctHas ==
  ASSUME NEW n \in Nat, NEW s, DOMAIN s = 1..n
  PROVE  /\ Named(Distinct(s)) = Named(s) /\ "none" \notin {Distinct(s)[k] : k \in DOMAIN Distinct(s)}
         /\ \E c \in Nat : DOMAIN Distinct(s) = 1..c /\ Distinct(s) = [k \in 1..c |-> Distinct(s)[k]]
         /\ \A j, k \in DOMAIN Distinct(s) : Distinct(s)[j] = Distinct(s)[k] => j = k
<1> DEFINE I == {i \in FirstPositions(s) : s[i] # "none"}
<1> DEFINE t == Distinct(s)
<1> DEFINE c == Cardinality(I)
<1>1. I \subseteq 1..n /\ t = KeepAt(s, I)
  BY DEF Distinct, FirstPositions
<1>2. \A i, j \in I : s[i] = s[j] => i = j
  <2> SUFFICES ASSUME NEW i \in I, NEW j \in I, s[i] = s[j] PROVE i = j
    OBVIOUS
  <2>1. i \in Int /\ j \in Int /\ i >= 1 /\ j >= 1
    BY <1>1
  <2>2. ~(i < j) /\ ~(j < i)
    BY <2>1 DEF FirstPositions
  <2>3. QED
    BY <2>1, <2>2
<1>3. \A i \in 1..n : s[i] # "none" => \E j \in I : s[j] = s[i]
  <2> SUFFICES ASSUME NEW i \in 1..n, s[i] # "none" PROVE \E j \in I : s[j] = s[i]
    OBVIOUS
  <2> DEFINE same == {k \in 1..n : s[k] = s[i]}
  <2>1. same \subseteq Nat /\ same # {}
    OBVIOUS
  <2>2. PICK j \in same : \A k \in same : j <= k
    BY <2>1, LeastExists
  <2>3. \A k \in 1..(j - 1) : k \in 1..n /\ k \notin same
    BY <2>2
  <2>4. j \in FirstPositions(s)
    BY <2>2, <2>3 DEF FirstPositions
  <2>5. QED
    BY <2>2, <2>4
<1>4. \A i \in I : s[i] # "none" /\ i \in 1..n
  BY <1>1
<1> HIDE DEF I, t
<1>5. c \in Nat /\ t = [k \in 1..c |-> t[k]]
  BY <1>1, KeptElements
<1>6. PICK place \in [1..c -> I] :
        /\ \A k \in 1..c : t[k] = s[place[k]]
        /\ \A j, k \in 1..c : place[j] = place[k] => j = k
        /\ \A i \in I : \E k \in 1..c : place[k] = i
  <2>1. PICK place \in [1..c -> I] : KeepsBy(place, s, I)
    BY <1>1, KeptElements
  <2>2. QED
    BY <1>1, <2>1 DEF KeepsBy
<1> HIDE DEF c
<1>7. DOMAIN t = 1..c
  BY <1>5
<1>8. \A k \in 1..c : t[k] # "none" /\ \E i \in 1..n : t[k] = s[i]
  BY <1>4, <1>6
<1>9. \A i \in 1..n : s[i] # "none" => \E k \in 1..c : t[k] = s[i]
  BY <1>3, <1>6
<1>10. Named(t) = Named(s)
  <2>1. \A x \in Named(t) : x \in Named(s)
    BY <1>7, <1>8 DEF Named
  <2>2. \A x \in Named(s) : x \in Named(t)
    BY <1>7, <1>9 DEF Named
  <2>3. QED
    BY <2>1, <2>2
<1>11. \A j, k \in 1..c : t[j] = t[k] => j = k
  BY <1>2, <1>6
<1>12. "none" \notin {t[k] : k \in DOMAIN t}
  BY <1>7, <1>8
<1>13. \E m \in Nat : DOMAIN t = 1..m /\ t = [k \in 1..m |-> t[k]]
  BY <1>5, <1>7
<1>14. \A j, k \in DOMAIN t : t[j] = t[k] => j = k
  BY <1>7, <1>11
<1>15. QED
  BY <1>10, <1>12, <1>13, <1>14 DEF t

\* Doing it again changes nothing.
LEMMA DistinctAgain ==
  ASSUME NEW n \in Nat, NEW s, DOMAIN s = 1..n
  PROVE  Distinct(Distinct(s)) = Distinct(s)
<1> DEFINE t == Distinct(s)
<1>1. PICK c \in Nat : DOMAIN t = 1..c /\ t = [k \in 1..c |-> t[k]]
  BY DistinctHas
<1>2. /\ \A k \in 1..c : t[k] # "none"
      /\ \A j, k \in 1..c : t[j] = t[k] => j = k
  BY <1>1, DistinctHas
<1> HIDE DEF t
<1>3. \A i \in 1..c : \A k \in 1..(i - 1) : t[k] # t[i]
  <2> SUFFICES ASSUME NEW i \in 1..c, NEW k \in 1..(i - 1) PROVE t[k] # t[i]
    OBVIOUS
  <2>1. k \in 1..c /\ k # i
    OBVIOUS
  <2>2. QED
    BY <1>2, <2>1
<1>4. {i \in FirstPositions(t) : t[i] # "none"} = 1..c
  BY <1>1, <1>2, <1>3 DEF FirstPositions
<1>5. KeepAt(t, 1..c) = t
  BY <1>1, KeptWhole
<1>6. QED
  BY <1>4, <1>5 DEF Distinct, t

\* The numbers of the movements do not depend on whether one of them is well-formed.
LEMMA NumbersStay ==
  ASSUME NEW n \in Nat, NEW steps, DOMAIN steps = 1..n, NEW other, DOMAIN other = 1..n,
         NEW broken \in 1..n, steps[broken].id = broken, other[broken].id = broken,
         \A i \in 1..n : i # broken => other[i] = steps[i]
  PROVE  {s \in ToSet(NumberSteps(steps)) : s.id # broken} = {s \in ToSet(NumberSteps(other)) : s.id # broken}
<1> DEFINE Places(a) == {k \in 1..n : a[k].wellFormed}
<1> DEFINE Entry(a, i) == [number |-> i, id |-> a[i].id]
<1>1. /\ ToSet(NumberSteps(steps)) = {Entry(steps, i) : i \in Places(steps)}
      /\ ToSet(NumberSteps(other)) = {Entry(other, i) : i \in Places(other)}
  BY NumberedAre
<1>2. ASSUME NEW a, NEW b, a[broken].id = broken, b[broken].id = broken,
             \A i \in 1..n : i # broken => a[i] = b[i],
             NEW x \in {Entry(a, i) : i \in Places(a)}, x.id # broken
      PROVE  x \in {Entry(b, i) : i \in Places(b)}
  <2>1. PICK i \in Places(a) : x = Entry(a, i)
    OBVIOUS
  <2>2. i # broken
    BY <1>2, <2>1
  <2>3. a[i] = b[i]
    BY <1>2, <2>1, <2>2
  <2>4. i \in Places(b) /\ x = Entry(b, i)
    BY <2>1, <2>3
  <2> HIDE DEF Entry, Places
  <2>5. QED
    BY <2>4
<1> HIDE DEF Places, Entry
<1>3. \A x \in ToSet(NumberSteps(steps)) : x.id # broken => x \in ToSet(NumberSteps(other))
  BY <1>1, <1>2
<1>4. \A x \in ToSet(NumberSteps(other)) : x.id # broken => x \in ToSet(NumberSteps(steps))
  BY <1>1, <1>2
<1>5. QED
  BY <1>3, <1>4

\* What a merge selects for the subjects, it selects again without a conflict.
LEMMA SubjectsSettle ==
  ASSUME NEW n \in Nat, NEW ours, DOMAIN ours = 1..n,
         NEW m \in Nat, NEW official, DOMAIN official = 1..m
  PROVE  LET once == SelectSubjects(ours, official).value
         IN SelectSubjects(once, official) = [value |-> once, conflict |-> FALSE]
<1>1. \A s : SelectSubjects(s, official) =
               IF Named(official) = {} THEN [value |-> Distinct(s), conflict |-> FALSE]
               ELSE [value |-> Distinct(official), conflict |-> Named(s) \notin {{}, Named(official)}]
  BY DEF SelectSubjects, Named, Distinct
<1>2. CASE Named(official) = {}
  <2>1. SelectSubjects(ours, official).value = Distinct(ours)
    BY <1>1, <1>2
  <2>2. SelectSubjects(Distinct(ours), official) = [value |-> Distinct(Distinct(ours)), conflict |-> FALSE]
    BY <1>1, <1>2
  <2>3. QED
    BY <2>1, <2>2, DistinctAgain
<1>3. CASE Named(official) # {}
  <2>1. SelectSubjects(ours, official).value = Distinct(official)
    BY <1>1, <1>3
  <2>2. (Named(Distinct(official)) \notin {{}, Named(official)}) = FALSE
    BY DistinctHas
  <2>3. SelectSubjects(Distinct(official), official)
          = [value |-> Distinct(official), conflict |-> Named(Distinct(official)) \notin {{}, Named(official)}]
    BY <1>1, <1>3
  <2>4. QED
    BY <2>1, <2>2, <2>3
<1>4. QED
  BY <1>2, <1>3

\* What a merge selects for a scalar, it selects again without a conflict; it is another
\* value than ours if and only if there is a conflict.
LEMMA ScalarSettles ==
  ASSUME NEW ours, NEW official
  PROVE  LET once == SelectScalar(ours, official)
         IN /\ SelectScalar(once.value, official).value = once.value
            /\ ~SelectScalar(once.value, official).conflict
            /\ once.conflict <=> ours # Absent /\ Folded(once.value) # Folded(ours)
<1> DEFINE once == SelectScalar(ours, official)
<1>1. CASE official = <<"none", 0>>
  <2>1. once = [value |-> ours, conflict |-> FALSE]
    BY <1>1 DEF SelectScalar
  <2>2. SelectScalar(once.value, official) = [value |-> ours, conflict |-> FALSE]
    BY <1>1, <2>1 DEF SelectScalar
  <2> HIDE DEF once
  <2>3. QED
    BY <2>1, <2>2 DEF once
<1>2. CASE official # <<"none", 0>>
  <2>1. /\ once.value = official
        /\ once.conflict <=> ours # <<"none", 0>> /\ Folded(ours) # Folded(official)
    BY <1>2 DEF SelectScalar
  <2>2. /\ SelectScalar(official, official).value = official
        /\ ~SelectScalar(official, official).conflict
    BY <1>2 DEF SelectScalar
  <2>3. QED
    BY <2>1, <2>2 DEF Absent
<1>3. QED
  BY <1>1, <1>2

\* Merging the result of a merge again changes nothing.
LEMMA MergeSettles ==
  ASSUME NEW process, NEW official,
         process = [secrecy |-> process.secrecy, scalars |-> process.scalars, subjects |-> process.subjects],
         process.scalars = [f \in DOMAIN official.scalars |-> process.scalars[f]],
         "class" \in DOMAIN official.scalars,
         NEW n \in Nat, DOMAIN process.subjects = 1..n,
         NEW m \in Nat, DOMAIN official.subjects = 1..m
  PROVE  LET once  == MergeDatajud(process, official)
             twice == MergeDatajud(once.process, official)
             ours  == process.scalars["class"]
         IN /\ "class" \in once.warnings
                 <=> ours # Absent /\ Folded(once.process.scalars["class"]) # Folded(ours)
            /\ twice.process = once.process /\ twice.warnings = {}
<1> DEFINE once == MergeDatajud(process, official)
<1> DEFINE F == DOMAIN official.scalars
<1>1. CASE process.secrecy > 0 \/ official.absent
  <2>1. once = [process |-> process, warnings |-> {}, applied |-> FALSE]
    BY <1>1 DEF MergeDatajud
  <2>2. QED
    BY <2>1
<1>2. CASE ~(process.secrecy > 0 \/ official.absent)
  <2> DEFINE Chosen(scalars) == [f \in F |-> SelectScalar(scalars[f], official.scalars[f])]
  <2> DEFINE Merged(p) ==
        [process  |-> [p EXCEPT !.scalars = [f \in DOMAIN Chosen(p.scalars) |-> Chosen(p.scalars)[f].value],
                                !.subjects = SelectSubjects(p.subjects, official.subjects).value],
         warnings |-> {f \in DOMAIN Chosen(p.scalars) : Chosen(p.scalars)[f].conflict}
                      \cup (IF SelectSubjects(p.subjects, official.subjects).conflict THEN {"subjects"} ELSE {}),
         applied  |-> TRUE]
  <2>1. \A p : ~(p.secrecy > 0) => MergeDatajud(p, official) = Merged(p)
    BY <1>2 DEF MergeDatajud
  <2> DEFINE scalars == [f \in F |-> SelectScalar(process.scalars[f], official.scalars[f]).value]
  <2> DEFINE subjects == SelectSubjects(process.subjects, official.subjects).value
  <2> DEFINE q == [secrecy |-> process.secrecy, scalars |-> scalars, subjects |-> subjects]
  <2>2. [f \in DOMAIN Chosen(process.scalars) |-> Chosen(process.scalars)[f].value] = scalars
    OBVIOUS
  <2>3. once = Merged(process)
    BY <1>2, <2>1
  <2>4. Merged(process).process = q
    <3>1. Merged(process).process = [process EXCEPT !.scalars = scalars, !.subjects = subjects]
      BY <2>2
    <3> HIDE DEF Merged, scalars, subjects
    <3>2. QED
      BY <3>1
  <2>5. once.process = q
    BY <2>3, <2>4
  <2>6. "class" \in once.warnings <=> SelectScalar(process.scalars["class"], official.scalars["class"]).conflict
    <3>1. once.warnings = {f \in DOMAIN Chosen(process.scalars) : Chosen(process.scalars)[f].conflict}
              \cup (IF SelectSubjects(process.subjects, official.subjects).conflict THEN {"subjects"} ELSE {})
      BY <2>3
    <3>2. /\ "class" \in DOMAIN Chosen(process.scalars)
          /\ Chosen(process.scalars)["class"] = SelectScalar(process.scalars["class"], official.scalars["class"])
      OBVIOUS
    <3> HIDE DEF once, Chosen
    <3>3. QED
      BY <3>1, <3>2
  <2>7. q.scalars["class"] = SelectScalar(process.scalars["class"], official.scalars["class"]).value
    OBVIOUS
  <2>8. "class" \in once.warnings
          <=> process.scalars["class"] # Absent /\ Folded(q.scalars["class"]) # Folded(process.scalars["class"])
    BY <2>6, <2>7, ScalarSettles
  <2>9. MergeDatajud(q, official) = Merged(q)
    BY <1>2, <2>1
  <2>10. Merged(q).process = q
    <3>1. \A f \in F : SelectScalar(q.scalars[f], official.scalars[f]).value = scalars[f]
      BY ScalarSettles
    <3>2. [f \in DOMAIN Chosen(q.scalars) |-> Chosen(q.scalars)[f].value] = scalars
      BY <3>1
    <3>3. SelectSubjects(q.subjects, official.subjects).value = subjects
      <4>1. SelectSubjects(subjects, official.subjects) = [value |-> subjects, conflict |-> FALSE]
        BY SubjectsSettle
      <4> HIDE DEF subjects
      <4>2. QED
        BY <4>1
    <3>4. Merged(q).process = [q EXCEPT !.scalars = scalars, !.subjects = subjects]
      BY <3>2, <3>3
    <3> HIDE DEF Merged, scalars, subjects
    <3>5. QED
      BY <3>4
  <2>11. Merged(q).warnings = {}
    <3>1. \A f \in F : ~SelectScalar(q.scalars[f], official.scalars[f]).conflict
      BY ScalarSettles
    <3>2. {f \in DOMAIN Chosen(q.scalars) : Chosen(q.scalars)[f].conflict} = {}
      BY <3>1
    <3>3. ~SelectSubjects(q.subjects, official.subjects).conflict
      <4>1. SelectSubjects(subjects, official.subjects) = [value |-> subjects, conflict |-> FALSE]
        BY SubjectsSettle
      <4> HIDE DEF subjects
      <4>2. QED
        BY <4>1
    <3>4. Merged(q).warnings = {f \in DOMAIN Chosen(q.scalars) : Chosen(q.scalars)[f].conflict}
              \cup (IF SelectSubjects(q.subjects, official.subjects).conflict THEN {"subjects"} ELSE {})
      OBVIOUS
    <3> HIDE DEF Merged, Chosen, q
    <3>5. QED
      BY <3>2, <3>3, <3>4
  <2> HIDE DEF Merged, q, once
  <2>12. QED
    BY <2>5, <2>8, <2>9, <2>10, <2>11 DEF once
<1>3. QED
  BY <1>1, <1>2

\* For answers of any length, and subjects in any number, the intake is sound.
THEOREM IntakeForAnyInput ==
  AnyReply /\ AnyMovements /\ AnyMetadata => IntakeIsSound
<1> SUFFICES ASSUME AnyReply, AnyMovements, AnyMetadata PROVE IntakeIsSound
  OBVIOUS
<1>1. RepeatedOnlyIfRejected
  <2> SUFFICES ASSUME case.part = "reply", CreateRequest(case.reply).again PROVE ~case.acted
    BY DEF RepeatedOnlyIfRejected
  <2>1. case.reply.status \in Nat
    BY DEF AnyReply
  <2>2. case.reply.sent /\ case.reply.status >= 400 /\ ExplicitRejection(case.reply.status)
    BY <2>1, RepeatedWasRejected
  <2>3. case.reply.status \in (400..499) \ {408, 429}
    BY <2>1, <2>2 DEF ExplicitRejection
  <2>4. QED
    BY <2>2, <2>3 DEF AnyReply
<1>2. EventsAreTraceable
  BY TakenHasRequest DEF EventsAreTraceable
<1>3. StepNumbersAreStable
  <2> SUFFICES ASSUME case.part = "movements" PROVE StepNumbersAreStable
    BY DEF StepNumbersAreStable
  <2> DEFINE steps == case.steps
  <2> DEFINE broken == case.broken
  <2> DEFINE other == [steps EXCEPT ![broken] = [steps[broken] EXCEPT !.wellFormed = ~steps[broken].wellFormed]]
  <2> DEFINE process == [secrecy |-> case.secrecy, steps |-> steps, attachments |-> <<>>, header |-> {}]
  <2> DEFINE changed == [process EXCEPT !.steps[broken].wellFormed = ~steps[broken].wellFormed]
  <2>1. PICK n \in Nat : DOMAIN steps = 1..n
    BY DEF AnyMovements
  <2>2. /\ steps = [i \in 1..n |-> [id |-> steps[i].id, wellFormed |-> steps[i].wellFormed]]
        /\ broken \in 1..n /\ steps[broken].id = broken
    BY <2>1 DEF AnyMovements
  <2>3. changed = [secrecy |-> case.secrecy, steps |-> other, attachments |-> <<>>, header |-> {}]
    <3>1. changed = [process EXCEPT !.steps = [process.steps EXCEPT ![broken] =
                       [process.steps[broken] EXCEPT !.wellFormed = ~steps[broken].wellFormed]]]
      BY Zenon
    <3>2. process.steps = steps
      OBVIOUS
    <3>3. changed = [process EXCEPT !.steps = other]
      BY <3>1, <3>2
    <3> HIDE DEF other, steps, changed
    <3>4. QED
      BY <3>3
  <2>4. /\ DOMAIN other = 1..n /\ other[broken].id = broken
        /\ \A i \in 1..n : i # broken => other[i] = steps[i]
    BY <2>2
  <2> HIDE DEF steps, broken, other
  <2>5. {s \in ToSet(NumberSteps(steps)) : s.id # broken} = {s \in ToSet(NumberSteps(other)) : s.id # broken}
    BY <2>1, <2>2, <2>4, NumbersStay
  <2>6. /\ process.steps = steps /\ process.secrecy = case.secrecy
        /\ changed.steps = other /\ changed.secrecy = case.secrecy
    BY <2>3
  <2> DEFINE Others(p) == {s \in ToSet(ExtractPromotable(p).steps) : s.id # broken}
  <2>7. Others(process) = Others(changed)
    <3> HIDE DEF process, changed
    <3>1. CASE case.secrecy > 0
      <4>1. ExtractPromotable(process).steps = <<>> /\ ExtractPromotable(changed).steps = <<>>
        BY <2>6, <3>1 DEF ExtractPromotable
      <4>2. QED
        BY <4>1
    <3>2. CASE ~(case.secrecy > 0)
      <4>1. /\ ExtractPromotable(process).steps = NumberSteps(steps)
            /\ ExtractPromotable(changed).steps = NumberSteps(other)
        BY <2>6, <3>2 DEF ExtractPromotable
      <4>2. QED
        BY <2>5, <4>1
    <3>3. QED
      BY <3>1, <3>2
  <2>8. QED
    BY <2>7 DEF StepNumbersAreStable, steps, broken
<1>4. MergeIsStable
  <2> SUFFICES ASSUME case.part = "metadata" PROVE MergeIsStable
    BY DEF MergeIsStable
  <2>1. PICK n \in Nat : DOMAIN case.process.subjects = 1..n
    BY DEF AnyMetadata
  <2>2. PICK m \in Nat : DOMAIN case.official.subjects = 1..m
    BY DEF AnyMetadata
  <2>3. /\ case.process = [secrecy |-> case.process.secrecy, scalars |-> case.process.scalars,
                           subjects |-> case.process.subjects]
        /\ case.process.scalars = [f \in DOMAIN case.official.scalars |-> case.process.scalars[f]]
        /\ "class" \in DOMAIN case.official.scalars
    BY DEF AnyMetadata
  <2>4. QED
    BY <2>1, <2>2, <2>3, MergeSettles DEF MergeIsStable
<1>5. QED
  BY <1>1, <1>2, <1>3, <1>4 DEF IntakeIsSound

-----------------------------------------------------------------------------
(* The shares of a budget. *)

\* What an equal part is.
LEMMA PartIs ==
  ASSUME NEW left \in Nat, NEW items \in Nat, items >= 1
  PROVE  left \div items \in Nat /\ items * (left \div items) <= left
         /\ left < items * (left \div items) + items
OBVIOUS

\* More of the same is more.
LEMMA MoreTimes ==
  ASSUME NEW items \in Nat, NEW a \in Nat, NEW b \in Nat, a <= b
  PROVE  items * a <= items * b
OBVIOUS

\* The part is as large as any that there is enough for.
LEMMA PartIsLargest ==
  ASSUME NEW left \in Nat, NEW items \in Nat, items >= 1, NEW q \in Nat, items * q <= left
  PROVE  q <= left \div items
<1> DEFINE d == left \div items
<1>1. d \in Nat /\ left < items * d + items
  BY PartIs
<1> SUFFICES ASSUME d < q PROVE FALSE
  BY <1>1
<1>2. items * (d + 1) <= items * q
  BY <1>1, MoreTimes
<1>3. items * (d + 1) = items * d + items
  BY <1>1
<1>4. QED
  BY <1>1, <1>2, <1>3

\* When a part, or less, is taken from what is enough for all, what is left is enough for
\* the others.
LEMMA EnoughIsLeft ==
  ASSUME NEW left \in Nat, NEW items \in Nat, items >= 1, NEW q \in Nat, items * q <= left,
         NEW taken \in Nat, taken <= left \div items
  PROVE  left - taken \in Nat /\ (items - 1) * q <= left - taken
<1> DEFINE d == left \div items
<1>1. d \in Nat /\ items * d <= left /\ q <= d
  BY PartIs, PartIsLargest
<1>5. taken <= d
  OBVIOUS
<1> HIDE DEF d
<1>2. items - 1 \in Nat /\ items * d = (items - 1) * d + d
  BY <1>1
<1>3. (items - 1) * q <= (items - 1) * d
  BY <1>1, <1>2, MoreTimes
<1>4. (items - 1) * q \in Nat /\ (items - 1) * d \in Nat
  BY <1>1, <1>2
<1>6. QED
  BY <1>1, <1>2, <1>3, <1>4, <1>5

\* The least of two numbers is the least.
LEMMA LeastOfTwo ==
  ASSUME NEW a \in Nat, NEW b \in Nat
  PROVE  Least({a, b}) = IF a <= b THEN a ELSE b
BY DEF Least

\* What is left of total before each text, as the shares are taken.
IsLeft(left, lengths, total) ==
  left = [i \in 0..Len(lengths) |->
            IF i = 0 THEN total
            ELSE left[i - 1] - Least({Allowance(left[i - 1], Len(lengths) - i + 1), lengths[i]})]

\* There is such a function, and it never goes below zero.
LEMMA LeftExists ==
  ASSUME NEW lengths \in Seq(Nat), NEW total \in Nat
  PROVE  \E left \in [0..Len(lengths) -> Nat] : IsLeft(left, lengths, total)
<1> DEFINE n == Len(lengths)
<1> DEFINE share == [i \in 1..n |-> [v \in Nat |-> v - Least({Allowance(v, n - i + 1), lengths[i]})]]
<1>1. n \in Nat /\ \A i \in 1..n : lengths[i] \in Nat /\ n - i + 1 \in Nat /\ n - i + 1 >= 1
  OBVIOUS
<1> HIDE DEF n
<1>2. \A i \in 1..n : \A v \in Nat : v - Least({Allowance(v, n - i + 1), lengths[i]}) \in Nat
  <2> TAKE i \in 1..n
  <2> TAKE v \in Nat
  <2> DEFINE a == Allowance(v, n - i + 1)
  <2>1. a \in Nat
    BY <1>1, PartIs DEF Allowance
  <2>2. a <= v
    <3>1. (n - i + 1) * a <= v
      BY <1>1, PartIs DEF Allowance
    <3>2. a * 1 <= a * (n - i + 1)
      BY <1>1, <2>1, MoreTimes
    <3>3. a * 1 = a /\ a * (n - i + 1) = (n - i + 1) * a
      BY <1>1, <2>1
    <3> HIDE DEF a
    <3>4. QED
      BY <1>1, <2>1, <3>1, <3>2, <3>3
  <2> HIDE DEF a
  <2>3. v - Least({a, lengths[i]}) \in Nat
    <3>1. lengths[i] \in Nat
      BY <1>1
    <3>2. Least({a, lengths[i]}) = a \/ (Least({a, lengths[i]}) = lengths[i] /\ lengths[i] <= a)
      BY <2>1, <3>1, LeastOfTwo
    <3>3. QED
      BY <2>1, <2>2, <3>1, <3>2
  <2>4. QED
    BY <2>3 DEF a
<1>3. \A i \in 1..n : \A v \in Nat : share[i][v] \in Nat
  BY <1>2
<1>4. \A i \in 1..n : \A v \in Nat :
        share[i][v] = v - Least({Allowance(v, n - i + 1), lengths[i]})
  OBVIOUS
<1> HIDE DEF share
<1>5. PICK left \in [0..n -> Nat] : Stepwise(left, total, share, n)
  BY <1>1, <1>3, StepwiseExists
<1>6. \A i \in 0..n : left[i] = IF i = 0 THEN total
                               ELSE left[i - 1] - Least({Allowance(left[i - 1], n - i + 1), lengths[i]})
  <2> TAKE i \in 0..n
  <2>1. CASE i = 0
    BY <1>5, <2>1 DEF Stepwise
  <2>2. CASE i # 0
    <3>1. i \in 1..n /\ i - 1 \in 0..n
      BY <1>1, <2>2
    <3>2. left[i - 1] \in Nat
      BY <3>1
    <3>3. left[i] = share[i][left[i - 1]]
      BY <1>5, <3>1 DEF Stepwise
    <3>4. QED
      BY <1>4, <2>2, <3>1, <3>2, <3>3
  <2>3. QED
    BY <2>1, <2>2
<1>7. left = [i \in 0..n |-> IF i = 0 THEN total
                            ELSE left[i - 1] - Least({Allowance(left[i - 1], n - i + 1), lengths[i]})]
  BY <1>6
<1>8. IsLeft(left, lengths, total)
  BY <1>7 DEF IsLeft, n
<1>9. QED
  BY <1>8 DEF n

\* The shares together keep to the total; none is larger than its text, nor smaller than
\* its text or an equal part of the total.
LEMMA SharesAreFair ==
  ASSUME NEW lengths \in Seq(Nat), NEW total \in Nat
  PROVE  /\ ShareBudget(lengths, total) \in Seq(Nat)
         /\ Len(ShareBudget(lengths, total)) = Len(lengths)
         /\ SumOf(ShareBudget(lengths, total)) <= total
         /\ \A i \in 1..Len(lengths) :
              /\ ShareBudget(lengths, total)[i] <= lengths[i]
              /\ ShareBudget(lengths, total)[i] >= Least({lengths[i], total \div Len(lengths)})
<1> DEFINE n == Len(lengths)
<1> DEFINE left == CHOOSE f : IsLeft(f, lengths, total)
<1> DEFINE kept == ShareBudget(lengths, total)
<1> DEFINE q == IF n = 0 THEN 0 ELSE total \div n
<1> DEFINE part(i) == left[i - 1] \div (n - i + 1)
<1> DEFINE share(i) == Least({part(i), lengths[i]})
<1>1. /\ n \in Nat /\ DOMAIN lengths = 1..n
      /\ \A i \in 1..n : lengths[i] \in Nat /\ n - i + 1 \in Nat /\ n - i + 1 >= 1 /\ i - 1 \in 0..n
  OBVIOUS
<1>2. kept = [i \in 1..n |-> left[i - 1] - left[i]]
  BY <1>1 DEF ShareBudget, IsLeft
<1>3. IsLeft(left, lengths, total)
  BY LeftExists
<1> HIDE DEF left, n
<1>4. left[0] = total /\ \A i \in 1..n : left[i] = left[i - 1] - share(i)
  <2>1. left = [i \in 0..n |-> IF i = 0 THEN total
                              ELSE left[i - 1] - Least({Allowance(left[i - 1], n - i + 1), lengths[i]})]
    BY <1>3 DEF IsLeft, n
  <2>2. 0 \in 0..n /\ \A i \in 1..n : i \in 0..n /\ i # 0
    BY <1>1
  <2>3. left[0] = total
    BY <2>1, <2>2
  <2>4. \A i \in 1..n : left[i] = left[i - 1] - Least({Allowance(left[i - 1], n - i + 1), lengths[i]})
    BY <2>1, <2>2
  <2>5. QED
    BY <2>3, <2>4 DEF Allowance
<1>5. q \in Nat /\ n * q <= total
  <2>1. CASE n = 0
    BY <1>1, <2>1
  <2>2. CASE n # 0
    <3>1. n >= 1
      BY <1>1, <2>2
    <3>2. total \div n \in Nat /\ n * (total \div n) <= total
      BY <1>1, <3>1, PartIs
    <3>3. QED
      BY <2>2, <3>2
  <2>3. QED
    BY <2>1, <2>2
<1> HIDE DEF q
\* As long as there is enough left for equal parts, a share is one, or the whole text.
<1>6. ASSUME NEW i \in 1..n, left[i - 1] \in Nat, (n - i + 1) * q <= left[i - 1]
      PROVE  /\ share(i) \in Nat /\ share(i) <= lengths[i] /\ share(i) >= Least({lengths[i], q})
             /\ left[i - 1] - share(i) \in Nat /\ (n - i) * q <= left[i - 1] - share(i)
  <2>1. part(i) \in Nat /\ q <= part(i)
    BY <1>1, <1>5, <1>6, PartIs, PartIsLargest
  <2>2. share(i) \in Nat /\ share(i) <= part(i) /\ share(i) <= lengths[i]
        /\ (share(i) = part(i) \/ share(i) = lengths[i])
    <3> HIDE DEF part
    <3>1. lengths[i] \in Nat
      BY <1>1
    <3>2. QED
      BY <2>1, <3>1, LeastOfTwo
  <2>3. left[i - 1] - share(i) \in Nat /\ ((n - i + 1) - 1) * q <= left[i - 1] - share(i)
    <3> HIDE DEF share
    <3>1. PICK items, before, taken :
            /\ items = n - i + 1 /\ before = left[i - 1] /\ taken = share(i)
      OBVIOUS
    <3>2. /\ items \in Nat /\ items >= 1 /\ before \in Nat /\ items * q <= before
          /\ taken \in Nat /\ taken <= before \div items
      BY <1>1, <1>6, <2>2, <3>1
    <3>3. before - taken \in Nat /\ (items - 1) * q <= before - taken
      BY <1>5, <3>2, EnoughIsLeft
    <3>4. QED
      BY <3>1, <3>3, Zenon
  <2>4. (n - i + 1) - 1 = n - i
    BY <1>1
  <2>5. share(i) >= Least({lengths[i], q})
    <3> HIDE DEF share, part
    <3>1. lengths[i] \in Nat
      BY <1>1
    <3>2. Least({lengths[i], q}) = IF lengths[i] <= q THEN lengths[i] ELSE q
      BY <1>5, <3>1, LeastOfTwo
    <3>3. QED
      BY <1>5, <2>1, <2>2, <3>1, <3>2
  <2> HIDE DEF share, part
  <2>6. QED
    BY <2>2, <2>3, <2>4, <2>5
<1> HIDE DEF share
<1> DEFINE S == {i \in 0..n : left[i] \in Nat /\ (n - i) * q <= left[i]}
<1>7. 0 \in S
  BY <1>1, <1>4, <1>5
<1>8. \A i \in 1..n : i - 1 \in S => i \in S
  <2> SUFFICES ASSUME NEW i \in 1..n, i - 1 \in S PROVE i \in S
    OBVIOUS
  <2>1. left[i - 1] \in Nat /\ (n - (i - 1)) * q <= left[i - 1] /\ n - (i - 1) = n - i + 1
    BY <1>1
  <2>2. left[i] \in Nat /\ (n - i) * q <= left[i]
    BY <1>4, <1>6, <2>1
  <2>3. QED
    BY <1>1, <2>2
<1>9. \A i \in 0..n : i \in S
  <2> HIDE DEF S
  <2>1. QED
    BY <1>1, <1>7, <1>8, ReachesAll
<1>10. \A i \in 0..n : left[i] \in Nat /\ (n - i) * q <= left[i]
  BY <1>9
<1>11. \A i \in 1..n : /\ share(i) \in Nat /\ share(i) <= lengths[i]
                       /\ share(i) >= Least({lengths[i], q})
                       /\ left[i] = left[i - 1] - share(i)
  <2> TAKE i \in 1..n
  <2>1. left[i - 1] \in Nat /\ (n - (i - 1)) * q <= left[i - 1] /\ n - (i - 1) = n - i + 1
    BY <1>1, <1>10
  <2>2. QED
    BY <1>4, <1>6, <2>1
<1>12. \A i \in 1..n : kept[i] = share(i)
  <2> TAKE i \in 1..n
  <2>1. left[i] \in Nat /\ left[i - 1] \in Nat /\ share(i) \in Nat /\ left[i] = left[i - 1] - share(i)
    <3>1. i \in 0..n /\ i - 1 \in 0..n
      BY <1>1
    <3>2. left[i] \in Nat /\ left[i - 1] \in Nat
      BY <1>10, <3>1
    <3>3. share(i) \in Nat /\ left[i] = left[i - 1] - share(i)
      BY <1>11
    <3>4. QED
      BY <3>2, <3>3
  <2>2. kept[i] = left[i - 1] - left[i]
    BY <1>2
  <2>3. QED
    BY <2>1, <2>2
<1>13. kept \in Seq(Nat) /\ Len(kept) = n
  <2> HIDE DEF kept
  <2>1. kept \in [1..n -> Nat]
    BY <1>2, <1>11, <1>12
  <2>2. QED
    BY <1>1, <2>1, SeqDef
<1> HIDE DEF kept, S
<1> DEFINE totals == RunningTotals(kept)
<1> DEFINE U == {i \in 0..n : totals[i] = total - left[i]}
<1>14. /\ totals[0] = 0 /\ \A i \in 0..n : totals[i] \in Nat
       /\ \A i \in 1..n : totals[i] = totals[i - 1] + kept[i]
  BY <1>13, TotalsFollow
<1> HIDE DEF totals
<1>15. 0 \in U
  BY <1>1, <1>4, <1>14
<1>16. \A i \in 1..n : i - 1 \in U => i \in U
  <2> SUFFICES ASSUME NEW i \in 1..n, i - 1 \in U PROVE i \in U
    OBVIOUS
  <2>1. /\ left[i] = left[i - 1] - share(i) /\ kept[i] = share(i) /\ share(i) \in Nat
        /\ totals[i] = totals[i - 1] + kept[i] /\ totals[i - 1] = total - left[i - 1]
        /\ left[i - 1] \in Nat /\ i \in 0..n
    <3>1. i \in 0..n /\ i - 1 \in 0..n
      BY <1>1
    <3>2. left[i - 1] \in Nat
      BY <1>10, <3>1
    <3>3. share(i) \in Nat /\ left[i] = left[i - 1] - share(i) /\ kept[i] = share(i)
      BY <1>11, <1>12
    <3>4. totals[i] = totals[i - 1] + kept[i] /\ totals[i - 1] = total - left[i - 1]
      BY <1>14
    <3>5. QED
      BY <3>1, <3>2, <3>3, <3>4
  <2>2. QED
    BY <2>1
<1>17. \A i \in 0..n : i \in U
  <2> HIDE DEF U
  <2>1. QED
    BY <1>1, <1>15, <1>16, ReachesAll
<1>18. totals[n] <= total
  <2>1. n \in 0..n
    BY <1>1
  <2>2. totals[n] = total - left[n] /\ left[n] \in Nat
    BY <1>10, <1>17, <2>1
  <2>3. QED
    BY <2>2
<1>19. SumOf(kept) <= total
  BY <1>13, <1>18 DEF SumOf, totals
<1>20. \A i \in 1..n : kept[i] <= lengths[i] /\ kept[i] >= Least({lengths[i], total \div n})
  <2> TAKE i \in 1..n
  <2>1. q = total \div n
    BY <1>1 DEF q
  <2>2. QED
    BY <1>11, <1>12, <2>1
<1>21. QED
  BY <1>13, <1>19, <1>20 DEF kept, n

\* The movements keep to the total as well.
LEMMA StepsKeepToTotal ==
  ASSUME NEW lengths \in Seq(Nat), NEW each \in Nat, NEW total \in Nat
  PROVE  SumOf(SerializeSteps(lengths, each, total)) <= total
<1> DEFINE cut == [i \in DOMAIN lengths |-> Least({lengths[i], each})]
<1>1. \A i \in 1..Len(lengths) : Least({lengths[i], each}) \in Nat
  <2> TAKE i \in 1..Len(lengths)
  <2>1. lengths[i] \in Nat
    OBVIOUS
  <2>2. QED
    BY <2>1, LeastOfTwo
<1>2. cut \in Seq(Nat)
  <2>1. cut \in [1..Len(lengths) -> Nat] /\ Len(lengths) \in Nat
    BY <1>1
  <2>2. QED
    BY <2>1, SeqDef
<1>3. SerializeSteps(lengths, each, total) = IF SumOf(cut) > total THEN ShareBudget(cut, total) ELSE cut
  BY DEF SerializeSteps
<1> HIDE DEF cut
<1>4. SumOf(cut) \in Nat
  <2>1. Len(cut) \in 0..Len(cut)
    BY <1>2
  <2>2. QED
    BY <1>2, <2>1, TotalsFollow DEF SumOf
<1>5. SumOf(ShareBudget(cut, total)) <= total
  BY <1>2, SharesAreFair
<1>6. CASE SumOf(cut) > total
  BY <1>3, <1>5, <1>6
<1>7. CASE ~(SumOf(cut) > total)
  BY <1>3, <1>4, <1>7
<1>8. QED
  BY <1>6, <1>7

-----------------------------------------------------------------------------
(* The chunks of a text. *)

\* A chunk has at least one character and at most size.
LEMMA ChunkEndIs ==
  ASSUME NEW text, Len(text) \in Nat, NEW from \in 0..(Len(text) - 1), NEW size \in Nat, size >= 1
  PROVE  /\ ChunkEnd(text, from, size) \in (from + 1)..Len(text)
         /\ ChunkEnd(text, from, size) - from <= size
<1> DEFINE n == Len(text)
<1> DEFINE hard == Least({from + size, n})
<1> DEFINE breaks == {i \in (from + (size \div 2) + 1)..(hard - 1) : text[i + 1] = "s"}
<1> DEFINE cut == IF hard < n /\ breaks # {} THEN Greatest(breaks) ELSE hard
<1> DEFINE solid == {i \in (from + 1)..cut : ~IsSpace(text[i])}
<1>1. ChunkEnd(text, from, size) = IF solid = {} THEN hard ELSE Greatest(solid)
  BY DEF ChunkEnd
<1> HIDE DEF n
<1>2. n \in Nat /\ from \in Nat /\ from < n /\ size \div 2 \in Nat
  BY DEF n
<1>3. hard \in (from + 1)..n /\ hard <= from + size
  <2>1. from + size \in Nat
    BY <1>2
  <2>2. hard = IF from + size <= n THEN from + size ELSE n
    BY <1>2, <2>1, LeastOfTwo
  <2>3. QED
    BY <1>2, <2>2
<1> HIDE DEF hard
<1>4. ASSUME NEW T, T \subseteq 1..n, T # {} PROVE Greatest(T) \in T
  <2>1. \E m \in T : \A k \in T : k <= m
    BY <1>2, <1>4, GreatestExists
  <2>2. QED
    BY <2>1 DEF Greatest
<1>5. cut \in Nat /\ cut <= hard
  <2>1. CASE breaks = {}
    BY <1>2, <1>3, <2>1
  <2>2. CASE breaks # {}
    <3>1. breaks \subseteq 1..n
      BY <1>2, <1>3
    <3>2. Greatest(breaks) \in breaks
      BY <1>4, <2>2, <3>1
    <3>3. Greatest(breaks) \in Nat /\ Greatest(breaks) <= hard
      BY <1>2, <1>3, <3>2
    <3> HIDE DEF breaks
    <3>4. QED
      BY <1>2, <1>3, <3>3
  <2>3. QED
    BY <2>1, <2>2
<1> HIDE DEF cut
<1>6. CASE solid = {}
  <2>1. ChunkEnd(text, from, size) = hard
    BY <1>1, <1>6
  <2>2. QED
    BY <1>2, <1>3, <2>1 DEF n
<1>7. CASE solid # {}
  <2>1. solid \subseteq 1..n
    BY <1>2, <1>3, <1>5
  <2>2. Greatest(solid) \in solid
    BY <1>4, <1>7, <2>1
  <2>3. Greatest(solid) \in (from + 1)..n /\ Greatest(solid) <= hard
    BY <1>2, <1>3, <1>5, <2>2
  <2>4. ChunkEnd(text, from, size) = Greatest(solid)
    BY <1>1, <1>7
  <2> HIDE DEF solid
  <2>5. QED
    BY <1>2, <1>3, <2>3, <2>4 DEF n
<1>8. QED
  BY <1>6, <1>7

\* Between a chunk and the next there is nothing but white space.
LEMMA NextStartIs ==
  ASSUME NEW text, Len(text) \in Nat, NEW end \in 0..Len(text), NEW size
  PROVE  /\ NextStart(text, end, size) \in end..Len(text)
         /\ \A i \in (end + 1)..NextStart(text, end, size) : IsSpace(text[i])
<1> DEFINE solid == {i \in (end + 1)..Len(text) : ~IsSpace(text[i])}
<1>1. CASE solid = {}
  <2>1. NextStart(text, end, size) = Len(text)
    BY <1>1 DEF NextStart
  <2>2. QED
    BY <1>1, <2>1
<1>2. CASE solid # {}
  <2>1. solid \subseteq Nat
    OBVIOUS
  <2>2. \E m \in solid : \A k \in solid : m <= k
    BY <1>2, <2>1, LeastExists
  <2>3. Least(solid) \in solid /\ \A k \in solid : Least(solid) <= k
    BY <2>2 DEF Least
  <2>4. NextStart(text, end, size) = Least(solid) - 1
    BY <1>2 DEF NextStart
  <2> DEFINE next == Least(solid)
  <2> HIDE DEF next
  <2>5. next \in (end + 1)..Len(text) /\ \A k \in solid : next <= k
    BY <2>3 DEF next
  <2>6. ASSUME NEW i \in (end + 1)..(next - 1) PROVE IsSpace(text[i])
    <3>1. i \in (end + 1)..Len(text) /\ ~(next <= i)
      BY <2>5
    <3>2. i \notin solid
      BY <2>5, <3>1
    <3>3. QED
      BY <3>1, <3>2
  <2> HIDE DEF solid
  <2>7. QED
    BY <2>4, <2>5, <2>6 DEF next
<1>3. QED
  BY <1>1, <1>2

\* The function f has base at n, and step gives its value at p from the one at jump[p].
Jumping(f, base, jump, step, n) ==
  f[n] = base /\ \A p \in 0..(n - 1) : f[p] = step[p][f[jump[p]]]

\* There is such a function when the jumps go forward.
LEMMA JumpingExists ==
  ASSUME NEW n \in Nat, NEW V, NEW base \in V, NEW jump, NEW step,
         \A p \in 0..(n - 1) : jump[p] \in (p + 1)..n,
         \A p \in 0..(n - 1) : \A v \in V : step[p][v] \in V
  PROVE  \E f \in [0..n -> V] : Jumping(f, base, jump, step, n)
<1> DEFINE From(m, f) == f[n] = base /\ \A p \in (n - m)..(n - 1) : f[p] = step[p][f[jump[p]]]
<1> DEFINE S == {m \in 0..n : \E f \in [(n - m)..n -> V] : From(m, f)}
<1>1. 0 \in S
  <2> DEFINE f == [i \in n..n |-> base]
  <2>1. f \in [(n - 0)..n -> V] /\ From(0, f) /\ 0 \in 0..n
    OBVIOUS
  <2> HIDE DEF f, From
  <2>2. QED
    BY <2>1
<1>2. ASSUME NEW m \in 1..n, m - 1 \in S PROVE m \in S
  <2> DEFINE q == n - m
  <2>0. q \in 0..(n - 1) /\ n - (m - 1) = q + 1 /\ q \in Nat
    OBVIOUS
  <2> HIDE DEF q
  <2>1. PICK f \in [(q + 1)..n -> V] : f[n] = base /\ \A p \in (q + 1)..(n - 1) : f[p] = step[p][f[jump[p]]]
    BY <1>2, <2>0
  <2> DEFINE g == [i \in q..n |-> IF i = q THEN step[q][f[jump[q]]] ELSE f[i]]
  <2>2. jump[q] \in (q + 1)..n /\ f[jump[q]] \in V
    BY <2>0
  <2>3. step[q][f[jump[q]]] \in V
    BY <2>0, <2>2
  <2>4. \A i \in q..n : i # q => i \in (q + 1)..n
    BY <2>0
  <2>5. g \in [q..n -> V]
    BY <2>3, <2>4
  <2>6. \A i \in (q + 1)..n : i \in q..n /\ i # q /\ g[i] = f[i]
    BY <2>0
  <2>7. ASSUME NEW p \in q..(n - 1) PROVE g[p] = step[p][g[jump[p]]]
    <3>1. p \in 0..(n - 1) /\ jump[p] \in (p + 1)..n
      BY <2>0
    <3>2. jump[p] \in (q + 1)..n
      BY <2>0, <3>1
    <3>3. g[jump[p]] = f[jump[p]]
      BY <2>6, <3>2
    <3>4. CASE p = q
      BY <2>0, <3>3, <3>4
    <3>5. CASE p # q
      <4>1. p \in (q + 1)..(n - 1)
        BY <2>0, <3>1, <3>5
      <4>2. g[p] = f[p]
        BY <2>0, <2>6, <4>1
      <4>3. f[p] = step[p][f[jump[p]]]
        BY <2>1, <4>1
      <4> HIDE DEF g
      <4>4. QED
        BY <3>3, <4>2, <4>3
    <3>6. QED
      BY <3>4, <3>5
  <2>8. g[n] = base
    <3>1. n \in (q + 1)..n
      BY <2>0
    <3>2. QED
      BY <2>1, <2>6, <3>1
  <2> HIDE DEF g
  <2>9. From(m, g) /\ g \in [(n - m)..n -> V]
    BY <2>5, <2>7, <2>8 DEF q
  <2>10. m \in 0..n
    OBVIOUS
  <2> HIDE DEF From
  <2>11. QED
    BY <2>9, <2>10
<1>3. n \in S
  <2> HIDE DEF S
  <2>1. \A i \in 1..n : i - 1 \in S => i \in S
    BY <1>2
  <2>2. \A i \in 0..n : i \in S
    BY <1>1, <2>1, ReachesAll
  <2>3. QED
    BY <2>2
<1>4. PICK f \in [(n - n)..n -> V] : From(n, f)
  BY <1>3
<1>5. n - n = 0
  OBVIOUS
<1>6. f \in [0..n -> V] /\ Jumping(f, base, jump, step, n)
  BY <1>4, <1>5 DEF Jumping
<1>7. QED
  BY <1>6

\* The chunks of a text from p on: none reaches over p or is longer than size, they are in
\* order, and what they leave out is white space.
Covers(text, size, p, chunks) ==
  /\ \A k \in DOMAIN chunks :
       /\ p <= chunks[k][1] /\ chunks[k][1] < chunks[k][2] /\ chunks[k][2] - chunks[k][1] <= size
       /\ \A j \in 1..(k - 1) : chunks[j][2] <= chunks[k][1]
  /\ \A i \in (p + 1)..Len(text) :
       IsSpace(text[i]) \/ \E k \in DOMAIN chunks : chunks[k][1] < i /\ i <= chunks[k][2]

\* One more chunk before the others.
LEMMA CoversMore ==
  ASSUME NEW text, Len(text) \in Nat, NEW size \in Nat,
         NEW p \in Nat, NEW end \in Nat, NEW next \in Nat, p < end, end <= next, next <= Len(text),
         end - p <= size, \A i \in (end + 1)..next : IsSpace(text[i]),
         NEW chunks \in Seq(Nat \X Nat), Covers(text, size, next, chunks)
  PROVE  Covers(text, size, p, <<<<p, end>>>> \o chunks)
<1> DEFINE more == <<<<p, end>>>> \o chunks
<1>1. /\ Len(chunks) \in Nat /\ DOMAIN chunks = 1..Len(chunks)
      /\ DOMAIN more = 1..(Len(chunks) + 1) /\ more[1] = <<p, end>>
      /\ \A k \in 1..Len(chunks) : more[k + 1] = chunks[k]
  <2>1. <<<<p, end>>>> \in Seq(Nat \X Nat) /\ Len(<<<<p, end>>>>) = 1
    OBVIOUS
  <2>2. Len(chunks) \in Nat /\ DOMAIN chunks = 1..Len(chunks)
    OBVIOUS
  <2>3. QED
    BY <2>1, <2>2
<1> HIDE DEF more
<1>2. \A k \in 1..Len(chunks) : /\ chunks[k][1] \in Nat /\ chunks[k][2] \in Nat /\ next <= chunks[k][1]
                                /\ chunks[k][1] < chunks[k][2] /\ chunks[k][2] - chunks[k][1] <= size
                                /\ \A j \in 1..(k - 1) : chunks[j][2] <= chunks[k][1]
  <2> TAKE k \in 1..Len(chunks)
  <2>1. chunks[k] \in Nat \X Nat
    BY <1>1
  <2>2. QED
    BY <1>1, <2>1 DEF Covers
<1>3. \A k \in DOMAIN more : k = 1 \/ (k - 1 \in 1..Len(chunks) /\ more[k] = chunks[k - 1])
  <2> TAKE k \in DOMAIN more
  <2>1. k \in 1..(Len(chunks) + 1)
    BY <1>1
  <2>2. CASE k # 1
    <3>1. k - 1 \in 1..Len(chunks) /\ (k - 1) + 1 = k
      BY <1>1, <2>1, <2>2
    <3>2. more[(k - 1) + 1] = chunks[k - 1]
      BY <1>1, <3>1
    <3>3. QED
      BY <3>1, <3>2
  <2>3. QED
    BY <2>2
<1>4. ASSUME NEW k \in DOMAIN more
      PROVE  /\ p <= more[k][1] /\ more[k][1] < more[k][2] /\ more[k][2] - more[k][1] <= size
             /\ \A j \in 1..(k - 1) : more[j][2] <= more[k][1]
  <2>0. more[1][1] = p /\ more[1][2] = end
    BY <1>1
  <2>1. CASE k = 1
    BY <2>0, <2>1
  <2>2. CASE k # 1
    <3> DEFINE l == k - 1
    <3>1. l \in 1..Len(chunks) /\ more[k] = chunks[l] /\ k \in 1..(Len(chunks) + 1)
      BY <1>1, <1>3, <2>2
    <3> HIDE DEF l
    <3>2. /\ chunks[l][1] \in Nat /\ chunks[l][2] \in Nat /\ next <= chunks[l][1]
          /\ chunks[l][1] < chunks[l][2] /\ chunks[l][2] - chunks[l][1] <= size
      BY <1>2, <3>1
    <3>3. ASSUME NEW j \in 1..(k - 1) PROVE more[j][2] <= more[k][1]
      <4>1. j \in DOMAIN more
        BY <1>1, <3>1
      <4>2. CASE j = 1
        <5>1. more[j][2] = end /\ more[k][1] = chunks[l][1]
          BY <2>0, <3>1, <4>2
        <5>2. end <= chunks[l][1]
          BY <3>2
        <5>3. QED
          BY <5>1, <5>2
      <4>3. CASE j # 1
        <5>1. j - 1 \in 1..Len(chunks) /\ more[j] = chunks[j - 1]
          BY <1>3, <4>1, <4>3
        <5>2. j - 1 \in 1..(l - 1)
          BY <1>1, <3>1, <5>1 DEF l
        <5>3. chunks[j - 1][2] <= chunks[l][1]
          BY <1>2, <3>1, <5>2
        <5>4. QED
          BY <3>1, <5>1, <5>3
      <4>4. QED
        BY <4>2, <4>3
    <3>4. p <= chunks[l][1]
      BY <3>2
    <3>5. QED
      BY <3>1, <3>2, <3>3, <3>4
  <2>3. QED
    BY <2>1, <2>2
<1>5. ASSUME NEW i \in (p + 1)..Len(text)
      PROVE  IsSpace(text[i]) \/ \E k \in DOMAIN more : more[k][1] < i /\ i <= more[k][2]
  <2>1. CASE i <= end
    <3>1. 1 \in DOMAIN more /\ more[1][1] < i /\ i <= more[1][2]
      BY <1>1, <2>1
    <3>2. QED
      BY <3>1
  <2>2. CASE ~(i <= end) /\ i <= next
    <3>1. i \in (end + 1)..next
      BY <2>2
    <3>2. QED
      BY <3>1
  <2>3. CASE ~(i <= end) /\ ~(i <= next)
    <3>1. i \in (next + 1)..Len(text)
      BY <2>3
    <3>2. IsSpace(text[i]) \/ \E k \in 1..Len(chunks) : chunks[k][1] < i /\ i <= chunks[k][2]
      BY <1>1, <3>1 DEF Covers
    <3>3. \A k \in 1..Len(chunks) : k + 1 \in DOMAIN more /\ more[k + 1] = chunks[k]
      BY <1>1
    <3>4. QED
      BY <3>2, <3>3
  <2>4. QED
    BY <2>1, <2>2, <2>3
<1>6. Covers(text, size, p, more)
  BY <1>4, <1>5 DEF Covers
<1>7. QED
  BY <1>6 DEF more

\* The chunks of a text cover it from every place on.
LEMMA ChunksCover ==
  ASSUME NEW text, Len(text) \in Nat, NEW size \in Nat, size >= 1
  PROVE  ChunkText(text, size) \in Seq(Nat \X Nat) /\ Covers(text, size, 0, ChunkText(text, size))
<1> DEFINE n == Len(text)
<1> DEFINE V == Seq(Nat \X Nat)
<1> DEFINE end(p) == ChunkEnd(text, p, size)
<1> DEFINE next(p) == NextStart(text, end(p), size)
<1> DEFINE Are(f) == f = [p \in 0..n |-> IF p >= n THEN <<>> ELSE <<<<p, end(p)>>>> \o f[next(p)]]
<1> DEFINE jump == [p \in 0..(n - 1) |-> next(p)]
<1> DEFINE step == [p \in 0..(n - 1) |-> [v \in V |-> <<<<p, end(p)>>>> \o v]]
<1>1. ASSUME NEW p \in 0..(n - 1)
      PROVE  /\ end(p) \in (p + 1)..n /\ end(p) - p <= size
             /\ next(p) \in end(p)..n /\ \A i \in (end(p) + 1)..next(p) : IsSpace(text[i])
             /\ next(p) \in (p + 1)..n
  <2>1. end(p) \in (p + 1)..n /\ end(p) - p <= size
    BY ChunkEndIs
  <2> HIDE DEF end
  <2>2. end(p) \in 0..n
    BY <2>1
  <2>3. next(p) \in end(p)..n /\ \A i \in (end(p) + 1)..next(p) : IsSpace(text[i])
    BY <2>2, NextStartIs
  <2> HIDE DEF next
  <2>4. QED
    BY <2>1, <2>3
<1>2. ChunkText(text, size) = (CHOOSE f : Are(f))[0]
  BY DEF ChunkText
<1> HIDE DEF end, next, n
<1>3. n \in Nat
  BY DEF n
<1>4. /\ \A p \in 0..(n - 1) : jump[p] \in (p + 1)..n
      /\ \A p \in 0..(n - 1) : \A v \in V : step[p][v] = <<<<p, end(p)>>>> \o v
  BY <1>1
<1>5. \A p \in 0..(n - 1) : \A v \in V : <<<<p, end(p)>>>> \o v \in V
  <2> TAKE p \in 0..(n - 1)
  <2>1. <<p, end(p)>> \in Nat \X Nat
    BY <1>1, <1>3
  <2>2. <<<<p, end(p)>>>> \in V
    BY <2>1
  <2>3. QED
    BY <2>2
<1>6. (\A p \in 0..(n - 1) : \A v \in V : step[p][v] \in V) /\ <<>> \in V
  BY <1>4, <1>5
<1>7. \E f \in [0..n -> V] : Jumping(f, <<>>, jump, step, n)
  <2> HIDE DEF jump, step, V
  <2>1. QED
    BY <1>3, <1>4, <1>6, JumpingExists
<1>8. \E f : Are(f)
  <2>1. PICK f \in [0..n -> V] : Jumping(f, <<>>, jump, step, n)
    BY <1>7
  <2>2. \A p \in 0..(n - 1) : f[p] = <<<<p, end(p)>>>> \o f[next(p)]
    <3> TAKE p \in 0..(n - 1)
    <3>1. jump[p] = next(p) /\ next(p) \in 0..n
      BY <1>1, <1>3
    <3>2. f[p] = step[p][f[jump[p]]]
      BY <2>1 DEF Jumping
    <3>3. f[next(p)] \in V
      BY <3>1
    <3> HIDE DEF V, step, jump
    <3>4. QED
      BY <1>4, <3>1, <3>2, <3>3
  <2>3. f[n] = <<>>
    BY <2>1 DEF Jumping
  <2>4. \A p \in 0..n : f[p] = IF p >= n THEN <<>> ELSE <<<<p, end(p)>>>> \o f[next(p)]
    <3> TAKE p \in 0..n
    <3>1. p = n \/ (p \in 0..(n - 1) /\ ~(p >= n))
      BY <1>3
    <3>2. n >= n
      BY <1>3
    <3>3. QED
      BY <2>2, <2>3, <3>1, <3>2
  <2>5. Are(f)
    BY <2>1, <2>4
  <2> HIDE DEF Are
  <2>6. QED
    BY <2>5
<1> DEFINE from == CHOOSE f : Are(f)
<1>9. Are(from)
  BY <1>8
<1> HIDE DEF from
<1>10. /\ \A p \in 0..(n - 1) : from[p] = <<<<p, end(p)>>>> \o from[next(p)]
       /\ from[n] = <<>>
  <2>1. n \in 0..n /\ n >= n /\ \A p \in 0..(n - 1) : p \in 0..n /\ ~(p >= n)
    BY <1>3
  <2>2. QED
    BY <1>9, <2>1
<1> HIDE DEF Are, jump, step
<1> DEFINE Good(p) == from[p] \in V /\ Covers(text, size, p, from[p])
<1> DEFINE S == {m \in 0..n : \A p \in (n - m)..n : Good(p)}
<1>11. Good(n)
  <2>1. from[n] \in V /\ DOMAIN from[n] = {}
    BY <1>6, <1>10
  <2>2. (n + 1)..Len(text) = {}
    BY <1>3 DEF n
  <2> HIDE DEF V
  <2>3. QED
    BY <2>1, <2>2 DEF Covers
<1>12. ASSUME NEW p \in 0..(n - 1), Good(next(p)) PROVE Good(p)
  <2>1. from[p] \in V
    BY <1>5, <1>10, <1>12
  <2>2. Covers(text, size, p, <<<<p, end(p)>>>> \o from[next(p)])
    <3>1. /\ p \in Nat /\ end(p) \in Nat /\ next(p) \in Nat /\ p < end(p) /\ end(p) <= next(p)
          /\ next(p) <= n /\ end(p) - p <= size
          /\ \A i \in (end(p) + 1)..next(p) : IsSpace(text[i])
      BY <1>1, <1>3
    <3>2. QED
      BY <1>12, <3>1, CoversMore DEF n
  <2>3. QED
    BY <1>10, <2>1, <2>2
<1>13. 0 \in S
  <2>1. \A p \in (n - 0)..n : p = n
    BY <1>3
  <2> HIDE DEF Good
  <2>2. QED
    BY <1>3, <1>11, <2>1
<1>14. \A m \in 1..n : m - 1 \in S => m \in S
  <2> SUFFICES ASSUME NEW m \in 1..n, m - 1 \in S PROVE m \in S
    OBVIOUS
  <2>1. \A p \in (n - (m - 1))..n : Good(p)
    OBVIOUS
  <2> HIDE DEF Good
  <2>2. ASSUME NEW p \in (n - m)..n PROVE Good(p)
    <3>1. CASE p \in (n - (m - 1))..n
      BY <2>1, <3>1
    <3>2. CASE p \notin (n - (m - 1))..n
      <4>1. p = n - m /\ p \in 0..(n - 1)
        BY <1>3, <3>2
      <4>2. next(p) \in (p + 1)..n
        BY <1>1, <4>1
      <4>3. next(p) \in (n - (m - 1))..n
        BY <1>3, <4>1, <4>2
      <4>4. Good(next(p))
        BY <2>1, <4>3
      <4>5. QED
        BY <1>12, <4>1, <4>4
    <3>3. QED
      BY <3>1, <3>2
  <2>3. m \in 0..n
    BY <1>3
  <2>4. QED
    BY <2>2, <2>3
<1>15. n \in S
  <2> HIDE DEF S
  <2>1. \A i \in 0..n : i \in S
    BY <1>3, <1>13, <1>14, ReachesAll
  <2>2. QED
    BY <1>3, <2>1
<1>16. Good(0)
  <2> HIDE DEF Good
  <2>1. \A p \in (n - n)..n : Good(p)
    BY <1>15
  <2>2. 0 \in (n - n)..n
    BY <1>3
  <2>3. QED
    BY <2>1, <2>2
<1>17. QED
  BY <1>2, <1>16 DEF from

-----------------------------------------------------------------------------
(* What the provider sees. *)

\* How an exchange with the parser process ends.
Outcomes == {"answered", "unavailable", "timeout", "broken"}

\* A file whose size is refused is refused for that.
LEMMA PayloadErrorSays ==
  ASSUME NEW doc, ~PayloadError(doc).ok
  PROVE  PayloadError(doc).code \in {"attachment_too_large", "empty_attachment"}
<1>1. CASE doc.size > MaxBytes
  BY <1>1 DEF PayloadError, Unreadable
<1>2. CASE ~(doc.size > MaxBytes) /\ doc.size = 0
  BY <1>2 DEF PayloadError, Unreadable
<1>3. CASE ~(doc.size > MaxBytes) /\ doc.size # 0
  BY <1>3 DEF PayloadError, Parsed
<1>4. QED
  BY <1>1, <1>2, <1>3

\* What recognition, and the parsers, answer when they answer with pages.
LEMMA ParsedSays ==
  ASSUME NEW doc, NEW ocr, NEW outcome \in Outcomes, ProcessBytes(doc, ocr, outcome).ok
  PROVE  /\ doc.state # "broken" \/ doc.type = "image"
         /\ doc.state # "encrypted" \/ doc.type # "pdf"
         /\ ProcessBytes(doc, ocr, outcome).pages
              = IF PagesWith(doc, {"text"}) # {} /\ doc.type # "image" THEN PagesWith(doc, {"text"})
                ELSE PagesWith(doc, {"scan", "text"})
         /\ ProcessBytes(doc, ocr, outcome).pages # {}
<1> DEFINE result == ProcessBytes(doc, ocr, outcome)
<1> DEFINE layers == PagesWith(doc, {"text"})
<1> DEFINE pictures == PagesWith(doc, {"scan", "text"})
<1>1. \A code : ~Unreadable(code).ok /\ ~Corrupt(code).ok
  BY DEF Unreadable, Corrupt
<1>2. \A pages : Parsed(pages).ok /\ Parsed(pages).pages = pages /\ Parsed(pages).code = "none"
  BY DEF Parsed
<1>3. ASSUME Recognize(doc, ocr).ok
      PROVE  Recognize(doc, ocr) = Parsed(pictures) /\ pictures # {}
  BY <1>1, <1>3 DEF Recognize
<1>4. CASE doc.type = "text"
  <2>1. result = ParseText(doc)
    BY <1>4 DEF ProcessBytes
  <2>2. result = Parsed(layers) /\ layers # {} /\ doc.state # "broken"
    BY <1>1, <2>1 DEF ParseText
  <2>3. QED
    BY <1>2, <1>4, <2>2
<1>5. ASSUME doc.type \in {"image", "pdf"}
      PROVE  result = ParseRequest(doc, ocr)
  <2>1. result = Exchange(doc, ocr, outcome)
    BY <1>5 DEF ProcessBytes
  <2>2. outcome = "answered"
    BY <1>1, <2>1 DEF Exchange, Outcomes
  <2>3. QED
    BY <2>1, <2>2 DEF Exchange
<1>6. CASE doc.type = "image"
  <2>1. result = ParseImage(doc, ocr)
    BY <1>5, <1>6 DEF ParseRequest
  <2>2. result = Recognize(doc, ocr)
    BY <1>1, <2>1, PayloadErrorSays DEF ParseImage
  <2>3. QED
    BY <1>2, <1>3, <1>6, <2>2
<1>7. CASE doc.type = "pdf"
  <2>1. ASSUME ParsePdf(doc).ok
        PROVE  ParsePdf(doc) = Parsed(layers) /\ layers # {} /\ doc.state \notin {"broken", "encrypted"}
    BY <1>1, <2>1, PayloadErrorSays DEF ParsePdf
  <2>2. ASSUME ParsePdf(doc).code = "pdf_text_unavailable"
        PROVE  layers = {} /\ doc.state \notin {"broken", "encrypted"}
    <3>1. \A code : Unreadable(code).code = code /\ Corrupt(code).code = code
      BY DEF Unreadable, Corrupt
    <3>2. PayloadError(doc).ok
      BY <2>2, <3>1, PayloadErrorSays DEF ParsePdf
    <3>3. doc.header /\ doc.state # "encrypted" /\ doc.state # "broken"
      BY <2>2, <3>1, <3>2 DEF ParsePdf
    <3>4. QED
      BY <1>2, <2>2, <3>2, <3>3 DEF ParsePdf
  <2>3. CASE ParsePdf(doc).code = "pdf_text_unavailable" /\ ocr.enabled
    <3>1. result = ParsePdfOcr(doc, ocr)
      BY <1>5, <1>7, <2>3 DEF ParseRequest
    <3>2. result = Recognize(doc, ocr)
      BY <1>1, <3>1 DEF ParsePdfOcr
    <3>3. QED
      BY <1>2, <1>3, <1>7, <2>2, <2>3, <3>2
  <2>4. CASE ~(ParsePdf(doc).code = "pdf_text_unavailable" /\ ocr.enabled)
    <3>1. result = ParsePdf(doc)
      BY <1>5, <1>7, <2>4 DEF ParseRequest
    <3>2. QED
      BY <1>2, <1>7, <2>1, <3>1
  <2>5. QED
    BY <2>3, <2>4
<1>8. CASE doc.type \notin {"text", "image", "pdf"}
  BY <1>1, <1>8 DEF ProcessBytes
<1>9. QED
  BY <1>4, <1>6, <1>7, <1>8

-----------------------------------------------------------------------------
(* What reaches the provider, for inputs of any size. *)

AnyFile == case.part = "file" => case.outcome \in Outcomes
AnyText == case.part = "text" => case.text \in Seq({"x", "s", "t"}) /\ case.size \in Nat /\ case.size >= 1
AnyLengths ==
  case.part = "lengths" => case.lengths \in Seq(Nat) /\ case.each \in Nat /\ case.total \in Nat
AnySteps ==
  case.part = "steps" =>
    /\ case.scorer \in BOOLEAN
    /\ \E n \in Nat : /\ DOMAIN case.steps = 1..n
                      /\ \A i \in 1..n : case.score[i] \in Int /\ case.rerank[i] \in Int

\* Files of any number of pages, texts, budgets and processes of any length: nothing that
\* must be shown is lost on the way to the provider.
THEOREM ProviderForAnyInput ==
  ASSUME AnyFile, AnyText, AnyLengths, AnySteps
  PROVE  ProviderSeesWhatItMust
<1>1. ParsedPagesAreComplete
  <2>1. SUFFICES ASSUME case.part = "file", ProcessBytes(case.doc, case.ocr, case.outcome).ok
                 PROVE  /\ case.doc.state # "broken" \/ case.doc.type = "image"
                        /\ case.doc.state # "encrypted" \/ case.doc.type # "pdf"
                        /\ ProcessBytes(case.doc, case.ocr, case.outcome).pages
                             = IF PagesWith(case.doc, {"text"}) # {} /\ case.doc.type # "image"
                               THEN PagesWith(case.doc, {"text"})
                               ELSE PagesWith(case.doc, {"scan", "text"})
                        /\ ProcessBytes(case.doc, case.ocr, case.outcome).pages # {}
    BY DEF ParsedPagesAreComplete
  <2>2. case.outcome \in Outcomes
    BY <2>1 DEF AnyFile
  <2>3. QED
    BY <2>1, <2>2, ParsedSays
<1>2. ChunksCoverText
  <2>1. SUFFICES ASSUME case.part = "text"
                 PROVE  ChunksCoverText
    BY DEF ChunksCoverText
  <2> DEFINE chunks == ChunkText(case.text, case.size)
  <2>2. /\ case.size \in Nat /\ case.size >= 1 /\ Len(case.text) \in Nat
        /\ DOMAIN case.text = 1..Len(case.text)
    BY <2>1 DEF AnyText
  <2>3. chunks \in Seq(Nat \X Nat) /\ Covers(case.text, case.size, 0, chunks)
    BY <2>2, ChunksCover
  <2> HIDE DEF chunks
  <2>4. \A k \in DOMAIN chunks : /\ chunks[k][1] < chunks[k][2]
                                 /\ chunks[k][2] - chunks[k][1] <= case.size
                                 /\ \A j \in 1..(k - 1) : chunks[j][2] <= chunks[k][1]
    BY <2>3 DEF Covers
  <2>5. \A i \in DOMAIN case.text :
          IsSpace(case.text[i]) \/ \E k \in DOMAIN chunks : chunks[k][1] < i /\ i <= chunks[k][2]
    <3>1. (0 + 1)..Len(case.text) = DOMAIN case.text
      BY <2>2
    <3>2. QED
      BY <2>3, <3>1 DEF Covers
  <2>6. QED
    BY <2>4, <2>5 DEF ChunksCoverText, chunks
<1>3. BudgetIsShared
  <2>1. SUFFICES ASSUME case.part = "lengths"
                 PROVE  BudgetIsShared
    BY DEF BudgetIsShared
  <2> DEFINE kept == ShareBudget(case.lengths, case.total)
  <2>2. case.lengths \in Seq(Nat) /\ case.each \in Nat /\ case.total \in Nat
    BY <2>1 DEF AnyLengths
  <2>3. /\ kept \in Seq(Nat) /\ Len(kept) = Len(case.lengths) /\ SumOf(kept) <= case.total
        /\ \A i \in 1..Len(case.lengths) :
             /\ kept[i] <= case.lengths[i]
             /\ kept[i] >= Least({case.lengths[i], case.total \div Len(case.lengths)})
    BY <2>2, SharesAreFair
  <2>4. SumOf(SerializeSteps(case.lengths, case.each, case.total)) <= case.total
    BY <2>2, StepsKeepToTotal
  <2> HIDE DEF kept
  <2>5. DOMAIN kept = 1..Len(case.lengths)
    BY <2>3
  <2>6. QED
    BY <2>3, <2>4, <2>5 DEF BudgetIsShared, kept
<1>4. ASSUME case.part = "steps"
      PROVE  /\ \A i \in EligibleOf :
                  (\A k \in EligibleOf : i <= k) \/ (\A k \in EligibleOf : k <= i) \/ i \in case.milestones
                    => i \in SentToProvider
             /\ Cardinality(SentToProvider)
                  <= Max({RerankOutput, LegacyOutput, Cardinality(Mandatory(EligibleOf, case.milestones))})
  <2>1. PICK n \in Nat : /\ DOMAIN case.steps = 1..n
                         /\ \A i \in 1..n : case.score[i] \in Int /\ case.rerank[i] \in Int
    BY <1>4 DEF AnySteps
  <2>2. EligibleOf \subseteq 1..n /\ case.scorer \in BOOLEAN
    BY <1>4, <2>1 DEF EligibleOf, AnySteps
  <2>3. \A i \in EligibleOf : case.score[i] \in Int /\ case.rerank[i] \in Int
    BY <2>1, <2>2
  <2>4. /\ Mandatory(EligibleOf, case.milestones) \subseteq SentToProvider
        /\ Cardinality(SentToProvider)
             <= Max({RerankOutput, LegacyOutput, Cardinality(Mandatory(EligibleOf, case.milestones))})
    BY <2>2, <2>3, ContextKeepsMandatory DEF SentToProvider
  <2>5. \A i \in EligibleOf :
          (\A k \in EligibleOf : i <= k) \/ (\A k \in EligibleOf : k <= i) \/ i \in case.milestones
            => i \in Mandatory(EligibleOf, case.milestones)
    BY <2>2, FirstAndLast
  <2>6. QED
    BY <2>4, <2>5
<1>5. MandatoryReachesProvider /\ ContextIsBounded
  BY <1>4 DEF MandatoryReachesProvider, ContextIsBounded
<1>6. QED
  BY <1>1, <1>2, <1>3, <1>5 DEF ProviderSeesWhatItMust

-----------------------------------------------------------------------------
(* The document and its canonical form. *)

Marks == {"plain", "control", "guarded"}
Texts == [mark : Marks, len : Nat]

\* An item of a parsed list: not blank, and guarded where it must be.
Settled(t) == t.len > 0 /\ t.mark # "control"

\* The items of a parsed list are settled, and no more than there were.
LEMMA ListIs ==
  ASSUME NEW items \in Seq(Texts)
  PROVE  /\ StringList(items) \in Seq(Texts)
         /\ Len(StringList(items)) <= Len(items)
         /\ \A k \in 1..Len(StringList(items)) : Settled(StringList(items)[k])
<1> DEFINE I == {i \in DOMAIN items : items[i].len > 0}
<1> DEFINE kept == KeepAt(items, I)
<1> DEFINE c == Cardinality(I)
<1>1. /\ Len(items) \in Nat /\ DOMAIN items = 1..Len(items) /\ I \subseteq 1..Len(items)
      /\ \A i \in I : items[i] \in Texts /\ items[i].len > 0
  OBVIOUS
<1>2. StringList(items) = [i \in DOMAIN kept |-> ProseLine(kept[i])]
  BY DEF StringList
<1> HIDE DEF I
<1>3. /\ c \in Nat /\ c <= Len(items)
      /\ kept = [k \in 1..c |-> kept[k]]
      /\ \E place \in [1..c -> I] : KeepsBy(place, items, I)
  BY <1>1, KeptElements
<1>4. ASSUME NEW k \in 1..c PROVE kept[k] \in Texts /\ kept[k].len > 0
  <2>1. PICK place \in [1..c -> I] : KeepsBy(place, items, I)
    BY <1>3
  <2>2. kept[k] = items[place[k]] /\ place[k] \in I
    BY <2>1 DEF KeepsBy
  <2>3. QED
    BY <1>1, <2>2
<1>5. DOMAIN kept = 1..c
  BY <1>3
<1> HIDE DEF kept, c
<1>6. ASSUME NEW k \in 1..c PROVE ProseLine(kept[k]) \in Texts /\ Settled(ProseLine(kept[k]))
  BY <1>4 DEF ProseLine, Settled, Texts, Marks
<1>7. StringList(items) = [k \in 1..c |-> ProseLine(kept[k])]
  BY <1>2, <1>5
<1>8. StringList(items) \in [1..c -> Texts] /\ \A k \in 1..c : Settled(StringList(items)[k])
  BY <1>6, <1>7
<1>9. StringList(items) \in Seq(Texts) /\ Len(StringList(items)) = c
  BY <1>3, <1>8, SeqDef, LenProperties
<1>10. QED
  BY <1>3, <1>8, <1>9

\* A parsed list is parsed as itself.
LEMMA ListSettles ==
  ASSUME NEW items \in Seq(Texts), \A k \in 1..Len(items) : Settled(items[k])
  PROVE  StringList(items) = items
<1> DEFINE n == Len(items)
<1> DEFINE I == {i \in DOMAIN items : items[i].len > 0}
<1>1. n \in Nat /\ DOMAIN items = 1..n /\ items = [k \in 1..n |-> items[k]]
  BY LenProperties
<1>2. I = 1..n
  BY <1>1 DEF Settled
<1>3. KeepAt(items, I) = items
  BY <1>1, <1>2, KeptWhole
<1>4. StringList(items) = [i \in DOMAIN items |-> ProseLine(items[i])]
  BY <1>3 DEF StringList
<1>5. \A k \in 1..n : ProseLine(items[k]) = items[k]
  BY DEF ProseLine, Settled
<1>6. QED
  BY <1>1, <1>4, <1>5

\* A list that fits does so when it has been parsed.
LEMMA ListFitsAgain ==
  ASSUME NEW items \in Seq(Texts), ListFits(items)
  PROVE  ListFits(StringList(items)) /\ StringList(StringList(items)) = StringList(items)
<1> DEFINE out == StringList(items)
<1>1. out \in Seq(Texts) /\ Len(out) <= Len(items) /\ \A k \in 1..Len(out) : Settled(out[k])
  BY ListIs
<1>2. Len(items) <= ItemsMax /\ \A i \in DOMAIN out : out[i].len <= ItemMax
  BY DEF ListFits
<1>3. Len(items) \in Nat /\ Len(out) \in Nat
  BY <1>1, LenProperties
<1> HIDE DEF out
<1>4. StringList(out) = out
  BY <1>1, ListSettles
<1>5. ListFits(out)
  BY <1>1, <1>2, <1>3, <1>4 DEF ListFits, ItemsMax
<1>6. QED
  BY <1>4, <1>5 DEF out

\* A text that is not at its limit fits again, and is not changed again.
LEMMA ProseSettles ==
  ASSUME NEW t \in Texts, NEW max \in Nat, TextFits(t, max), ~AtItsLimit(t, max)
  PROVE  TextFits(ProseLine(t), max) /\ ProseLine(ProseLine(t)) = ProseLine(t)
  BY DEF TextFits, AtItsLimit, ProseLine, Texts

\* The answers of the provider, with lists of any length.
AnyDocument ==
  case.part = "document" =>
    /\ case.raw.synthesis \in Texts /\ case.raw.status \in Texts
    /\ case.raw.timeline \in Seq(Texts) /\ case.raw.attention \in Seq(Texts)
    /\ case.raw.lists \in [DOMAIN ConditionalSections -> Seq(Texts)]

\* What an answer that parses looks like.
LEMMA ParsedIs ==
  ASSUME NEW raw, ParseSummary(raw).ok
  PROVE  /\ TextFits(raw.synthesis, SynthesisMax) /\ TextFits(raw.status, StatusMax)
         /\ ListFits(raw.timeline) /\ ListFits(raw.attention) /\ StringList(raw.attention) # <<>>
         /\ \A k \in DOMAIN raw.lists : ListFits(raw.lists[k])
         /\ ParseSummary(raw)
              = [ok |-> TRUE, synthesis |-> ProseLine(raw.synthesis), status |-> ProseLine(raw.status),
                 timeline |-> StringList(raw.timeline), attention |-> StringList(raw.attention),
                 lists |-> [k \in DOMAIN raw.lists |-> StringList(raw.lists[k])]]
<1>1. ~Refused.ok
  BY DEF Refused
<1>2. QED
  BY <1>1 DEF ParseSummary

\* A parsed document without a text that was at its limit is parsed as itself.
LEMMA SummarySettles ==
  ASSUME AnyDocument, case.part = "document", ParseSummary(case.raw).ok,
         ~AtItsLimit(case.raw.synthesis, SynthesisMax), ~AtItsLimit(case.raw.status, StatusMax)
  PROVE  ParseSummary(ParseSummary(case.raw)) = ParseSummary(case.raw)
<1> DEFINE raw == case.raw
<1> DEFINE parsed == ParseSummary(raw)
<1>1. /\ raw.synthesis \in Texts /\ raw.status \in Texts
      /\ raw.timeline \in Seq(Texts) /\ raw.attention \in Seq(Texts)
      /\ raw.lists \in [DOMAIN ConditionalSections -> Seq(Texts)]
  BY DEF AnyDocument
<1>2. /\ TextFits(raw.synthesis, SynthesisMax) /\ TextFits(raw.status, StatusMax)
      /\ ListFits(raw.timeline) /\ ListFits(raw.attention) /\ StringList(raw.attention) # <<>>
      /\ \A k \in DOMAIN raw.lists : ListFits(raw.lists[k])
      /\ parsed = [ok |-> TRUE, synthesis |-> ProseLine(raw.synthesis), status |-> ProseLine(raw.status),
                   timeline |-> StringList(raw.timeline), attention |-> StringList(raw.attention),
                   lists |-> [k \in DOMAIN raw.lists |-> StringList(raw.lists[k])]]
  BY ParsedIs
<1>0. ~AtItsLimit(raw.synthesis, SynthesisMax) /\ ~AtItsLimit(raw.status, StatusMax)
  OBVIOUS
<1> HIDE DEF raw, parsed
<1>3. /\ TextFits(parsed.synthesis, SynthesisMax) /\ ProseLine(parsed.synthesis) = parsed.synthesis
      /\ TextFits(parsed.status, StatusMax) /\ ProseLine(parsed.status) = parsed.status
  <2>1. SynthesisMax \in Nat /\ StatusMax \in Nat
    BY DEF SynthesisMax, StatusMax
  <2>2. QED
    BY <1>0, <1>1, <1>2, <2>1, ProseSettles
<1>4. /\ ListFits(parsed.timeline) /\ StringList(parsed.timeline) = parsed.timeline
      /\ ListFits(parsed.attention) /\ StringList(parsed.attention) = parsed.attention
      /\ parsed.attention # <<>>
  BY <1>1, <1>2, ListFitsAgain
<1>5. /\ DOMAIN parsed.lists = DOMAIN raw.lists
      /\ \A k \in DOMAIN raw.lists : /\ ListFits(parsed.lists[k])
                                     /\ StringList(parsed.lists[k]) = parsed.lists[k]
  BY <1>1, <1>2, ListFitsAgain
<1>6. [k \in DOMAIN parsed.lists |-> StringList(parsed.lists[k])] = parsed.lists
  BY <1>2, <1>5
<1>7. ParseSummary(parsed)
        = [ok |-> TRUE, synthesis |-> parsed.synthesis, status |-> parsed.status,
           timeline |-> parsed.timeline, attention |-> parsed.attention, lists |-> parsed.lists]
  BY <1>3, <1>4, <1>5, <1>6 DEF ParseSummary
<1>8. parsed = [ok |-> TRUE, synthesis |-> parsed.synthesis, status |-> parsed.status,
                timeline |-> parsed.timeline, attention |-> parsed.attention, lists |-> parsed.lists]
  BY <1>2
<1>9. QED
  BY <1>7, <1>8 DEF parsed, raw

\* A text that was at its limit does not fit again.
LEMMA LimitIsCrossed ==
  ASSUME NEW t \in Texts, NEW max \in Nat, AtItsLimit(t, max)
  PROVE  ~TextFits(ProseLine(t), max)
  BY DEF AtItsLimit, TextFits, ProseLine, Texts

\* A document made of an answer that parses is canonical in all cases but those of
\* CanonicalUnless.
LEMMA ParsedIsCanonical ==
  AnyDocument => CanonicalUnless
<1> DEFINE parsed == ParseSummary(case.raw)
<1> DEFINE doc == StructuredDocument(parsed, case.process)
<1> DEFINE Crossed == \/ AtItsLimit(case.raw.synthesis, SynthesisMax)
                      \/ AtItsLimit(case.raw.status, StatusMax)
<1> DEFINE Typed == "nested" \notin case.process.header /\ case.process.parties \subseteq {"none", "text"}
<1> SUFFICES ASSUME AnyDocument, case.part = "document", parsed.ok
             PROVE  DocumentIsCanonical(doc) <=> ~Crossed /\ Typed
  BY DEF CanonicalUnless
<1>1. ProcessIsCanonical(doc.process) <=> Typed
  <2>1. /\ doc.process.header = case.process.header \ {"none"}
        /\ doc.process.parties = case.process.parties \ {"none"}
    BY DEF StructuredDocument, StructuredProcess
  <2> HIDE DEF doc
  <2>2. QED
    BY <2>1 DEF ProcessIsCanonical
<1>2. doc.summary = parsed
  BY DEF StructuredDocument
<1>3. ~Crossed => ParseSummary(parsed) = parsed
  BY SummarySettles
<1>4. Crossed => ParseSummary(parsed) # parsed
  <2> SUFFICES ASSUME Crossed PROVE ParseSummary(parsed) # parsed
    OBVIOUS
  <2>1. /\ case.raw.synthesis \in Texts /\ case.raw.status \in Texts
        /\ SynthesisMax \in Nat /\ StatusMax \in Nat
    BY DEF AnyDocument, SynthesisMax, StatusMax
  <2>2. parsed = [ok |-> TRUE, synthesis |-> ProseLine(case.raw.synthesis),
                  status |-> ProseLine(case.raw.status), timeline |-> StringList(case.raw.timeline),
                  attention |-> StringList(case.raw.attention),
                  lists |-> [k \in DOMAIN case.raw.lists |-> StringList(case.raw.lists[k])]]
    BY ParsedIs
  <2>3. parsed.synthesis = ProseLine(case.raw.synthesis) /\ parsed.status = ProseLine(case.raw.status)
    BY <2>2
  <2> HIDE DEF parsed
  <2>4. ~TextFits(parsed.synthesis, SynthesisMax) \/ ~TextFits(parsed.status, StatusMax)
    BY <2>1, <2>3, LimitIsCrossed
  <2>5. ParseSummary(parsed) = Refused
    BY <2>4 DEF ParseSummary
  <2>6. QED
    BY <2>5 DEF Refused
<1> HIDE DEF doc, parsed, Crossed, Typed
<1>5. QED
  BY <1>1, <1>2, <1>3, <1>4 DEF DocumentIsCanonical

-----------------------------------------------------------------------------
(* The rendered document. *)

\* The titles in the order of the document.
Titles ==
  <<"Resumo do processo", "Partes", "Classe", "Assuntos", "Movimentacoes", "Atencao",
    "decisions", "deadlines", "related_processes", "attachments">>
Place(t) == CHOOSE k \in 1..10 : Titles[k] = t
Lines == [heading : BOOLEAN, title : {Titles[k] : k \in 1..10} \cup {"none"}]

\* The headings of some lines are those from the title lo to the title hi, in their order.
Ascends(lines, lo, hi) ==
  /\ \A i \in Headings(lines) :
       \E k \in lo..hi : k \in 1..10 /\ lines[i].title = Titles[k]
  /\ \A i, j \in Headings(lines) : i < j => Place(lines[i].title) < Place(lines[j].title)

\* No title stands twice.
LEMMA TitlesDiffer ==
  \A i, j \in 1..10 : Titles[i] = Titles[j] => i = j
<1>1. /\ Titles[1] = "Resumo do processo" /\ Titles[2] = "Partes" /\ Titles[3] = "Classe"
      /\ Titles[4] = "Assuntos" /\ Titles[5] = "Movimentacoes" /\ Titles[6] = "Atencao"
      /\ Titles[7] = "decisions" /\ Titles[8] = "deadlines" /\ Titles[9] = "related_processes"
      /\ Titles[10] = "attachments"
  BY DEF Titles
<1>2. ASSUME NEW i \in 1..10, NEW j \in 1..10, i < j PROVE Titles[i] # Titles[j]
  <2>1. i \in {1, 2, 3, 4, 5, 6, 7, 8, 9} /\ j \in {2, 3, 4, 5, 6, 7, 8, 9, 10}
    BY <1>2
  <2>2. CASE i = 1
    <3>1. j \in {2, 3, 4, 5, 6, 7, 8, 9, 10}
      BY <1>2, <2>1, <2>2
    <3>2. QED
      BY <1>1, <2>2, <3>1
  <2>3. CASE i = 2
    <3>1. j \in {3, 4, 5, 6, 7, 8, 9, 10}
      BY <1>2, <2>1, <2>3
    <3>2. QED
      BY <1>1, <2>3, <3>1
  <2>4. CASE i = 3
    <3>1. j \in {4, 5, 6, 7, 8, 9, 10}
      BY <1>2, <2>1, <2>4
    <3>2. QED
      BY <1>1, <2>4, <3>1
  <2>5. CASE i = 4
    <3>1. j \in {5, 6, 7, 8, 9, 10}
      BY <1>2, <2>1, <2>5
    <3>2. QED
      BY <1>1, <2>5, <3>1
  <2>6. CASE i = 5
    <3>1. j \in {6, 7, 8, 9, 10}
      BY <1>2, <2>1, <2>6
    <3>2. QED
      BY <1>1, <2>6, <3>1
  <2>7. CASE i = 6
    <3>1. j \in {7, 8, 9, 10}
      BY <1>2, <2>1, <2>7
    <3>2. QED
      BY <1>1, <2>7, <3>1
  <2>8. CASE i = 7
    <3>1. j \in {8, 9, 10}
      BY <1>2, <2>1, <2>8
    <3>2. QED
      BY <1>1, <2>8, <3>1
  <2>9. CASE i = 8
    <3>1. j \in {9, 10}
      BY <1>2, <2>1, <2>9
    <3>2. QED
      BY <1>1, <2>9, <3>1
  <2>10. CASE i = 9
    <3>1. j \in {10}
      BY <1>2, <2>1, <2>10
    <3>2. QED
      BY <1>1, <2>10, <3>1
  <2>11. QED
    BY <2>1, <2>2, <2>3, <2>4, <2>5, <2>6, <2>7, <2>8, <2>9, <2>10
<1>3. \A i, j \in 1..10 : i # j => i < j \/ j < i
  OBVIOUS
<1>4. QED
  BY <1>2, <1>3

\* Each title has its place.
LEMMA PlaceIs ==
  ASSUME NEW k \in 1..10
  PROVE  Place(Titles[k]) = k
  BY TitlesDiffer DEF Place

\* The conditional sections are the last four titles.
LEMMA SectionTitles ==
  DOMAIN ConditionalSections = 1..4 /\ \A k \in 1..4 : ConditionalSections[k] = Titles[k + 6]
  BY DEF ConditionalSections, Titles

\* The core sections are the titles from the second to the sixth, the conditional ones the
\* last four.
LEMMA SectionPlaces ==
  /\ \A k \in 1..10 : Titles[k] \in ToSet(CoreSections) => PositionIn(CoreSections, Titles[k]) = k - 1
  /\ \A k \in 1..10 : Titles[k] \in ToSet(ConditionalSections)
                        => PositionIn(ConditionalSections, Titles[k]) = k - 6
  /\ \A k \in 1..10 : Titles[k] \in {Title} \cup ToSet(CoreSections) \cup ToSet(ConditionalSections)
<1>1. DOMAIN CoreSections = 1..5 /\ \A k \in 1..5 : CoreSections[k] = Titles[k + 1]
  BY DEF CoreSections, Titles
<1>2. DOMAIN ConditionalSections = 1..4 /\ \A k \in 1..4 : ConditionalSections[k] = Titles[k + 6]
  BY SectionTitles
<1>3. \A i, j \in 1..10 : Titles[i] = Titles[j] => i = j
  BY TitlesDiffer
<1>4. Title = Titles[1]
  BY DEF Title, Titles
<1>5. ASSUME NEW k \in 1..10, Titles[k] \in ToSet(CoreSections)
      PROVE  PositionIn(CoreSections, Titles[k]) = k - 1
  <2>1. PICK i \in 1..5 : CoreSections[i] = Titles[k]
    BY <1>1, <1>5 DEF ToSet
  <2>2. i + 1 \in 1..10 /\ i + 1 = k
    BY <1>1, <1>3, <2>1
  <2>3. \A j \in 1..5 : CoreSections[j] = Titles[k] => j = k - 1
    <3> TAKE j \in 1..5
    <3>1. j + 1 \in 1..10
      OBVIOUS
    <3>2. QED
      BY <1>1, <1>3, <3>1
  <2>4. QED
    BY <1>1, <2>1, <2>3 DEF PositionIn
<1>6. ASSUME NEW k \in 1..10, Titles[k] \in ToSet(ConditionalSections)
      PROVE  PositionIn(ConditionalSections, Titles[k]) = k - 6
  <2>1. PICK i \in 1..4 : ConditionalSections[i] = Titles[k]
    BY <1>2, <1>6 DEF ToSet
  <2>3. \A j \in 1..4 : ConditionalSections[j] = Titles[k] => j = k - 6
    <3> TAKE j \in 1..4
    <3>1. j + 6 \in 1..10
      OBVIOUS
    <3>2. QED
      BY <1>2, <1>3, <3>1
  <2>4. QED
    BY <1>2, <2>1, <2>3 DEF PositionIn
<1>7. ASSUME NEW k \in 1..10
      PROVE  Titles[k] \in {Title} \cup ToSet(CoreSections) \cup ToSet(ConditionalSections)
  <2>1. CASE k = 1
    BY <1>4, <2>1
  <2>2. CASE k \in 2..6
    <3>1. k - 1 \in 1..5 /\ (k - 1) + 1 = k
      BY <2>2
    <3>2. CoreSections[k - 1] = Titles[k]
      BY <1>1, <3>1
    <3>3. QED
      BY <1>1, <3>1, <3>2 DEF ToSet
  <2>3. CASE k \in 7..10
    <3>1. k - 6 \in 1..4 /\ (k - 6) + 6 = k
      BY <2>3
    <3>2. ConditionalSections[k - 6] = Titles[k]
      BY <1>2, <3>1
    <3>3. QED
      BY <1>2, <3>1, <3>2 DEF ToSet
  <2>4. QED
    BY <2>1, <2>2, <2>3
<1>8. QED
  BY <1>5, <1>6, <1>7

\* The lines of two parts one after the other.
LEMMA JoinedLines ==
  ASSUME NEW a \in Seq(Lines), NEW b \in Seq(Lines)
  PROVE  /\ a \o b \in Seq(Lines) /\ Len(a \o b) = Len(a) + Len(b)
         /\ DOMAIN (a \o b) = 1..(Len(a) + Len(b))
         /\ \A i \in 1..Len(a) : (a \o b)[i] = a[i]
         /\ \A i \in 1..(Len(a) + Len(b)) : i \notin 1..Len(a) => /\ i - Len(a) \in 1..Len(b)
                                                                 /\ (a \o b)[i] = b[i - Len(a)]
<1>1. Len(a) \in Nat /\ Len(b) \in Nat
  BY LenProperties
<1>2. /\ a \o b \in Seq(Lines) /\ Len(a \o b) = Len(a) + Len(b)
      /\ \A i \in 1..(Len(a) + Len(b)) : (a \o b)[i] = IF i <= Len(a) THEN a[i] ELSE b[i - Len(a)]
  BY ConcatProperties
<1>3. \A i \in 1..Len(a) : i \in 1..(Len(a) + Len(b)) /\ i <= Len(a)
  BY <1>1
<1>4. \A i \in 1..(Len(a) + Len(b)) : i \notin 1..Len(a) => i - Len(a) \in 1..Len(b) /\ ~(i <= Len(a))
  BY <1>1
<1>5. DOMAIN (a \o b) = 1..(Len(a) + Len(b))
  BY <1>2, LenProperties
<1> QED
  BY <1>2, <1>3, <1>4, <1>5

\* Two parts with the earlier titles in the first.
LEMMA JoinAscends ==
  ASSUME NEW a \in Seq(Lines), NEW b \in Seq(Lines),
         NEW l1 \in Nat, NEW h1 \in Nat, NEW l2 \in Nat, NEW h2 \in Nat,
         Ascends(a, l1, h1), Ascends(b, l2, h2), l1 <= l2, h1 <= h2, h1 < l2
  PROVE  a \o b \in Seq(Lines) /\ Ascends(a \o b, l1, h2)
<1> DEFINE c == a \o b
<1>1. Len(a) \in Nat /\ Len(b) \in Nat /\ DOMAIN a = 1..Len(a) /\ DOMAIN b = 1..Len(b)
  BY LenProperties
<1>2. /\ c \in Seq(Lines) /\ DOMAIN c = 1..(Len(a) + Len(b))
      /\ \A i \in 1..Len(a) : c[i] = a[i]
      /\ \A i \in 1..(Len(a) + Len(b)) : i \notin 1..Len(a) => /\ i - Len(a) \in 1..Len(b)
                                                              /\ c[i] = b[i - Len(a)]
  BY JoinedLines
<1> HIDE DEF c
<1>3. ASSUME NEW i \in Headings(c), i \in 1..Len(a)
      PROVE  i \in Headings(a) /\ \E k \in l1..h1 : k \in 1..10 /\ c[i].title = Titles[k]
  BY <1>1, <1>2, <1>3 DEF Ascends, Headings
<1>4. ASSUME NEW i \in Headings(c), i \notin 1..Len(a)
      PROVE  /\ i - Len(a) \in Headings(b) /\ c[i] = b[i - Len(a)]
             /\ \E k \in l2..h2 : k \in 1..10 /\ c[i].title = Titles[k]
  BY <1>1, <1>2, <1>4 DEF Ascends, Headings
<1>5. ASSUME NEW i \in Headings(c)
      PROVE  \E k \in l1..h2 : k \in 1..10 /\ c[i].title = Titles[k]
  <2>1. CASE i \in 1..Len(a)
    BY <1>3, <2>1
  <2>2. CASE i \notin 1..Len(a)
    BY <1>4, <2>2
  <2>3. QED
    BY <2>1, <2>2
<1>6. ASSUME NEW i \in Headings(c), NEW j \in Headings(c), i < j
      PROVE  Place(c[i].title) < Place(c[j].title)
  <2>0. i \in 1..(Len(a) + Len(b)) /\ j \in 1..(Len(a) + Len(b))
    BY <1>2 DEF Headings
  <2>1. CASE j \in 1..Len(a)
    <3>1. i \in 1..Len(a)
      BY <1>1, <1>6, <2>0, <2>1
    <3>2. QED
      BY <1>2, <1>3, <1>6, <2>1, <3>1 DEF Ascends
  <2>2. CASE i \in 1..Len(a) /\ j \notin 1..Len(a)
    <3>1. PICK k \in l1..h1 : k \in 1..10 /\ c[i].title = Titles[k]
      BY <1>3, <2>2
    <3>2. PICK l \in l2..h2 : l \in 1..10 /\ c[j].title = Titles[l]
      BY <1>4, <2>2
    <3>3. Place(c[i].title) = k /\ Place(c[j].title) = l
      BY <3>1, <3>2, PlaceIs
    <3>4. k < l
      OBVIOUS
    <3>5. QED
      BY <3>3, <3>4
  <2>3. CASE i \notin 1..Len(a) /\ j \notin 1..Len(a)
    <3>1. i - Len(a) < j - Len(a)
      BY <1>1, <1>6, <2>0
    <3>2. QED
      BY <1>4, <2>3, <3>1 DEF Ascends
  <2>4. QED
    BY <1>1, <1>6, <2>0, <2>1, <2>2, <2>3
<1>7. QED
  BY <1>2, <1>5, <1>6 DEF Ascends, c

\* What the rules on the shape ask: the titles rise from the first line on, and the points
\* of attention have a line.
Shaped(lines, hi) ==
  /\ lines \in Seq(Lines) /\ Ascends(lines, 1, hi)
  /\ Len(lines) >= 1 /\ lines[1] = Heading(Title)
HasAttention(lines) ==
  \E i \in 1..(Len(lines) - 1) : lines[i] = Heading("Atencao") /\ ~lines[i + 1].heading

\* Another part with later titles keeps the shape.
LEMMA JoinShaped ==
  ASSUME NEW a, NEW h1 \in Nat, Shaped(a, h1), NEW b \in Seq(Lines), NEW l2 \in Nat, NEW h2 \in Nat,
         Ascends(b, l2, h2), 1 <= l2, h1 <= h2, h1 < l2
  PROVE  Shaped(a \o b, h2) /\ (HasAttention(a) => HasAttention(a \o b))
<1>1. a \in Seq(Lines) /\ Ascends(a, 1, h1) /\ Len(a) >= 1 /\ a[1] = Heading(Title)
  BY DEF Shaped
<1>2. Len(a) \in Nat /\ Len(b) \in Nat
  BY <1>1, LenProperties
<1>3. a \o b \in Seq(Lines) /\ Ascends(a \o b, 1, h2)
  BY <1>1, JoinAscends
<1>4. Len(a \o b) = Len(a) + Len(b) /\ \A i \in 1..Len(a) : (a \o b)[i] = a[i]
  BY <1>1, JoinedLines
<1>5. Shaped(a \o b, h2)
  BY <1>1, <1>2, <1>3, <1>4 DEF Shaped
<1>6. ASSUME HasAttention(a) PROVE HasAttention(a \o b)
  <2>1. PICK i \in 1..(Len(a) - 1) : a[i] = Heading("Atencao") /\ ~a[i + 1].heading
    BY <1>6 DEF HasAttention
  <2>2. i \in 1..Len(a) /\ i + 1 \in 1..Len(a) /\ i \in 1..((Len(a) + Len(b)) - 1)
    BY <1>2
  <2>3. (a \o b)[i] = a[i] /\ (a \o b)[i + 1] = a[i + 1]
    BY <1>4, <2>2
  <2>4. QED
    BY <1>4, <2>1, <2>2, <2>3 DEF HasAttention
<1>7. QED
  BY <1>5, <1>6

\* Lines that are no headings fit anywhere.
LEMMA ItemsAscend ==
  ASSUME NEW n \in Nat, NEW lo \in Nat, NEW hi \in Nat
  PROVE  /\ Items(n) \in Seq(Lines) /\ Len(Items(n)) = n
         /\ \A i \in 1..n : ~Items(n)[i].heading
         /\ Ascends(Items(n), lo, hi)
<1>1. Line \in Lines /\ ~Line.heading
  BY DEF Line, Lines
<1>2. Items(n) \in [1..n -> Lines] /\ \A i \in 1..n : Items(n)[i] = Line
  BY <1>1 DEF Items
<1>3. Items(n) \in Seq(Lines) /\ Len(Items(n)) = n /\ DOMAIN Items(n) = 1..n
  BY <1>2, SeqDef, LenProperties
<1>4. Headings(Items(n)) = {}
  BY <1>1, <1>2, <1>3 DEF Headings
<1>5. QED
  BY <1>1, <1>2, <1>3, <1>4 DEF Ascends

\* A conditional section has its own title, or is not there.
LEMMA SectionAscends ==
  ASSUME NEW p, NEW k \in 1..4, p.lists[k] \in Seq(Texts)
  PROVE  Section(p, k) \in Seq(Lines) /\ Ascends(Section(p, k), k + 6, k + 6)
<1>1. CASE p.lists[k] = <<>>
  <2>1. Section(p, k) = <<>>
    BY <1>1 DEF Section
  <2>2. QED
    BY <2>1 DEF Ascends, Headings
<1>2. CASE p.lists[k] # <<>>
  <2> DEFINE n == Len(p.lists[k])
  <2> DEFINE head == <<Heading(ConditionalSections[k])>>
  <2>1. Section(p, k) = head \o Items(n)
    BY <1>2 DEF Section
  <2>2. n \in Nat
    BY LenProperties
  <2>4. k + 6 \in 1..10 /\ ConditionalSections[k] = Titles[k + 6]
    <3>1. \A l \in 1..4 : ConditionalSections[l] = Titles[l + 6]
      BY SectionTitles
    <3>2. QED
      BY <3>1
  <2>3. /\ head \in Seq(Lines) /\ Len(head) = 1 /\ DOMAIN head = 1..1
        /\ head[1].heading /\ head[1].title = ConditionalSections[k]
    <3>1. ConditionalSections[k] \in {Titles[l] : l \in 1..10}
      BY <2>4
    <3>2. Heading(ConditionalSections[k]) \in Lines /\ Heading(ConditionalSections[k]).heading
          /\ Heading(ConditionalSections[k]).title = ConditionalSections[k]
      BY <3>1 DEF Heading, Lines
    <3>3. QED
      BY <3>2
  <2> HIDE DEF head, n
  <2>5. \A i \in Headings(head) : i = 1
    BY <2>3 DEF Headings
  <2>6. Ascends(head, k + 6, k + 6)
    BY <2>3, <2>4, <2>5 DEF Ascends
  <2>7. Items(n) \in Seq(Lines) /\ Ascends(Items(n), k + 7, k + 6)
    <3>1. k + 7 \in Nat /\ k + 6 \in Nat
      OBVIOUS
    <3>2. QED
      BY <2>2, <3>1, ItemsAscend
  <2>8. \A i \in Headings(head \o Items(n)) : i = 1 /\ (head \o Items(n))[i] = head[i]
    <3> DEFINE all == head \o Items(n)
    <3>1. Len(Items(n)) = n /\ \A i \in 1..n : ~Items(n)[i].heading
      BY <2>2, ItemsAscend
    <3>2. /\ DOMAIN all = 1..(1 + n)
          /\ \A i \in 1..1 : all[i] = head[i]
          /\ \A i \in 1..(1 + n) : i \notin 1..1 => i - 1 \in 1..n /\ all[i] = Items(n)[i - 1]
      <4>1. /\ DOMAIN all = 1..(Len(head) + Len(Items(n)))
            /\ \A i \in 1..Len(head) : all[i] = head[i]
            /\ \A i \in 1..(Len(head) + Len(Items(n))) :
                 i \notin 1..Len(head) => /\ i - Len(head) \in 1..Len(Items(n))
                                          /\ all[i] = Items(n)[i - Len(head)]
        BY <2>3, <2>7, JoinedLines
      <4> HIDE DEF all
      <4>2. QED
        BY <2>3, <3>1, <4>1
    <3> HIDE DEF all
    <3>3. ASSUME NEW i \in Headings(all) PROVE i \in 1..1
      BY <3>1, <3>2 DEF Headings
    <3>4. \A i \in Headings(all) : i = 1 /\ all[i] = head[i]
      BY <3>2, <3>3
    <3>5. QED
      BY <3>4 DEF all
  <2>9. head \o Items(n) \in Seq(Lines)
    BY <2>3, <2>7, JoinedLines
  <2>10. Ascends(head \o Items(n), k + 6, k + 6)
    <3> DEFINE all == head \o Items(n)
    <3>1. \A i \in Headings(all) : i = 1 /\ all[i].title = Titles[k + 6]
      BY <2>3, <2>4, <2>8
    <3> HIDE DEF all
    <3>2. k + 6 \in (k + 6)..(k + 6)
      OBVIOUS
    <3>3. \A i, j \in Headings(all) : ~(i < j)
      BY <3>1
    <3>4. Ascends(all, k + 6, k + 6)
      BY <2>4, <3>1, <3>2, <3>3 DEF Ascends
    <3>5. QED
      BY <3>4 DEF all
  <2>11. QED
    BY <2>1, <2>9, <2>10
<1>3. QED
  BY <1>1, <1>2

\* A document of that shape breaks no rule.
LEMMA ShapedIsWellFormed ==
  ASSUME NEW lines, Shaped(lines, 10), HasAttention(lines)
  PROVE  ~ShapeErrors(lines)
<1>1. lines \in Seq(Lines) /\ Ascends(lines, 1, 10) /\ Len(lines) >= 1 /\ lines[1] = Heading(Title)
  BY DEF Shaped
<1>2. DOMAIN lines = 1..Len(lines) /\ Len(lines) \in Nat /\ Headings(lines) \subseteq 1..Len(lines)
  BY <1>1, LenProperties DEF Headings
<1>3. ASSUME NEW i \in Headings(lines)
      PROVE  Place(lines[i].title) \in 1..10 /\ lines[i].title = Titles[Place(lines[i].title)]
  <2>1. PICK k \in 1..10 : lines[i].title = Titles[k]
    BY <1>1 DEF Ascends
  <2>2. QED
    BY <2>1, PlaceIs
<1>4. \A i, j \in Headings(lines) : i < j => Place(lines[i].title) < Place(lines[j].title)
  BY <1>1 DEF Ascends
<1>5. ~TitleErrors(lines)
  <2>1. ASSUME NEW i \in 2..Len(lines), lines[i] = Heading(Title) PROVE FALSE
    <3>1. i \in Headings(lines) /\ 1 \in Headings(lines) /\ 1 < i
      BY <1>1, <1>2, <2>1 DEF Headings, Heading
    <3>2. Place(lines[1].title) < Place(lines[i].title) /\ Place(lines[i].title) \in 1..10
      BY <1>3, <1>4, <3>1
    <3>3. lines[i] = lines[1]
      BY <1>1, <2>1
    <3>4. QED
      BY <3>2, <3>3
  <2>2. QED
    BY <1>1, <2>1 DEF TitleErrors
<1>6. \A i, j \in Headings(lines) : i # j => lines[i].title # lines[j].title
  <2> SUFFICES ASSUME NEW i \in Headings(lines), NEW j \in Headings(lines), i < j
               PROVE  lines[i].title # lines[j].title
    BY <1>2
  <2>1. Place(lines[i].title) < Place(lines[j].title) /\ Place(lines[i].title) \in 1..10
    BY <1>3, <1>4
  <2>2. QED
    BY <2>1
<1>7. ~OutOfOrder(lines, CoreSections)
  <2> SUFFICES ASSUME NEW i \in TitledBy(lines, CoreSections), NEW k \in TitledBy(lines, CoreSections), i < k
               PROVE  ~(PositionIn(CoreSections, lines[k].title) < PositionIn(CoreSections, lines[i].title))
    BY DEF OutOfOrder
  <2>1. /\ i \in Headings(lines) /\ lines[i].title \in ToSet(CoreSections)
        /\ k \in Headings(lines) /\ lines[k].title \in ToSet(CoreSections)
    BY DEF TitledBy
  <2>2. /\ PositionIn(CoreSections, lines[i].title) = Place(lines[i].title) - 1
        /\ PositionIn(CoreSections, lines[k].title) = Place(lines[k].title) - 1
    BY <1>3, <2>1, SectionPlaces
  <2>3. QED
    BY <1>3, <1>4, <2>1, <2>2
<1>8. ~OutOfOrder(lines, ConditionalSections)
  <2> SUFFICES ASSUME NEW i \in TitledBy(lines, ConditionalSections),
                      NEW k \in TitledBy(lines, ConditionalSections), i < k
               PROVE  ~(PositionIn(ConditionalSections, lines[k].title)
                          < PositionIn(ConditionalSections, lines[i].title))
    BY DEF OutOfOrder
  <2>1. /\ i \in Headings(lines) /\ lines[i].title \in ToSet(ConditionalSections)
        /\ k \in Headings(lines) /\ lines[k].title \in ToSet(ConditionalSections)
    BY DEF TitledBy
  <2>2. /\ PositionIn(ConditionalSections, lines[i].title) = Place(lines[i].title) - 6
        /\ PositionIn(ConditionalSections, lines[k].title) = Place(lines[k].title) - 6
    BY <1>3, <2>1, SectionPlaces
  <2>3. QED
    BY <1>3, <1>4, <2>1, <2>2
<1>9. ~CoreOrderErrors(lines)
  BY <1>6, <1>7 DEF CoreOrderErrors, TitledBy
<1>10. ~UnexpectedHeadings(lines)
  BY <1>3, SectionPlaces DEF UnexpectedHeadings
<1>11. ~AttentionErrors(lines)
  BY DEF AttentionErrors, HasAttention
<1>12. QED
  BY <1>5, <1>8, <1>9, <1>10, <1>11 DEF ShapeErrors, ConditionalOrderErrors

\* The first lines of a document, whose prose begins no heading.
Opening ==
  <<Heading(Title), Line, Heading("Partes"), Line, Heading("Classe"), Line,
    Heading("Assuntos"), Line, Heading("Movimentacoes")>>

\* Its headings are the title and the core sections up to the movements.
LEMMA OpeningShaped == Shaped(Opening, 5)
<1>1. /\ Titles[1] = Title /\ Titles[2] = "Partes" /\ Titles[3] = "Classe"
      /\ Titles[4] = "Assuntos" /\ Titles[5] = "Movimentacoes"
  BY DEF Titles, Title
<1>2. /\ Heading(Title) \in Lines /\ Heading("Partes") \in Lines /\ Heading("Classe") \in Lines
      /\ Heading("Assuntos") \in Lines /\ Heading("Movimentacoes") \in Lines /\ Line \in Lines
  <2>1. \A k \in 1..10 : Heading(Titles[k]) \in Lines
    BY DEF Heading, Lines
  <2>2. Line \in Lines
    BY DEF Line, Lines
  <2>3. QED
    BY <1>1, <2>1, <2>2
<1>3. Opening \in Seq(Lines) /\ Len(Opening) = 9 /\ DOMAIN Opening = 1..9
  BY <1>2 DEF Opening
<1>4. /\ Opening[1] = Heading(Title) /\ Opening[2] = Line /\ Opening[3] = Heading("Partes")
      /\ Opening[4] = Line /\ Opening[5] = Heading("Classe") /\ Opening[6] = Line
      /\ Opening[7] = Heading("Assuntos") /\ Opening[8] = Line /\ Opening[9] = Heading("Movimentacoes")
  BY DEF Opening
<1>5. ~Line.heading /\ \A t : Heading(t).title = t
  BY DEF Line, Heading
<1>6. Headings(Opening) \subseteq {1, 3, 5, 7, 9}
  BY <1>3, <1>4, <1>5 DEF Headings
<1>7. ASSUME NEW i \in Headings(Opening)
      PROVE  \E k \in 1..5 : k \in 1..10 /\ Opening[i].title = Titles[k] /\ i = 2 * k - 1
  <2>1. CASE i = 1
    BY <1>1, <1>4, <1>5, <2>1
  <2>2. CASE i = 3
    BY <1>1, <1>4, <1>5, <2>2
  <2>3. CASE i = 5
    BY <1>1, <1>4, <1>5, <2>3
  <2>4. CASE i = 7
    BY <1>1, <1>4, <1>5, <2>4
  <2>5. CASE i = 9
    BY <1>1, <1>4, <1>5, <2>5
  <2>6. QED
    BY <1>6, <2>1, <2>2, <2>3, <2>4, <2>5
<1>8. ASSUME NEW i \in Headings(Opening), NEW j \in Headings(Opening), i < j
      PROVE  Place(Opening[i].title) < Place(Opening[j].title)
  <2>1. PICK k \in 1..10 : Opening[i].title = Titles[k] /\ i = 2 * k - 1
    BY <1>7
  <2>2. PICK l \in 1..10 : Opening[j].title = Titles[l] /\ j = 2 * l - 1
    BY <1>7
  <2>3. Place(Opening[i].title) = k /\ Place(Opening[j].title) = l
    BY <2>1, <2>2, PlaceIs
  <2>4. QED
    BY <1>8, <2>1, <2>2, <2>3
<1>9. QED
  BY <1>3, <1>4, <1>7, <1>8 DEF Shaped, Ascends

\* The heading of the points of attention comes after the core sections.
Middle == <<Line, Heading("Atencao")>>

\* Its only heading is the sixth title.
LEMMA MiddleAscends ==
  /\ Middle \in Seq(Lines) /\ Len(Middle) = 2 /\ Middle[2] = Heading("Atencao")
  /\ Ascends(Middle, 6, 6)
<1>1. Titles[6] = "Atencao" /\ ~Line.heading /\ Heading("Atencao").title = "Atencao"
  BY DEF Titles, Line, Heading
<1>2. Heading("Atencao") \in Lines /\ Line \in Lines
  <2>1. Heading(Titles[6]) \in Lines
    BY DEF Heading, Lines
  <2>2. Line \in Lines
    BY DEF Line, Lines
  <2>3. QED
    BY <1>1, <2>1, <2>2
<1>3. /\ Middle \in Seq(Lines) /\ Len(Middle) = 2 /\ DOMAIN Middle = 1..2
      /\ Middle[1] = Line /\ Middle[2] = Heading("Atencao")
  BY <1>2 DEF Middle
<1>4. \A i \in Headings(Middle) : i = 2
  BY <1>1, <1>3 DEF Headings
<1>5. 6 \in 6..6 /\ 6 \in 1..10 /\ \A i \in Headings(Middle) : Middle[i].title = Titles[6]
  BY <1>1, <1>3, <1>4
<1>6. \A i, j \in Headings(Middle) : ~(i < j)
  BY <1>4
<1>7. QED
  BY <1>3, <1>5, <1>6 DEF Ascends

\* A document rendered from an answer that parses breaks no rule on its shape.
LEMMA RenderedIs ==
  AnyDocument => RenderedIsWellFormed
<1> DEFINE raw == case.raw
<1> DEFINE p == ParseSummary(raw)
<1> DEFINE class == [mark |-> "plain", len |-> 1]
<1> SUFFICES ASSUME AnyDocument, case.part = "document", p.ok
             PROVE  ~ShapeErrors(RenderSummary(p, class))
  BY DEF RenderedIsWellFormed
<1>1. /\ raw.synthesis \in Texts /\ raw.timeline \in Seq(Texts) /\ raw.attention \in Seq(Texts)
      /\ raw.lists \in [DOMAIN ConditionalSections -> Seq(Texts)]
  BY DEF AnyDocument
<1>2. /\ StringList(raw.attention) # <<>>
      /\ p = [ok |-> TRUE, synthesis |-> ProseLine(raw.synthesis), status |-> ProseLine(raw.status),
              timeline |-> StringList(raw.timeline), attention |-> StringList(raw.attention),
              lists |-> [k \in DOMAIN raw.lists |-> StringList(raw.lists[k])]]
  BY ParsedIs
<1> HIDE DEF raw, p
<1>3. p.timeline \in Seq(Texts) /\ p.attention \in Seq(Texts) /\ p.attention # <<>>
  BY <1>1, <1>2, ListIs
<1>4. \A k \in 1..4 : p.lists[k] \in Seq(Texts)
  <2>1. DOMAIN raw.lists = 1..4 /\ \A k \in 1..4 : raw.lists[k] \in Seq(Texts)
    BY <1>1, SectionTitles
  <2>2. \A k \in 1..4 : p.lists[k] = StringList(raw.lists[k])
    BY <1>2, <2>1
  <2>3. QED
    BY <2>1, <2>2, ListIs
<1>5. OwnLine(p.synthesis) = Line /\ OwnLine(class) = Line
  BY <1>1, <1>2 DEF OwnLine, ProseLine, Texts
<1> DEFINE m == Len(p.timeline)
<1> DEFINE n == Len(p.attention)
<1>6. m \in Nat /\ n \in Nat /\ n >= 1
  BY <1>3, LenProperties, EmptySeq
<1> DEFINE a == Opening \o Items(m)
<1> DEFINE b == a \o Middle
<1> DEFINE c == b \o Items(n)
<1> DEFINE d == c \o Section(p, 1)
<1> DEFINE e == d \o Section(p, 2)
<1> DEFINE f == e \o Section(p, 3)
<1> DEFINE g == f \o Section(p, 4)
<1>7. RenderSummary(p, class) = g
  BY <1>5 DEF RenderSummary, Opening, Middle
<1> HIDE DEF m, n, class
<1>8. Shaped(a, 5)
  <2>1. Items(m) \in Seq(Lines) /\ Ascends(Items(m), 6, 5)
    BY <1>6, ItemsAscend
  <2>2. QED
    BY <2>1, OpeningShaped, JoinShaped
<1> HIDE DEF a
<1>9. Shaped(b, 6)
  BY <1>8, MiddleAscends, JoinShaped
<1>10. Shaped(c, 6) /\ HasAttention(c)
  <2>1. /\ Items(n) \in Seq(Lines) /\ Ascends(Items(n), 7, 6) /\ Len(Items(n)) = n
        /\ \A i \in 1..n : ~Items(n)[i].heading
    BY <1>6, ItemsAscend
  <2>2. Shaped(c, 6)
    <3> HIDE DEF b
    <3>1. QED
      BY <1>9, <2>1, JoinShaped
  <2>3. a \in Seq(Lines) /\ Len(a) \in Nat
    BY <1>8, LenProperties DEF Shaped
  <2>4. /\ b \in Seq(Lines) /\ Len(b) = Len(a) + 2
        /\ b[Len(a) + 2] = Heading("Atencao")
    <3>1. /\ b \in Seq(Lines) /\ Len(b) = Len(a) + Len(Middle)
          /\ \A i \in 1..(Len(a) + Len(Middle)) : i \notin 1..Len(a) => b[i] = Middle[i - Len(a)]
      BY <2>3, MiddleAscends, JoinedLines
    <3> HIDE DEF b
    <3>2. Len(a) + 2 \in 1..(Len(a) + 2) /\ Len(a) + 2 \notin 1..Len(a) /\ (Len(a) + 2) - Len(a) = 2
      BY <2>3
    <3>3. QED
      BY <3>1, <3>2, MiddleAscends
  <2> HIDE DEF b
  <2> DEFINE h == Len(b)
  <2>5. h \in Nat /\ h >= 1 /\ b[h] = Heading("Atencao")
    BY <2>3, <2>4
  <2>6. /\ Len(c) = h + n /\ \A i \in 1..h : c[i] = b[i]
        /\ \A i \in 1..(h + n) : i \notin 1..h => c[i] = Items(n)[i - h]
    <3>1. /\ Len(c) = h + Len(Items(n)) /\ \A i \in 1..h : c[i] = b[i]
          /\ \A i \in 1..(h + Len(Items(n))) : i \notin 1..h => c[i] = Items(n)[i - h]
      BY <2>1, <2>4, JoinedLines
    <3> HIDE DEF c, h
    <3>2. QED
      BY <2>1, <3>1
  <2> HIDE DEF c, h
  <2>7. c[h] = Heading("Atencao")
    BY <2>5, <2>6
  <2>8. c[h + 1] = Items(n)[1] /\ 1 \in 1..n /\ h \in 1..(Len(c) - 1)
    <3>1. h + 1 \in 1..(h + n) /\ h + 1 \notin 1..h /\ (h + 1) - h = 1
      BY <1>6, <2>5
    <3>2. QED
      BY <1>6, <2>5, <2>6, <3>1
  <2>9. HasAttention(c)
    BY <2>1, <2>7, <2>8 DEF HasAttention
  <2>10. QED
    BY <2>2, <2>9
<1> HIDE DEF c
<1>11. Shaped(d, 7) /\ HasAttention(d)
  <2>1. Section(p, 1) \in Seq(Lines) /\ Ascends(Section(p, 1), 7, 7)
    BY <1>4, SectionAscends
  <2>2. QED
    BY <1>10, <2>1, JoinShaped
<1> HIDE DEF d
<1>12. Shaped(e, 8) /\ HasAttention(e)
  <2>1. Section(p, 2) \in Seq(Lines) /\ Ascends(Section(p, 2), 8, 8)
    BY <1>4, SectionAscends
  <2>2. QED
    BY <1>11, <2>1, JoinShaped
<1> HIDE DEF e
<1>13. Shaped(f, 9) /\ HasAttention(f)
  <2>1. Section(p, 3) \in Seq(Lines) /\ Ascends(Section(p, 3), 9, 9)
    BY <1>4, SectionAscends
  <2>2. QED
    BY <1>12, <2>1, JoinShaped
<1> HIDE DEF f
<1>14. Shaped(g, 10) /\ HasAttention(g)
  <2>1. Section(p, 4) \in Seq(Lines) /\ Ascends(Section(p, 4), 10, 10)
    BY <1>4, SectionAscends
  <2>2. QED
    BY <1>13, <2>1, JoinShaped
<1>15. QED
  BY <1>7, <1>14, ShapedIsWellFormed

-----------------------------------------------------------------------------
(* The nesting of components. *)

Forms == {"open", "close", "single"}
Tags(S) == [form : Forms, name : S]
States(S) == [stack : Seq(S), bad : BOOLEAN]

CountUpTo(A, j) == Cardinality({x \in 1..j : x \in A})

\* One more number up to j is in a set, or none.
LEMMA CountGrows ==
  ASSUME NEW A, NEW j \in Nat, j >= 1
  PROVE  /\ CountUpTo(A, j) \in Nat /\ CountUpTo(A, j - 1) \in Nat
         /\ CountUpTo(A, j) = CountUpTo(A, j - 1) + IF j \in A THEN 1 ELSE 0
<1> DEFINE B == {x \in 1..(j - 1) : x \in A}
<1> DEFINE C == {x \in 1..j : x \in A}
<1>1. IsFiniteSet(B) /\ Cardinality(B) \in Nat
  <2>1. IsFiniteSet(1..(j - 1)) /\ B \in SUBSET (1..(j - 1))
    BY FS_Interval
  <2>2. QED
    BY <2>1, FS_Subset, FS_CardinalityType
<1>2. CASE j \in A
  <2>1. C = B \cup {j}
    <3>1. \A x : x \in 1..j <=> x \in 1..(j - 1) \/ x = j
      OBVIOUS
    <3>2. QED
      BY <1>2, <3>1
  <2>2. j \notin B
    OBVIOUS
  <2> HIDE DEF B, C
  <2>3. Cardinality(C) = Cardinality(B) + 1
    BY <1>1, <2>1, <2>2, FS_AddElement
  <2>4. QED
    BY <1>1, <1>2, <2>3 DEF B, C, CountUpTo
<1>3. CASE j \notin A
  <2>1. C = B
    <3>1. \A x : x \in 1..j <=> x \in 1..(j - 1) \/ x = j
      OBVIOUS
    <3>2. QED
      BY <1>3, <3>1
  <2> HIDE DEF B, C
  <2>2. QED
    BY <1>1, <1>3, <2>1 DEF B, C, CountUpTo
<1>4. QED
  BY <1>2, <1>3

\* A tag that opens adds a level, one that closes takes one away.
LEMMA DepthFollows ==
  ASSUME NEW S, NEW tags \in Seq(Tags(S))
  PROVE  /\ Depth(tags, 0) = 0
         /\ \A j \in 0..Len(tags) : Depth(tags, j) \in Int
         /\ \A j \in 1..Len(tags) :
              /\ tags[j].form = "open"   => Depth(tags, j) = Depth(tags, j - 1) + 1
              /\ tags[j].form = "close"  => Depth(tags, j) = Depth(tags, j - 1) - 1
              /\ tags[j].form = "single" => Depth(tags, j) = Depth(tags, j - 1)
<1> DEFINE n == Len(tags)
<1> DEFINE O == {x \in 1..n : tags[x].form = "open"}
<1> DEFINE C == {x \in 1..n : tags[x].form = "close"}
<1> DEFINE Opened(j) == CountUpTo(O, j)
<1> DEFINE Shut(j) == CountUpTo(C, j)
<1>1. n \in Nat
  BY LenProperties
<1>2. ASSUME NEW j \in 0..n PROVE Depth(tags, j) = Opened(j) - Shut(j)
  <2>1. \A x \in 1..j : x \in 1..n
    BY <1>1
  <2>2. {x \in 1..j : tags[x].form = "open"} = {x \in 1..j : x \in O}
    BY <2>1
  <2>3. {x \in 1..j : tags[x].form = "close"} = {x \in 1..j : x \in C}
    BY <2>1
  <2>4. QED
    BY <2>2, <2>3 DEF Depth, CountUpTo
<1>3. \A j \in 1..n : j \in O <=> tags[j].form = "open"
  OBVIOUS
<1>4. \A j \in 1..n : j \in C <=> tags[j].form = "close"
  OBVIOUS
<1> HIDE DEF O, C
<1>5. ASSUME NEW j \in 1..n
      PROVE  /\ Opened(j) \in Nat /\ Opened(j - 1) \in Nat
             /\ Opened(j) = Opened(j - 1) + IF j \in O THEN 1 ELSE 0
             /\ Shut(j) \in Nat /\ Shut(j - 1) \in Nat
             /\ Shut(j) = Shut(j - 1) + IF j \in C THEN 1 ELSE 0
  <2>1. j \in Nat /\ j >= 1
    BY <1>1
  <2>2. /\ Opened(j) \in Nat /\ Opened(j - 1) \in Nat
        /\ Opened(j) = Opened(j - 1) + IF j \in O THEN 1 ELSE 0
    BY <2>1, CountGrows
  <2>3. /\ Shut(j) \in Nat /\ Shut(j - 1) \in Nat
        /\ Shut(j) = Shut(j - 1) + IF j \in C THEN 1 ELSE 0
    BY <2>1, CountGrows
  <2>4. QED
    BY <2>2, <2>3
<1>6. Opened(0) = 0 /\ Shut(0) = 0
  <2>1. {x \in 1..0 : x \in O} = {} /\ {x \in 1..0 : x \in C} = {}
    OBVIOUS
  <2>2. Opened(0) = Cardinality({}) /\ Shut(0) = Cardinality({})
    BY <2>1 DEF CountUpTo
  <2>3. QED
    BY <2>2, FS_EmptySet
<1> HIDE DEF Opened, Shut, n
<1>7. Depth(tags, 0) = 0
  BY <1>1, <1>2, <1>6
<1>8. ASSUME NEW j \in 1..n
      PROVE  /\ Depth(tags, j) \in Int
             /\ tags[j].form = "open"   => Depth(tags, j) = Depth(tags, j - 1) + 1
             /\ tags[j].form = "close"  => Depth(tags, j) = Depth(tags, j - 1) - 1
             /\ tags[j].form = "single" => Depth(tags, j) = Depth(tags, j - 1)
  <2>1. /\ Depth(tags, j) = Opened(j) - Shut(j)
        /\ Depth(tags, j - 1) = Opened(j - 1) - Shut(j - 1)
    BY <1>1, <1>2
  <2>2. /\ Opened(j) \in Nat /\ Opened(j - 1) \in Nat /\ Shut(j) \in Nat /\ Shut(j - 1) \in Nat
        /\ Opened(j) = Opened(j - 1) + IF j \in O THEN 1 ELSE 0
        /\ Shut(j) = Shut(j - 1) + IF j \in C THEN 1 ELSE 0
    BY <1>5
  <2>3. CASE tags[j].form = "open"
    <3>1. j \in O /\ j \notin C
      BY <1>3, <1>4, <2>3
    <3>2. QED
      BY <2>1, <2>2, <2>3, <3>1
  <2>4. CASE tags[j].form = "close"
    <3>1. j \notin O /\ j \in C
      BY <1>3, <1>4, <2>4
    <3>2. QED
      BY <2>1, <2>2, <2>4, <3>1
  <2>5. CASE tags[j].form \notin {"open", "close"}
    <3>1. j \notin O /\ j \notin C
      BY <1>3, <1>4, <2>5
    <3>2. QED
      BY <2>1, <2>2, <2>5, <3>1
  <2>6. QED
    BY <2>3, <2>4, <2>5
<1>9. \A j \in 0..n : Depth(tags, j) \in Int
  BY <1>1, <1>7, <1>8
<1>10. QED
  BY <1>7, <1>8, <1>9 DEF n

\* What reading one tag does to the stack.
LEMMA ReadTagSays ==
  ASSUME NEW S, NEW v \in States(S), NEW tag \in Tags(S)
  PROVE  LET r == ReadTag(v, tag) IN
         /\ r \in States(S)
         /\ v.bad => r.bad
         /\ tag.form = "single" => r = v
         /\ tag.form = "open" => /\ r.bad = v.bad /\ Len(r.stack) = Len(v.stack) + 1
                                 /\ r.stack[Len(v.stack) + 1] = tag.name
                                 /\ \A d \in 1..Len(v.stack) : r.stack[d] = v.stack[d]
         /\ tag.form = "close" =>
              IF v.stack # <<>> /\ v.stack[Len(v.stack)] = tag.name
              THEN /\ r.bad = v.bad /\ Len(r.stack) = Len(v.stack) - 1
                   /\ \A d \in 1..(Len(v.stack) - 1) : r.stack[d] = v.stack[d]
              ELSE r.bad
<1> DEFINE r == ReadTag(v, tag)
<1>1. /\ v = [stack |-> v.stack, bad |-> v.bad] /\ v.stack \in Seq(S) /\ v.bad \in BOOLEAN
      /\ Len(v.stack) \in Nat /\ tag.name \in S /\ tag.form \in Forms
  BY LenProperties DEF States, Tags
<1>2. CASE tag.form = "single"
  <2>1. r = v
    BY <1>2 DEF ReadTag
  <2>2. QED
    BY <1>2, <2>1
<1>3. CASE tag.form = "open"
  <2>1. r = [v EXCEPT !.stack = Append(v.stack, tag.name)]
    BY <1>3 DEF ReadTag
  <2>2. r.stack = Append(v.stack, tag.name) /\ r.bad = v.bad /\ r \in States(S)
    <3>1. Append(v.stack, tag.name) \in Seq(S)
      BY <1>1, AppendProperties
    <3>2. QED
      BY <1>1, <2>1, <3>1 DEF States
  <2>3. QED
    BY <1>1, <1>3, <2>2, AppendProperties
<1>4. CASE tag.form = "close" /\ v.stack # <<>> /\ v.stack[Len(v.stack)] = tag.name
  <2>1. r = [v EXCEPT !.stack = Front(v.stack)]
    BY <1>4 DEF ReadTag, Last
  <2>2. Len(v.stack) - 1 \in 0..Len(v.stack) /\ Len(v.stack) >= 1
    BY <1>1, <1>4, EmptySeq
  <2>3. /\ Front(v.stack) \in Seq(S) /\ Len(Front(v.stack)) = Len(v.stack) - 1
        /\ \A d \in 1..(Len(v.stack) - 1) : Front(v.stack)[d] = v.stack[d]
    <3>1. \A i \in 1..(Len(v.stack) - 1) : i \in 1..Len(v.stack)
      BY <1>1
    <3>2. Front(v.stack) = SubSeq(v.stack, 1, Len(v.stack) - 1)
      BY DEF Front
    <3>3. Front(v.stack) = [i \in 1..(Len(v.stack) - 1) |-> v.stack[i]]
      BY <1>1, <2>2, <3>2, SubSeqProperties
    <3>4. Front(v.stack) \in [1..(Len(v.stack) - 1) -> S] /\ Len(v.stack) - 1 \in Nat
      BY <1>1, <2>2, <3>1, <3>3, ElementOfSeq
    <3>5. QED
      BY <3>3, <3>4, SeqDef, LenProperties
  <2>4. r.stack = Front(v.stack) /\ r.bad = v.bad /\ r \in States(S)
    BY <1>1, <2>1, <2>3 DEF States
  <2>5. QED
    BY <1>4, <2>3, <2>4
<1>5. CASE tag.form = "close" /\ ~(v.stack # <<>> /\ v.stack[Len(v.stack)] = tag.name)
  <2>1. r = [v EXCEPT !.bad = TRUE]
    BY <1>5 DEF ReadTag, Last
  <2>2. r.bad /\ r \in States(S)
    BY <1>1, <2>1 DEF States
  <2>3. QED
    BY <1>5, <2>2
<1>6. QED
  BY <1>1, <1>2, <1>3, <1>4, <1>5 DEF Forms

\* The tag at i opened the level d, which has not been left since.
Opener(tags, i, j, d) ==
  /\ i \in 1..j /\ tags[i].form = "open" /\ Depth(tags, i) = d
  /\ \A m \in i..j : Depth(tags, m) >= d

\* The stack after j tags has a name for each level, that of the tag which opened it.
Levels(tags, stack, j) ==
  /\ Len(stack) = Depth(tags, j)
  /\ \A d \in 1..Len(stack) : \E i \in 1..j : Opener(tags, i, j, d) /\ tags[i].name = stack[d]

\* Only one tag has opened a level that is open.
LEMMA OpenerIsUnique ==
  ASSUME NEW S, NEW tags \in Seq(Tags(S)), NEW j \in 0..Len(tags), NEW d \in Int,
         NEW i, Opener(tags, i, j, d), NEW k, Opener(tags, k, j, d)
  PROVE  i = k
<1>1. Len(tags) \in Nat /\ i \in 1..j /\ k \in 1..j /\ i \in 1..Len(tags) /\ k \in 1..Len(tags)
  BY LenProperties DEF Opener
<1>2. ASSUME NEW a \in 1..j, NEW b \in 1..j, a < b, Opener(tags, a, j, d), Opener(tags, b, j, d)
      PROVE  FALSE
  <2>1. b \in 1..Len(tags) /\ b - 1 \in 0..Len(tags) /\ b - 1 \in a..j
    BY <1>1, <1>2
  <2>2. Depth(tags, b) = Depth(tags, b - 1) + 1
    BY <1>2, <2>1, DepthFollows DEF Opener
  <2>3. Depth(tags, b - 1) >= d /\ Depth(tags, b) = d /\ Depth(tags, b - 1) \in Int
    BY <1>2, <2>1, DepthFollows DEF Opener
  <2>4. QED
    BY <2>2, <2>3
<1>3. i < k \/ k < i \/ i = k
  BY <1>1
<1>4. QED
  BY <1>1, <1>2, <1>3

\* A tag that matches is the opener of the level that ends.
LEMMA MatchesIs ==
  ASSUME NEW S, NEW tags \in Seq(Tags(S)), NEW i \in 1..Len(tags), NEW k \in 1..Len(tags)
  PROVE  Matches(tags, i, k) <=>
           /\ tags[k].form = "close" /\ tags[i].name = tags[k].name
           /\ Opener(tags, i, k - 1, Depth(tags, k - 1))
<1>1. Len(tags) \in Nat
  BY LenProperties
<1>2. i < k <=> i \in 1..(k - 1)
  BY <1>1
<1>3. QED
  BY <1>2 DEF Matches, Opener

\* A level stays open as long as the depth does not fall below it.
LEMMA OpenerStays ==
  ASSUME NEW tags, NEW j \in Nat, j >= 1, NEW i, NEW d, Opener(tags, i, j - 1, d), Depth(tags, j) >= d
  PROVE  Opener(tags, i, j, d)
<1>1. i \in 1..(j - 1)
  BY DEF Opener
<1>2. i \in 1..j /\ \A m \in i..j : m \in i..(j - 1) \/ m = j
  BY <1>1
<1>3. QED
  BY <1>2 DEF Opener

\* Reading a tag without an error keeps the stack in step with the levels.
LEMMA LevelsFollow ==
  ASSUME NEW S, NEW tags \in Seq(Tags(S)), NEW j \in 1..Len(tags), NEW v \in States(S),
         Levels(tags, v.stack, j - 1), ~ReadTag(v, tags[j]).bad
  PROVE  Levels(tags, ReadTag(v, tags[j]).stack, j)
<1> DEFINE w == ReadTag(v, tags[j])
<1>1. /\ Len(tags) \in Nat /\ tags[j] \in Tags(S) /\ tags[j].form \in Forms
      /\ Len(v.stack) \in Nat /\ j \in Nat /\ j >= 1
  <2>1. Len(tags) \in Nat /\ tags[j] \in Tags(S)
    BY LenProperties, ElementOfSeq
  <2>2. tags[j].form \in Forms
    BY <2>1 DEF Tags
  <2>3. v.stack \in Seq(S)
    BY DEF States
  <2>4. QED
    BY <2>1, <2>2, <2>3, LenProperties
<1>2. /\ w \in States(S)
      /\ tags[j].form = "single" => w = v
      /\ tags[j].form = "open" => /\ Len(w.stack) = Len(v.stack) + 1
                                  /\ w.stack[Len(v.stack) + 1] = tags[j].name
                                  /\ \A d \in 1..Len(v.stack) : w.stack[d] = v.stack[d]
      /\ tags[j].form = "close" => /\ Len(w.stack) = Len(v.stack) - 1
                                   /\ \A d \in 1..(Len(v.stack) - 1) : w.stack[d] = v.stack[d]
  BY <1>1, ReadTagSays
<1>3. /\ Depth(tags, j - 1) = Len(v.stack)
      /\ \A d \in 1..Len(v.stack) : \E i \in 1..(j - 1) : Opener(tags, i, j - 1, d) /\ tags[i].name = v.stack[d]
  BY DEF Levels
<1>4. /\ tags[j].form = "open"   => Depth(tags, j) = Len(v.stack) + 1
      /\ tags[j].form = "close"  => Depth(tags, j) = Len(v.stack) - 1
      /\ tags[j].form = "single" => Depth(tags, j) = Len(v.stack)
  BY <1>3, DepthFollows
<1> HIDE DEF w
<1>5. Len(w.stack) = Depth(tags, j) /\ Len(w.stack) \in Nat
  <2>1. Len(w.stack) \in Nat
    BY <1>2, LenProperties DEF States
  <2>2. QED
    BY <1>1, <1>2, <1>4, <2>1 DEF Forms
<1>6. ASSUME NEW d \in 1..Len(w.stack), d <= Len(v.stack)
      PROVE  \E i \in 1..j : Opener(tags, i, j, d) /\ tags[i].name = w.stack[d]
  <2>1. d \in 1..Len(v.stack) /\ w.stack[d] = v.stack[d]
    <3>1. d \in 1..Len(v.stack)
      BY <1>1, <1>5, <1>6
    <3>2. tags[j].form = "close" => d \in 1..(Len(v.stack) - 1)
      BY <1>1, <1>2, <1>5
    <3>3. QED
      BY <1>1, <1>2, <3>1, <3>2 DEF Forms
  <2>2. PICK i \in 1..(j - 1) : Opener(tags, i, j - 1, d) /\ tags[i].name = v.stack[d]
    BY <1>3, <2>1
  <2>3. Depth(tags, j) >= d
    BY <1>5
  <2>4. Opener(tags, i, j, d) /\ i \in 1..j
    BY <1>1, <2>2, <2>3, OpenerStays
  <2>5. QED
    BY <2>1, <2>2, <2>4
<1>7. ASSUME NEW d \in 1..Len(w.stack), ~(d <= Len(v.stack))
      PROVE  \E i \in 1..j : Opener(tags, i, j, d) /\ tags[i].name = w.stack[d]
  <2>1. tags[j].form = "open" /\ d = Len(v.stack) + 1
    BY <1>1, <1>2, <1>5, <1>7 DEF Forms
  <2>2. Depth(tags, j) = d /\ \A m \in j..j : m = j
    BY <1>1, <1>4, <2>1
  <2>3. Opener(tags, j, j, d) /\ tags[j].name = w.stack[d] /\ j \in 1..j
    BY <1>1, <1>2, <2>1, <2>2 DEF Opener
  <2>4. QED
    BY <2>3
<1>8. QED
  BY <1>5, <1>6, <1>7 DEF Levels, w

\* The states of the reader before and after each tag.
Start == [stack |-> <<>>, bad |-> FALSE]
IsRead(at, tags) ==
  at = [i \in 0..Len(tags) |-> IF i = 0 THEN Start ELSE ReadTag(at[i - 1], tags[i])]

\* The reader has a state after each tag.
LEMMA ReadExists ==
  ASSUME NEW S, NEW tags \in Seq(Tags(S))
  PROVE  \E at \in [0..Len(tags) -> States(S)] : IsRead(at, tags)
<1> DEFINE n == Len(tags)
<1> DEFINE reads == [i \in 1..n |-> [v \in States(S) |-> ReadTag(v, tags[i])]]
<1>1. n \in Nat /\ \A i \in 1..n : tags[i] \in Tags(S)
  BY LenProperties, ElementOfSeq
<1>2. Start \in States(S)
  BY DEF Start, States
<1>3. ASSUME NEW i \in 1..n, NEW v \in States(S)
      PROVE  reads[i][v] = ReadTag(v, tags[i]) /\ reads[i][v] \in States(S)
  <2>1. ReadTag(v, tags[i]) \in States(S)
    BY <1>1, ReadTagSays
  <2>2. QED
    BY <2>1
<1> HIDE DEF n, reads
<1>4. PICK at \in [0..n -> States(S)] : Stepwise(at, Start, reads, n)
  BY <1>1, <1>2, <1>3, StepwiseExists
<1>5. ASSUME NEW i \in 0..n PROVE at[i] = IF i = 0 THEN Start ELSE ReadTag(at[i - 1], tags[i])
  <2>1. CASE i = 0
    BY <1>4, <2>1 DEF Stepwise
  <2>2. CASE i # 0
    <3>1. i \in 1..n /\ i - 1 \in 0..n
      BY <1>1, <2>2
    <3>2. at[i - 1] \in States(S) /\ at[i] = reads[i][at[i - 1]]
      BY <1>4, <3>1 DEF Stepwise
    <3>3. QED
      BY <1>3, <2>2, <3>1, <3>2
  <2>3. QED
    BY <2>1, <2>2
<1>6. IsRead(at, tags)
  BY <1>5 DEF IsRead, n
<1>7. QED
  BY <1>6 DEF n

\* Any such states are typed, and follow from each other.
LEMMA ReadFollows ==
  ASSUME NEW S, NEW tags \in Seq(Tags(S)), NEW at, IsRead(at, tags)
  PROVE  /\ at[0] = Start
         /\ \A i \in 0..Len(tags) : at[i] \in States(S)
         /\ \A i \in 1..Len(tags) : at[i] = ReadTag(at[i - 1], tags[i])
<1>1. Len(tags) \in Nat /\ \A i \in 1..Len(tags) : tags[i] \in Tags(S)
  BY LenProperties, ElementOfSeq
<1>2. /\ at[0] = Start
      /\ \A i \in 1..Len(tags) : at[i] = ReadTag(at[i - 1], tags[i])
  BY <1>1 DEF IsRead
<1> DEFINE T == {i \in 0..Len(tags) : at[i] \in States(S)}
<1>3. 0 \in T
  <2>1. Start \in States(S) /\ 0 \in 0..Len(tags)
    <3>1. Start \in States(S)
      BY DEF Start, States
    <3>2. QED
      BY <1>1, <3>1
  <2>2. QED
    BY <1>2, <2>1
<1>4. ASSUME NEW i \in 1..Len(tags), i - 1 \in T PROVE i \in T
  <2>1. at[i - 1] \in States(S) /\ i \in 0..Len(tags)
    BY <1>1, <1>4
  <2>2. ReadTag(at[i - 1], tags[i]) \in States(S)
    BY <1>1, <2>1, ReadTagSays
  <2>3. QED
    BY <1>2, <2>1, <2>2
<1> HIDE DEF T
<1>5. \A i \in 0..Len(tags) : i \in T
  BY <1>1, <1>3, <1>4, ReachesAll
<1>6. QED
  BY <1>2, <1>5 DEF T

\* Each opening tag has its match and each closing tag is one.
Nested(tags) ==
  /\ \A i \in 1..Len(tags) : tags[i].form = "open" => \E k \in 1..Len(tags) : Matches(tags, i, k)
  /\ \A k \in 1..Len(tags) : tags[k].form = "close" => \E i \in 1..Len(tags) : Matches(tags, i, k)

\* Tags that are read without an error and leave nothing open are nested.
LEMMA ReadIsNested ==
  ASSUME NEW S, NEW tags \in Seq(Tags(S)), NEW at, IsRead(at, tags),
         ~at[Len(tags)].bad, at[Len(tags)].stack = <<>>
  PROVE  Nested(tags)
<1> DEFINE n == Len(tags)
<1>1. n \in Nat /\ \A i \in 1..n : tags[i] \in Tags(S) /\ tags[i].form \in Forms
  <2>1. n \in Nat /\ \A i \in 1..n : tags[i] \in Tags(S)
    BY LenProperties, ElementOfSeq
  <2>2. \A i \in 1..n : tags[i].form \in Forms
    BY <2>1 DEF Tags
  <2>3. QED
    BY <2>1, <2>2
<1>2. /\ at[0] = Start
      /\ \A i \in 0..n : at[i] \in States(S)
      /\ \A i \in 1..n : at[i] = ReadTag(at[i - 1], tags[i])
  BY ReadFollows
<1>3. /\ Depth(tags, 0) = 0
      /\ \A j \in 0..n : Depth(tags, j) \in Int
      /\ \A j \in 1..n :
           /\ tags[j].form = "open"   => Depth(tags, j) = Depth(tags, j - 1) + 1
           /\ tags[j].form = "close"  => Depth(tags, j) = Depth(tags, j - 1) - 1
           /\ tags[j].form = "single" => Depth(tags, j) = Depth(tags, j - 1)
  BY DepthFollows
<1>4. ~at[n].bad /\ at[n].stack = <<>>
  OBVIOUS
<1>5. \A i \in 0..n : ~at[i].bad
  <2> DEFINE T == {i \in 0..n : ~at[n - i].bad}
  <2>1. 0 \in T
    BY <1>1, <1>4
  <2>2. ASSUME NEW i \in 1..n, i - 1 \in T PROVE i \in T
    <3> DEFINE k == n - (i - 1)
    <3>1. k \in 1..n /\ k - 1 = n - i /\ k - 1 \in 0..n /\ i \in 0..n /\ ~at[k].bad
      BY <1>1, <2>2
    <3>2. at[k - 1] \in States(S) /\ tags[k] \in Tags(S) /\ at[k] = ReadTag(at[k - 1], tags[k])
      BY <1>1, <1>2, <3>1
    <3>3. at[k - 1].bad => at[k].bad
      <4> DEFINE v == at[k - 1]
      <4> DEFINE tag == tags[k]
      <4>1. v \in States(S) /\ tag \in Tags(S) /\ at[k] = ReadTag(v, tag)
        BY <3>2
      <4> HIDE DEF v, tag
      <4>2. v.bad => ReadTag(v, tag).bad
        BY <4>1, ReadTagSays
      <4>3. QED
        BY <4>1, <4>2 DEF v
    <3>4. QED
      BY <3>1, <3>3
  <2> HIDE DEF T
  <2>3. \A i \in 0..n : i \in T
    <3> HIDE DEF n
    <3>1. QED
      BY <1>1, <2>1, <2>2, ReachesAll
  <2>4. \A i \in 0..n : n - i \in 0..n /\ n - (n - i) = i
    BY <1>1
  <2>5. QED
    BY <2>3, <2>4 DEF T
<1> HIDE DEF n
<1>6. \A j \in 0..n : Levels(tags, at[j].stack, j)
  <2> DEFINE T == {j \in 0..n : Levels(tags, at[j].stack, j)}
  <2>1. 0 \in T
    <3>1. at[0].stack = <<>> /\ Len(<<>>) = 0 /\ 0 \in 0..n
      BY <1>1, <1>2 DEF Start
    <3>2. Levels(tags, at[0].stack, 0)
      BY <1>3, <3>1 DEF Levels
    <3>3. QED
      BY <3>1, <3>2
  <2>2. ASSUME NEW j \in 1..n, j - 1 \in T PROVE j \in T
    <3>1. j \in 0..n /\ j - 1 \in 0..n /\ Levels(tags, at[j - 1].stack, j - 1)
      BY <1>1, <2>2
    <3>2. at[j - 1] \in States(S) /\ at[j] = ReadTag(at[j - 1], tags[j]) /\ ~at[j].bad
      BY <1>2, <1>5, <3>1
    <3>3. Levels(tags, at[j].stack, j)
      BY <3>1, <3>2, LevelsFollow DEF n
    <3>4. QED
      BY <3>1, <3>3
  <2> HIDE DEF T
  <2>3. \A j \in 0..n : j \in T
    BY <1>1, <2>1, <2>2, ReachesAll
  <2>4. QED
    BY <2>3 DEF T
<1>7. ASSUME NEW k \in 1..n, tags[k].form = "close"
      PROVE  \E i \in 1..n : i < k /\ Matches(tags, i, k)
  <2> DEFINE v == at[k - 1]
  <2>1. k - 1 \in 0..n /\ v \in States(S) /\ at[k] = ReadTag(v, tags[k]) /\ ~at[k].bad
    BY <1>1, <1>2, <1>5
  <2>2. Levels(tags, v.stack, k - 1)
    BY <1>6, <2>1
  <2> HIDE DEF v
  <2>3. v.stack # <<>> /\ v.stack[Len(v.stack)] = tags[k].name
    BY <1>1, <1>7, <2>1, ReadTagSays
  <2>4. v.stack \in Seq(S) /\ Len(v.stack) \in 1..Len(v.stack)
    <3>1. v.stack \in Seq(S)
      BY <2>1 DEF States
    <3>2. QED
      BY <2>3, <3>1, LenProperties, EmptySeq
  <2>5. PICK i \in 1..(k - 1) : /\ Opener(tags, i, k - 1, Len(v.stack))
                                /\ tags[i].name = v.stack[Len(v.stack)]
    BY <2>2, <2>4 DEF Levels
  <2>6. Len(v.stack) = Depth(tags, k - 1) /\ i \in 1..n /\ i < k
    BY <1>1, <2>2 DEF Levels
  <2>7. Matches(tags, i, k)
    BY <1>7, <2>3, <2>5, <2>6, MatchesIs DEF n
  <2>8. QED
    BY <2>6, <2>7
<1>8. ASSUME NEW i \in 1..n, tags[i].form = "open"
      PROVE  \E k \in 1..n : Matches(tags, i, k)
  <2> DEFINE d == Depth(tags, i)
  <2> DEFINE K == {k \in (i + 1)..n : Depth(tags, k) < d}
  <2>1. d \in Int /\ d >= 1 /\ i - 1 \in 0..n /\ i \in 0..n
    <3>1. i - 1 \in 0..n /\ i \in 0..n
      BY <1>1
    <3>2. at[i - 1].stack \in Seq(S) /\ Len(at[i - 1].stack) = Depth(tags, i - 1)
      BY <1>2, <1>6, <3>1 DEF States, Levels
    <3>3. Depth(tags, i - 1) \in Nat
      BY <3>2, LenProperties
    <3>4. QED
      BY <1>3, <1>8, <3>1, <3>3
  <2>2. n \in K
    <3>1. n \in 0..n /\ Levels(tags, at[n].stack, n)
      BY <1>1, <1>6
    <3>2. Depth(tags, n) = 0
      BY <1>4, <3>1 DEF Levels
    <3>3. i # n
      BY <2>1, <3>2
    <3>4. QED
      BY <1>1, <2>1, <3>2, <3>3
  <2>3. K \subseteq Nat
    BY <1>1
  <2>4. PICK k \in K : \A m \in K : k <= m
    BY <2>2, <2>3, LeastExists
  <2>5. /\ k \in 1..n /\ k - 1 \in 0..n /\ k - 1 \in i..n /\ i \in 1..(k - 1) /\ Depth(tags, k) < d
        /\ \A m \in (i + 1)..(k - 1) : m \notin K
    BY <1>1, <2>4
  <2>6. \A m \in i..(k - 1) : Depth(tags, m) >= d
    <3> TAKE m \in i..(k - 1)
    <3>1. m \in 0..n /\ Depth(tags, m) \in Int
      BY <1>1, <1>3, <2>5
    <3>2. CASE m = i
      BY <2>1, <3>2
    <3>3. CASE m # i
      <4>1. m \in (i + 1)..(k - 1) /\ m \in (i + 1)..n
        BY <1>1, <2>5, <3>3
      <4>2. QED
        BY <2>1, <2>5, <3>1, <4>1
    <3>4. QED
      BY <3>2, <3>3
  <2>7. k - 1 \in i..(k - 1) /\ Depth(tags, k - 1) \in Int /\ Depth(tags, k) \in Int
    BY <1>1, <1>3, <2>5
  <2> HIDE DEF d, K
  <2>8. tags[k].form = "close" /\ Depth(tags, k - 1) = d
    <3>1. Depth(tags, k - 1) >= d
      BY <2>6, <2>7
    <3>2. tags[k].form = "close"
      BY <1>1, <1>3, <2>1, <2>5, <2>7, <3>1 DEF Forms
    <3>3. Depth(tags, k) = Depth(tags, k - 1) - 1
      BY <1>3, <2>5, <3>2
    <3>4. QED
      BY <2>1, <2>5, <2>7, <3>1, <3>2, <3>3
  <2>9. Opener(tags, i, k - 1, d)
    BY <1>8, <2>5, <2>6 DEF Opener, d
  <2>10. PICK l \in 1..n : Matches(tags, l, k)
    BY <1>7, <2>5, <2>8
  <2>11. Opener(tags, l, k - 1, d) /\ tags[l].name = tags[k].name
    BY <2>5, <2>8, <2>10, MatchesIs DEF n
  <2>12. l = i
    BY <2>1, <2>5, <2>9, <2>11, OpenerIsUnique DEF n
  <2>13. QED
    BY <2>5, <2>10, <2>12
<1>9. QED
  BY <1>7, <1>8 DEF Nested, n

\* Nested tags are read without an error and leave nothing open.
LEMMA NestedIsRead ==
  ASSUME NEW S, NEW tags \in Seq(Tags(S)), NEW at, IsRead(at, tags), Nested(tags)
  PROVE  ~at[Len(tags)].bad /\ at[Len(tags)].stack = <<>>
<1> DEFINE n == Len(tags)
<1>1. n \in Nat /\ \A i \in 1..n : tags[i] \in Tags(S) /\ tags[i].form \in Forms
  <2>1. n \in Nat /\ \A i \in 1..n : tags[i] \in Tags(S)
    BY LenProperties, ElementOfSeq
  <2>2. \A i \in 1..n : tags[i].form \in Forms
    BY <2>1 DEF Tags
  <2>3. QED
    BY <2>1, <2>2
<1>2. /\ at[0] = Start
      /\ \A i \in 0..n : at[i] \in States(S)
      /\ \A i \in 1..n : at[i] = ReadTag(at[i - 1], tags[i])
  BY ReadFollows
<1>3. /\ Depth(tags, 0) = 0
      /\ \A j \in 0..n : Depth(tags, j) \in Int
      /\ \A j \in 1..n :
           /\ tags[j].form = "open"   => Depth(tags, j) = Depth(tags, j - 1) + 1
           /\ tags[j].form = "close"  => Depth(tags, j) = Depth(tags, j - 1) - 1
           /\ tags[j].form = "single" => Depth(tags, j) = Depth(tags, j - 1)
  BY DepthFollows
<1>4. /\ \A i \in 1..n : tags[i].form = "open" => \E k \in 1..n : Matches(tags, i, k)
      /\ \A k \in 1..n : tags[k].form = "close" => \E i \in 1..n : Matches(tags, i, k)
  BY DEF Nested
<1> HIDE DEF n
<1> DEFINE Good(j) == /\ ~at[j].bad /\ Levels(tags, at[j].stack, j)
                      /\ \A m \in 0..j : Depth(tags, m) >= 0
<1> DEFINE T == {j \in 0..n : Good(j)}
<1>5. 0 \in T
  <2>1. at[0].stack = <<>> /\ ~at[0].bad /\ Len(<<>>) = 0 /\ 0 \in 0..n
    BY <1>1, <1>2 DEF Start
  <2>2. Levels(tags, at[0].stack, 0)
    BY <1>3, <2>1 DEF Levels
  <2>3. \A m \in 0..0 : m = 0
    OBVIOUS
  <2>4. QED
    BY <1>3, <2>1, <2>2, <2>3
<1>6. ASSUME NEW j \in 1..n, j - 1 \in T PROVE j \in T
  <2> DEFINE v == at[j - 1]
  <2>1. /\ j \in 0..n /\ j - 1 \in 0..n /\ ~v.bad /\ Levels(tags, v.stack, j - 1)
        /\ \A m \in 0..(j - 1) : Depth(tags, m) >= 0
    BY <1>1, <1>6
  <2>2. v \in States(S) /\ at[j] = ReadTag(v, tags[j]) /\ tags[j] \in Tags(S) /\ tags[j].form \in Forms
    BY <1>1, <1>2, <2>1
  <2> HIDE DEF v
  <2>3. v.stack \in Seq(S) /\ Len(v.stack) \in Nat /\ Len(v.stack) = Depth(tags, j - 1)
    <3>1. v.stack \in Seq(S)
      BY <2>2 DEF States
    <3>2. QED
      BY <2>1, <3>1, LenProperties DEF Levels
  <2>4. ASSUME tags[j].form = "close" PROVE v.stack # <<>> /\ v.stack[Len(v.stack)] = tags[j].name
    <3>1. PICK i \in 1..n : Matches(tags, i, j)
      BY <1>4, <2>4
    <3>2. tags[i].name = tags[j].name /\ Opener(tags, i, j - 1, Len(v.stack))
      BY <2>3, <3>1, MatchesIs DEF n
    <3>3. /\ i \in 1..(j - 1) /\ i - 1 \in 0..(j - 1)
          /\ Depth(tags, i) = Depth(tags, i - 1) + 1 /\ Depth(tags, i) = Len(v.stack)
      <4>1. i \in 1..(j - 1) /\ tags[i].form = "open" /\ Depth(tags, i) = Len(v.stack)
        BY <3>2 DEF Opener
      <4>2. QED
        BY <1>1, <1>3, <4>1
    <3>4. Len(v.stack) >= 1
      <4>1. Depth(tags, i - 1) >= 0 /\ i - 1 \in 0..n
        BY <1>1, <2>1, <3>3
      <4>2. QED
        BY <1>3, <3>3, <4>1
    <3>5. Len(v.stack) \in 1..Len(v.stack)
      BY <2>3, <3>4
    <3>6. PICK k \in 1..(j - 1) : /\ Opener(tags, k, j - 1, Len(v.stack))
                                  /\ tags[k].name = v.stack[Len(v.stack)]
      BY <2>1, <3>5 DEF Levels
    <3>7. k = i
      BY <2>1, <2>3, <3>2, <3>6, OpenerIsUnique DEF n
    <3>8. v.stack # <<>>
      BY <2>3, <3>4, EmptySeq
    <3>9. QED
      BY <3>2, <3>6, <3>7, <3>8
  <2>5. ~at[j].bad
    <3>1. CASE tags[j].form = "close"
      <4>1. v.stack # <<>> /\ v.stack[Len(v.stack)] = tags[j].name
        BY <2>4, <3>1
      <4>2. ReadTag(v, tags[j]).bad = v.bad
        BY <2>2, <3>1, <4>1, ReadTagSays
      <4>3. ~v.bad
        BY <2>1
      <4>4. QED
        BY <2>2, <4>2, <4>3
    <3>2. CASE tags[j].form = "open"
      BY <2>1, <2>2, <3>2, ReadTagSays
    <3>3. CASE tags[j].form = "single"
      BY <2>1, <2>2, <3>3, ReadTagSays
    <3>4. QED
      BY <2>2, <3>1, <3>2, <3>3 DEF Forms
  <2>6. Levels(tags, at[j].stack, j)
    BY <2>1, <2>2, <2>5, LevelsFollow DEF n
  <2>7. \A m \in 0..j : Depth(tags, m) >= 0
    <3>1. at[j].stack \in Seq(S)
      BY <1>2, <2>1 DEF States
    <3>2. Depth(tags, j) >= 0
      BY <2>6, <3>1, LenProperties DEF Levels
    <3>3. \A m \in 0..j : m \in 0..(j - 1) \/ m = j
      BY <1>1
    <3>4. QED
      BY <2>1, <3>2, <3>3
  <2>8. QED
    BY <2>1, <2>5, <2>6, <2>7
<1> HIDE DEF T
<1>7. \A j \in 0..n : j \in T
  BY <1>1, <1>5, <1>6, ReachesAll
<1>8. ~at[n].bad /\ Levels(tags, at[n].stack, n) /\ n \in 0..n
  BY <1>1, <1>7 DEF T
<1>9. at[n].stack = <<>>
  <2> DEFINE d == Len(at[n].stack)
  <2> SUFFICES ASSUME at[n].stack # <<>> PROVE FALSE
    OBVIOUS
  <2>1. at[n].stack \in Seq(S)
    BY <1>2, <1>8 DEF States
  <2>2. d \in Nat /\ d \in 1..d
    BY <2>1, LenProperties, EmptySeq
  <2>3. PICK i \in 1..n : Opener(tags, i, n, d)
    BY <1>8, <2>2 DEF Levels
  <2> HIDE DEF d
  <2>4. tags[i].form = "open" /\ Depth(tags, i) = d /\ \A m \in i..n : Depth(tags, m) >= d
    BY <2>3 DEF Opener
  <2>5. PICK k \in 1..n : Matches(tags, i, k)
    BY <1>4, <2>4
  <2>6. tags[k].form = "close" /\ i < k /\ Depth(tags, k - 1) = d
    BY <2>4, <2>5 DEF Matches
  <2>7. Depth(tags, k) = d - 1 /\ k \in i..n
    BY <1>1, <1>3, <2>6
  <2>8. QED
    BY <2>2, <2>4, <2>7
<1>10. QED
  BY <1>8, <1>9 DEF n

\* Tags of any names in any number.
AnyTags == case.part = "tags" => \E S : case.tags \in Seq(Tags(S))

\* The reader accepts exactly the nested ones of allowed names.
LEMMA AcceptedIsNested ==
  AnyTags => ComponentsNest
<1> DEFINE tags == case.tags
<1> SUFFICES ASSUME AnyTags PROVE ComponentsNest
  OBVIOUS
<1> SUFFICES ASSUME case.part = "tags"
             PROVE  ~JsxErrors(tags) <=> /\ \A i \in DOMAIN tags : tags[i].name \in AllowedComponents
                                         /\ Nested(tags)
  <2>1. ASSUME case.part = "tags" PROVE DOMAIN tags = 1..Len(tags)
    <3>1. PICK S : tags \in Seq(Tags(S))
      BY <2>1 DEF AnyTags
    <3>2. QED
      BY <3>1, LenProperties
  <2>2. QED
    BY <2>1 DEF ComponentsNest, Nested
<1>1. PICK S : tags \in Seq(Tags(S))
  BY DEF AnyTags
<1> DEFINE at == CHOOSE f : IsRead(f, tags)
<1>2. IsRead(at, tags)
  BY <1>1, ReadExists
<1>3. JsxErrors(tags) <=> \/ at[Len(tags)].bad \/ at[Len(tags)].stack # <<>>
                          \/ \E i \in DOMAIN tags : tags[i].name \notin AllowedComponents
  BY DEF JsxErrors, IsRead, Start
<1> HIDE DEF tags, at
<1>4. ~at[Len(tags)].bad /\ at[Len(tags)].stack = <<>> => Nested(tags)
  BY <1>1, <1>2, ReadIsNested
<1>5. Nested(tags) => ~at[Len(tags)].bad /\ at[Len(tags)].stack = <<>>
  BY <1>1, <1>2, NestedIsRead
<1>6. QED
  BY <1>3, <1>4, <1>5

\* For answers with texts of any length and lists of any size, and for any tags: a document
\* is canonical, well formed, and its components nest (summary_output.py, validar).
THEOREM DocumentsForAnyInput ==
  AnyDocument /\ AnyTags => DocumentsAreSound
  BY ParsedIsCanonical, RenderedIs, AcceptedIsNested DEF DocumentsAreSound

-----------------------------------------------------------------------------
(* The inputs of the specification are such inputs. *)

RuleInput ==
  /\ AnyAnswer /\ AnyClaim /\ AnyContent
  /\ AnyFile /\ AnyText /\ AnyLengths /\ AnySteps
  /\ AnyReply /\ AnyMovements /\ AnyMetadata
  /\ AnyConnection /\ AnyBody
  /\ AnyDocument /\ AnyTags

\* The enumerated sequences are sequences.
LEMMA SomeSeqIs ==
  ASSUME NEW S, NEW n \in Nat, NEW s \in SomeSeq(S, n)
  PROVE  s \in Seq(S) /\ \E k \in Nat : DOMAIN s = 1..k
<1>1. PICK k \in 0..n : s \in [1..k -> S]
  BY DEF SomeSeq
<1>2. k \in Nat
  OBVIOUS
<1>3. QED
  BY <1>1, <1>2, SeqDef

\* The texts of the provider's answer.
LEMMA AnswerIsInput ==
  ChooseAnswer => AnyAnswer' /\ case'.part = "answer"
<1> SUFFICES ASSUME ChooseAnswer PROVE AnyAnswer' /\ case'.part = "answer"
  OBVIOUS
<1>1. PICK answer \in SomeSeq([id : {"a", "b", "other"}, same : BOOLEAN,
                               refs : {<<>>, <<"p">>, <<"p", "p">>, <<"p", "m">>, <<"unknown">>}], 3) :
        case' = [part |-> "answer", answer |-> answer]
  BY DEF ChooseAnswer, Take
<1>2. \E n \in Nat : DOMAIN answer = 1..n
  BY SomeSeqIs
<1>3. QED
  BY <1>1, <1>2 DEF AnyAnswer

\* Claims of at most two facts on a process and two movements.
LEMMA ClaimIsInput ==
  ChooseClaim => AnyClaim' /\ case'.part = "claim"
<1> SUFFICES ASSUME ChooseClaim PROVE AnyClaim' /\ case'.part = "claim"
  OBVIOUS
<1> DEFINE P == [code : {1}, stepCount : {1}, amount : 0..2, named : {{}, {<<"cnj", 2>>}},
                 scalars : {{}, {"t"}}]
<1> DEFINE M == Movements({{}, {<<"cnj", 2>>}, {<<"amount", 2>>}, {<<"amount", 2>>, <<"count", 2>>}}, {{}, {"t"}})
<1> DEFINE N == Movements({{}, {<<"count", 2>>}, {<<"amount", 1>>}}, {{}}) \cup {EmptyShare}
<1> DEFINE catalog(process, m, n) == [p |-> ProcessEvidence(process), m |-> m, n |-> n]
<1>1. PICK facts \in {f \in SUBSET ClaimFacts : Cardinality(f) <= 2},
           class \in {"decision", "summary"}, text \in {"t", "u"},
           refs \in {<<"p">>, <<"m">>, <<"p", "m">>, <<"m", "p">>, <<"m", "n">>},
           process \in P, m \in M, n \in N :
        \E labeled \in SUBSET Of(facts, "amount") :
          Take([part |-> "claim", refs |-> refs, process |-> process,
                catalog |-> catalog(process, m, n),
                claim |-> [class |-> class, text |-> text, facts |-> facts, labeled |-> labeled]])
  BY DEF ChooseClaim
<1>2. PICK labeled \in SUBSET Of(facts, "amount") :
        case' = [part |-> "claim", refs |-> refs, process |-> process,
                 catalog |-> catalog(process, m, n),
                 claim |-> [class |-> class, text |-> text, facts |-> facts, labeled |-> labeled]]
  BY <1>1 DEF Take
<1>3. m.kind # "process" /\ n.kind # "process" /\ BlankIsEmpty(m) /\ BlankIsEmpty(n)
  <2>1. \A F, T : \A e \in Movements(F, T) : e.kind # "process" /\ BlankIsEmpty(e)
    <3> SUFFICES ASSUME NEW F, NEW T, NEW e \in Movements(F, T)
                 PROVE  e.kind # "process" /\ BlankIsEmpty(e)
      OBVIOUS
    <3>1. PICK f \in F, t \in T : e = TextEvidence("movement", f, t)
      BY DEF Movements
    <3>2. QED
      BY <3>1 DEF TextEvidence, BlankIsEmpty
  <2>2. EmptyShare.kind # "process" /\ BlankIsEmpty(EmptyShare)
    BY DEF EmptyShare, BlankIsEmpty
  <2>3. QED
    BY <2>1, <2>2
<1>4. refs \in Seq({"p", "m", "n"})
  <2>1. <<"p">> \in Seq({"p", "m", "n"}) /\ <<"m">> \in Seq({"p", "m", "n"})
    OBVIOUS
  <2>2. <<"p", "m">> \in Seq({"p", "m", "n"}) /\ <<"m", "p">> \in Seq({"p", "m", "n"})
    OBVIOUS
  <2>3. <<"m", "n">> \in Seq({"p", "m", "n"})
    OBVIOUS
  <2>4. QED
    BY <2>1, <2>2, <2>3
<1>5. BlankIsEmpty(ProcessEvidence(process)) /\ Of(process.named, "amount") = {}
  <2>1. process.named \in {{}, {<<"cnj", 2>>}}
    OBVIOUS
  <2>2. Of(process.named, "amount") = {}
    BY <2>1 DEF Of
  <2>3. QED
    BY <2>2 DEF ProcessEvidence, BlankIsEmpty
<1>6. /\ DOMAIN catalog(process, m, n) = {"p", "m", "n"}
      /\ catalog(process, m, n).p = ProcessEvidence(process)
      /\ catalog(process, m, n)["m"] = m /\ catalog(process, m, n)["n"] = n
      /\ catalog(process, m, n)["p"] = ProcessEvidence(process)
  OBVIOUS
<1> HIDE DEF P, M, N, catalog
<1>7. \A r \in DOMAIN catalog(process, m, n) : BlankIsEmpty(catalog(process, m, n)[r])
  BY <1>3, <1>5, <1>6
<1>8. QED
  BY <1>2, <1>3, <1>4, <1>5, <1>6, <1>7 DEF AnyClaim

\* Texts on what the process or a source may tell.
LEMMA ContentIsInput ==
  ChooseContent => AnyContent' /\ case'.part = "content"
<1> SUFFICES ASSUME ChooseContent PROVE AnyContent' /\ case'.part = "content"
  OBVIOUS
<1>1. PICK facts \in SUBSET (OwnFacts \cup ForeignFacts), source \in SUBSET ForeignFacts :
        case' = [part |-> "content", facts |-> facts, source |-> source]
  BY DEF ChooseContent, Take
<1>2. \A f \in OwnFacts : f[1] \in {"cnj", "count", "party", "identifier"}
  BY DEF OwnFacts
<1>3. QED
  BY <1>1, <1>2 DEF AnyContent

\* Texts, and the sizes of their chunks.
LEMMA TextIsInput ==
  ChooseText => AnyText' /\ case'.part = "text"
<1> SUFFICES ASSUME ChooseText PROVE AnyText' /\ case'.part = "text"
  OBVIOUS
<1>1. PICK text \in SomeSeq({"x", "s", "t"}, 7), size \in 2..4 :
        case' = [part |-> "text", text |-> text, size |-> size]
  BY DEF ChooseText, Take
<1>2. text \in Seq({"x", "s", "t"})
  BY SomeSeqIs
<1>3. QED
  BY <1>1, <1>2 DEF AnyText

\* Lengths of texts that share a budget.
LEMMA LengthsAreInput ==
  ChooseLengths => AnyLengths' /\ case'.part = "lengths"
<1> SUFFICES ASSUME ChooseLengths PROVE AnyLengths' /\ case'.part = "lengths"
  OBVIOUS
<1>1. PICK lengths \in SomeSeq(0..4, 3), total \in 0..8, each \in 1..3 :
        case' = [part |-> "lengths", lengths |-> lengths, total |-> total, each |-> each]
  BY DEF ChooseLengths, Take
<1>2. lengths \in Seq(0..4)
  BY SomeSeqIs
<1>3. lengths \in Seq(Nat)
  BY <1>2
<1>4. QED
  BY <1>1, <1>3 DEF AnyLengths

\* Files, and how the exchange with the parser process ends.
LEMMA FileIsInput ==
  ChooseFile => AnyFile' /\ case'.part = "file"
<1> SUFFICES ASSUME ChooseFile PROVE AnyFile' /\ case'.part = "file"
  OBVIOUS
<1>1. PICK type \in {"text", "pdf", "image", "other"}, size \in {0, 1, MaxBytes + 1}, header \in BOOLEAN,
           state \in {"ok", "broken", "encrypted"},
           pages \in SomeSeq({"text", "scan", "blank", "noise"}, MaxOcrPages + 1),
           ocr \in [enabled : BOOLEAN, installed : BOOLEAN],
           outcome \in Outcomes :
        case' = [part |-> "file", ocr |-> ocr, outcome |-> outcome,
                 doc |-> [type |-> type, size |-> size, header |-> header, state |-> state, pages |-> pages]]
  BY DEF ChooseFile, Take, Outcomes
<1>2. QED
  BY <1>1 DEF AnyFile

\* The movements of a process, and their scores.
LEMMA StepsAreInput ==
  ChooseSteps => AnySteps' /\ case'.part = "steps"
<1> SUFFICES ASSUME ChooseSteps PROVE AnySteps' /\ case'.part = "steps"
  OBVIOUS
<1>1. PICK foreign \in SUBSET {1, 4}, private \in SUBSET {1, 2}, score \in [1..4 -> {0, 1}],
           rerank \in [1..4 -> {0, 1}], milestones \in SUBSET (1..4), scorer \in BOOLEAN :
        case' = [part |-> "steps", score |-> score, rerank |-> rerank, milestones |-> milestones,
                 scorer |-> scorer,
                 steps |-> [i \in 1..4 |-> [OfHome EXCEPT !.cnj = IF i \in foreign THEN "q" ELSE @,
                                                          !.private = IF i \in private THEN "true" ELSE @]]]
  BY DEF ChooseSteps, Take
<1>2. DOMAIN case'.steps = 1..4 /\ case'.score = score /\ case'.rerank = rerank /\ case'.scorer = scorer
      /\ case'.part = "steps"
  BY <1>1
<1>3. 4 \in Nat /\ \A i \in 1..4 : score[i] \in Int /\ rerank[i] \in Int
  OBVIOUS
<1>4. QED
  BY <1>2, <1>3 DEF AnySteps

\* Replies to the creation of a request.
LEMMA ReplyIsInput ==
  ChooseReply => AnyReply' /\ case'.part = "reply"
<1> SUFFICES ASSUME ChooseReply PROVE AnyReply' /\ case'.part = "reply"
  OBVIOUS
<1>1. PICK sent \in BOOLEAN, status \in {200, 201, 204, 400, 404, 408, 429, 500},
           body \in {"identified", "other", "empty", "garbled", "oversized"}, acted \in BOOLEAN :
        /\ sent /\ status \in {400, 404} => ~acted
        /\ case' = [part |-> "reply", acted |-> acted, reply |-> [sent |-> sent, status |-> status, body |-> body]]
  BY DEF ChooseReply, Take
<1>2. status \in Nat /\ (status \in (400..499) \ {408, 429} => status \in {400, 404})
  OBVIOUS
<1>3. QED
  BY <1>1, <1>2 DEF AnyReply

\* Two answers that differ in one movement.
LEMMA MovementsAreInput ==
  ChooseMovements => AnyMovements' /\ case'.part = "movements"
<1> SUFFICES ASSUME ChooseMovements PROVE AnyMovements' /\ case'.part = "movements"
  OBVIOUS
<1>1. PICK flags \in SomeSeq(BOOLEAN, 4) : \E k \in DOMAIN flags :
        case' = [part |-> "movements", broken |-> k, secrecy |-> 0,
                 steps |-> [i \in DOMAIN flags |-> [id |-> i, wellFormed |-> flags[i]]]]
  BY DEF ChooseMovements, Take
<1>2. PICK k \in DOMAIN flags :
        case' = [part |-> "movements", broken |-> k, secrecy |-> 0,
                 steps |-> [i \in DOMAIN flags |-> [id |-> i, wellFormed |-> flags[i]]]]
  BY <1>1
<1>3. \E n \in Nat : DOMAIN flags = 1..n
  BY SomeSeqIs
<1>4. QED
  BY <1>2, <1>3 DEF AnyMovements

\* Metadata of two origins.
LEMMA MetadataIsInput ==
  ChooseMetadata => AnyMetadata' /\ case'.part = "metadata"
<1> SUFFICES ASSUME ChooseMetadata PROVE AnyMetadata' /\ case'.part = "metadata"
  OBVIOUS
<1>1. PICK ours, theirs \in {Absent, <<"a", 0>>, <<"a", 1>>, <<"b", 0>>}, secrecy \in {0, 1}, absent \in BOOLEAN,
           mine, official \in SomeSeq({"none", "x", "y"}, 2) :
        case' = [part |-> "metadata",
                 process |-> [secrecy |-> secrecy, scalars |-> [class |-> ours], subjects |-> mine],
                 official |-> [absent |-> absent, scalars |-> [class |-> theirs], subjects |-> official]]
  BY DEF ChooseMetadata, Take
<1>2. (\E n \in Nat : DOMAIN mine = 1..n) /\ (\E n \in Nat : DOMAIN official = 1..n)
  BY SomeSeqIs
<1>3. QED
  BY <1>1, <1>2 DEF AnyMetadata

\* Connections through the proxy.
LEMMA ConnectionIsInput ==
  ChooseConnection => AnyConnection' /\ case'.part = "connection"
<1> SUFFICES ASSUME ChooseConnection PROVE AnyConnection' /\ case'.part = "connection"
  OBVIOUS
<1>1. PICK readable \in BOOLEAN, method \in {"CONNECT", "GET"}, host \in {"judit", "other"}, port \in {443, 80},
           form \in {"name", "address"}, first, second \in SomeSeq(Addresses, 2), up \in SUBSET (1..3) :
        /\ readable \/ (method = "GET" /\ up = {})
        /\ Take([part |-> "connection", answers |-> <<first, second>>, up |-> up,
                 request |-> [readable |-> readable, method |-> method,
                              target |-> [host |-> host, port |-> port, form |-> form]]])
  BY Zenon DEF ChooseConnection
<1>2. \E n \in Nat : DOMAIN first = 1..n
  BY SomeSeqIs
<1>3. QED
  BY <1>1, <1>2 DEF AnyConnection, Take

\* Bodies of requests.
LEMMA BodyIsInput ==
  ChooseBody => AnyBody' /\ case'.part = "body"
<1> SUFFICES ASSUME ChooseBody PROVE AnyBody' /\ case'.part = "body"
  OBVIOUS
<1>1. PICK method \in {"POST", "GET"}, lengths \in SomeSeq({"within", "over", "bad"}, 2), transfer \in BOOLEAN,
           chunks \in SomeSeq(0..3, 3) :
        case' = [part |-> "body", request |-> [method |-> method, lengths |-> lengths, transfer |-> transfer,
                                               chunks |-> chunks]]
  BY DEF ChooseBody, Take
<1>2. chunks \in Seq(0..3)
  BY SomeSeqIs
<1>3. chunks \in Seq(Nat)
  BY <1>2
<1>4. QED
  BY <1>1, <1>3 DEF AnyBody

\* The summaries of the provider's answer.
LEMMA DocumentIsInput ==
  ChooseDocument => AnyDocument' /\ case'.part = "document"
<1> SUFFICES ASSUME ChooseDocument PROVE AnyDocument' /\ case'.part = "document"
  OBVIOUS
<1> DEFINE item == [mark |-> "control", len |-> 1]
<1> DEFINE lists(filled) == [k \in DOMAIN ConditionalSections |-> IF k \in filled THEN <<item>> ELSE <<>>]
<1>1. PICK synthesis \in Prose({"plain", "control", "guarded"}, {0, 1, SynthesisMax}),
           status \in Prose({"plain", "control", "guarded"}, {1, StatusMax, StatusMax + 1}),
           timeline \in {<<>>, <<[mark |-> "plain", len |-> 1]>>},
           attention \in SomeSeq(Prose({"plain", "control"}, {0, 1, ItemMax}), ItemsMax),
           filled \in SUBSET DOMAIN ConditionalSections, process \in DocumentProcesses :
        case' = [part |-> "document", process |-> process, raw |->
          [synthesis |-> synthesis, status |-> status, timeline |-> timeline, attention |-> attention,
           lists |-> lists(filled)]]
  BY DEF ChooseDocument, Take
<1>2. synthesis \in Texts /\ status \in Texts
  BY DEF Prose, Texts, Marks, SynthesisMax, StatusMax
<1>3. timeline \in Seq(Texts)
  <2> DEFINE plain == [mark |-> "plain", len |-> 1]
  <2>1. plain \in Texts /\ timeline \in {<<>>, <<plain>>}
    BY DEF Texts, Marks
  <2> HIDE DEF plain
  <2>2. <<plain>> \in Seq(Texts) /\ <<>> \in Seq(Texts)
    BY <2>1
  <2>3. QED
    BY <2>1, <2>2
<1>4. attention \in Seq(Texts)
  <2>1. attention \in Seq(Prose({"plain", "control"}, {0, 1, ItemMax}))
    BY SomeSeqIs DEF ItemsMax
  <2>2. \A t \in Prose({"plain", "control"}, {0, 1, ItemMax}) : t \in Texts
    BY DEF Prose, Texts, Marks, ItemMax
  <2> DEFINE P == Prose({"plain", "control"}, {0, 1, ItemMax})
  <2> HIDE DEF P
  <2>3. attention \in Seq(P) /\ P \subseteq Texts
    BY <2>1, <2>2 DEF P
  <2>4. QED
    BY <2>3
<1>5. lists(filled) \in [DOMAIN ConditionalSections -> Seq(Texts)]
  <2>1. item \in Texts
    BY DEF Texts, Marks
  <2> HIDE DEF item
  <2>2. <<item>> \in Seq(Texts) /\ <<>> \in Seq(Texts)
    BY <2>1
  <2>3. QED
    BY <2>2
<1> HIDE DEF lists
<1>6. QED
  BY <1>1, <1>2, <1>3, <1>4, <1>5 DEF AnyDocument

\* The tags of an answer.
LEMMA TagsAreInput ==
  ChooseTags => AnyTags' /\ case'.part = "tags"
<1> SUFFICES ASSUME ChooseTags PROVE AnyTags' /\ case'.part = "tags"
  OBVIOUS
<1> DEFINE S == {"Party", "ProcessHeader", "Script"}
<1>1. PICK tags \in SomeSeq([form : {"open", "close", "single"}, name : S], 4) :
        case' = [part |-> "tags", tags |-> tags]
  BY DEF ChooseTags, Take
<1>2. tags \in Seq(Tags(S))
  BY SomeSeqIs DEF Tags, Forms
<1>3. QED
  BY <1>1, <1>2 DEF AnyTags

\* The event takes an input nothing is assumed of.
LEMMA EventIsInput ==
  ChooseEvent => case'.part = "event"
BY DEF ChooseEvent, Take

\* Every input the specification chooses is one the lemmas are about.
LEMMA InputsAreSound ==
  RulesSpec => []RuleInput
<1> USE DEF AnyAnswer, AnyClaim, AnyContent, AnyFile, AnyText, AnyLengths, AnySteps,
            AnyReply, AnyMovements, AnyMetadata, AnyConnection, AnyBody, AnyDocument, AnyTags
<1>1. RulesInit => RuleInput
  BY DEF RulesInit, RuleInput
<1>2. RuleInput /\ RulesNext => RuleInput'
  <2> SUFFICES ASSUME RulesNext PROVE RuleInput'
    OBVIOUS
  <2>1. CASE ChooseAnswer
    BY <2>1, AnswerIsInput DEF RuleInput
  <2>2. CASE ChooseClaim
    BY <2>2, ClaimIsInput DEF RuleInput
  <2>3. CASE ChooseDocument
    BY <2>3, DocumentIsInput DEF RuleInput
  <2>4. CASE ChooseContent
    BY <2>4, ContentIsInput DEF RuleInput
  <2>5. CASE ChooseTags
    BY <2>5, TagsAreInput DEF RuleInput
  <2>6. CASE ChooseText
    BY <2>6, TextIsInput DEF RuleInput
  <2>7. CASE ChooseLengths
    BY <2>7, LengthsAreInput DEF RuleInput
  <2>8. CASE ChooseFile
    BY <2>8, FileIsInput DEF RuleInput
  <2>9. CASE ChooseSteps
    BY <2>9, StepsAreInput DEF RuleInput
  <2>10. CASE ChooseReply
    BY <2>10, ReplyIsInput DEF RuleInput
  <2>11. CASE ChooseEvent
    BY <2>11, EventIsInput DEF RuleInput
  <2>12. CASE ChooseMovements
    BY <2>12, MovementsAreInput DEF RuleInput
  <2>13. CASE ChooseMetadata
    BY <2>13, MetadataIsInput DEF RuleInput
  <2>14. CASE ChooseConnection
    BY <2>14, ConnectionIsInput DEF RuleInput
  <2>15. CASE ChooseBody
    BY <2>15, BodyIsInput DEF RuleInput
  <2>16. QED
    BY <2>1, <2>2, <2>3, <2>4, <2>5, <2>6, <2>7, <2>8, <2>9, <2>10, <2>11, <2>12, <2>13, <2>14, <2>15 DEF RulesNext
<1>3. RuleInput /\ UNCHANGED case => RuleInput'
  BY DEF RuleInput
<1>4. QED
  BY <1>1, <1>2, <1>3, PTL DEF RulesSpec

-----------------------------------------------------------------------------
(* The properties of the specification. *)

\* In every behaviour of Rules, and so in the run, the rules achieve what they are for
\* (the checks of an answer, publication, documents, the way to the provider, intake, the borders).
THEOREM RulesHold ==
  RulesSpec => [](/\ SummaryIsGrounded /\ PublicationFollowsEvidence /\ DocumentsAreSound
                  /\ ProviderSeesWhatItMust /\ IntakeIsSound /\ BordersHold)
<1>1. RuleInput => /\ SummaryIsGrounded /\ PublicationFollowsEvidence /\ DocumentsAreSound
                   /\ ProviderSeesWhatItMust /\ IntakeIsSound /\ BordersHold
  BY GroundedForAnyInput, PublicationForAnyInput, DocumentsForAnyInput, ProviderForAnyInput,
     IntakeForAnyInput, BordersForAnyInput DEF RuleInput
<1>2. QED
  BY <1>1, InputsAreSound, PTL
=============================================================================
