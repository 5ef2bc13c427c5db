------------------------------- MODULE Claims -------------------------------
(* Provenance and verification of the claims of a generated summary
   (claim_evidence.py, claim_verification.py, and rag.py where it accepts an
   answer), as operators on one answer of the provider.

   An answer is a sequence of raw claims [id, same, refs]: the field it names,
   whether its text is that field's, and the references it cites. A claim that is
   verified is [class, text, facts, labeled]: a fact is a pair of a kind and a
   value, and labeled holds those of its amounts that it calls the value of the
   process. A piece of evidence is [kind, facts, texts, blank]: the facts that are
   found in it, its sentences, and whether nothing at all was left of it. The
   application supplies a catalog of them by reference. *)
EXTENDS Lists, SequencesExt

FactKinds == <<"cnj", "amount", "date", "party", "count">>   \* in the order they are compared
MaterialClasses == {"procedural_event", "decision", "deadline", "related_process", "attachment"}

-----------------------------------------------------------------------------
(* The structure of an answer. *)

\* What is wrong with the claim i of an answer. A claim that comes again, or that
\* names no field, is not looked at further.
ClaimErrors(answer, i, expected, catalog) ==
  LET c == answer[i] IN
  IF \E k \in 1..(i - 1) : answer[k].id = c.id THEN {"duplicate"}
  ELSE IF c.id \notin expected THEN {"unexpected"}
  ELSE {e \in {"text", "bare", "repeated_ref", "unknown_ref"} :
          CASE e = "text"         -> ~c.same
            [] e = "bare"         -> c.refs = <<>>
            [] e = "repeated_ref" -> ~IsInjective(c.refs)
            [] e = "unknown_ref"  -> ~(ToSet(c.refs) \subseteq catalog)}

ValidateClaimEvidence(answer, expected, catalog) ==
  (UNION {ClaimErrors(answer, i, expected, catalog) : i \in DOMAIN answer})
  \cup {"missing" : id \in {x \in expected : \A i \in DOMAIN answer : answer[i].id # x}}

\* The references each field is said to rest on, as readers take them from the
\* stored document; a document they refuse declares none.
Declares(answer, expected) ==
  /\ \A i \in DOMAIN answer : /\ answer[i].id \in expected /\ answer[i].same
                              /\ answer[i].refs # <<>> /\ IsInjective(answer[i].refs)
  /\ \A i, k \in DOMAIN answer : answer[i].id = answer[k].id => i = k
  /\ {answer[i].id : i \in DOMAIN answer} = expected

DeclaredRefs(answer) ==
  [id \in {answer[i].id : i \in DOMAIN answer} |->
     answer[CHOOSE i \in DOMAIN answer : answer[i].id = id].refs]

-----------------------------------------------------------------------------
(* The evidence the application supplies. *)

\* The fields of the process name CNJs, dates and parties, its own CNJ among them, and
\* each scalar among them is a text. Of amounts and counts only that of the header, 0 when
\* there is none, and that of its movements are the process's.
ProcessEvidence(process) ==
  [kind |-> "process", texts |-> process.scalars, blank |-> FALSE,
   facts |-> process.named \cup {<<"cnj", process.code>>, <<"count", process.stepCount>>}
             \cup (IF process.amount = 0 THEN {} ELSE {<<"amount", process.amount>>})]

\* A movement or a part of an attachment is worth every fact its text has.
TextEvidence(kind, facts, texts) == [kind |-> kind, facts |-> facts, texts |-> texts, blank |-> FALSE]

\* A part of an attachment whose share of the budget is empty is still supplied.
EmptyShare == [kind |-> "attachment", facts |-> {}, texts |-> {}, blank |-> TRUE]

-----------------------------------------------------------------------------
(* The verification of a claim against the evidence it cites. *)

Of(facts, kind) == {f \in facts : f[1] = kind}

\* The first kind of which the evidence lacks a fact of the claim.
FirstMissing(claim, have) ==
  FactKinds[CHOOSE i \in DOMAIN FactKinds :
    /\ ~(Of(claim.facts, FactKinds[i]) \subseteq have)
    /\ \A k \in 1..(i - 1) : Of(claim.facts, FactKinds[k]) \subseteq have]

\* The process itself states another value, or another number of movements.
ProcessDisagrees(claim, kind, have, stated) ==
  /\ Of(stated, kind) # {}
  /\ \/ kind = "count" /\ ~(Of(claim.facts, "count") \subseteq have)
     \/ kind = "amount" /\ ~(claim.labeled \subseteq have)

RelationStatus(claim, e) ==
  IF claim.text \in e.texts THEN "supported"
  ELSE IF claim.facts = {} THEN "not_evaluated"
  ELSE IF claim.facts \subseteq e.facts THEN "supported"
  ELSE IF /\ e.kind = "process"
          /\ ProcessDisagrees(claim, FirstMissing(claim, e.facts), e.facts, e.facts)
       THEN "contradicted" ELSE "insufficient"

\* The sources that are cited, taken together.
VerifyClaim(claim, cited) ==
  LET have   == UNION {e.facts : e \in cited}
      stated == UNION {e.facts : e \in {x \in cited : x.kind = "process"}}
  IN IF \E e \in cited : RelationStatus(claim, e) = "contradicted" THEN "contradicted"
     ELSE IF \E e \in cited : claim.text \in e.texts THEN "supported"
     ELSE IF claim.facts = {} THEN "not_evaluated"
     ELSE IF \E k \in {"amount", "count"} : ProcessDisagrees(claim, k, have, stated)
          THEN "contradicted"
     ELSE IF claim.facts \subseteq have THEN "supported" ELSE "insufficient"

VerificationErrors(claim, status) ==
  \/ status = "contradicted"
  \/ status = "insufficient" /\ claim.facts # {}
  \/ status = "not_evaluated" /\ claim.class \in MaterialClasses

\* An answer with one claim on the evidence refs names is accepted.
Accepted(claim, refs, catalog) ==
  /\ ValidateClaimEvidence(<<[id |-> "synthesis", same |-> TRUE, refs |-> refs]>>,
                           {"synthesis"}, DOMAIN catalog) = {}
  /\ ~VerificationErrors(claim, VerifyClaim(claim, {catalog[r] : r \in ToSet(refs)}))

-----------------------------------------------------------------------------
(* What is stored for a claim, and what its readers ask of the rows. *)

\* The digest of the text that was compared; an empty text has none.
HasDigest(evidence) == ~evidence.blank

\* The claim's row and one relation per reference.
StoredClaim(claim, refs, catalog) ==
  [status |-> VerifyClaim(claim, {catalog[r] : r \in ToSet(refs)}), reason |-> TRUE,
   sources |-> [i \in DOMAIN refs |->
                  [ref |-> refs[i], status |-> RelationStatus(claim, catalog[refs[i]]),
                   reason |-> TRUE, digest |-> HasDigest(catalog[refs[i]])]]]

\* A relation whose movement or chunk is no longer among the summary's is not loaded.
LoadClaim(stored, live) ==
  [stored EXCEPT !.sources = KeepAt(@, {i \in DOMAIN @ : @[i].ref \in live})]

\* What a writer holds before it stores: no reason and no digest.
AssembledClaim(stored) ==
  [stored EXCEPT !.reason = FALSE,
                 !.sources = [i \in DOMAIN @ |-> [@[i] EXCEPT !.reason = FALSE, !.digest = FALSE]]]

Evaluated(status) == status # "not_evaluated"

ClaimMetadata(item) == item.status # "contradicted" /\ (Evaluated(item.status) => item.reason)
SourceMetadata(s) == s.status # "contradicted" /\ (Evaluated(s.status) => s.reason /\ s.digest)

\* Mutant: the references are compared as a set that may have shrunk.
PublishableSubset(item, declared) ==
  /\ {item.sources[i].ref : i \in DOMAIN item.sources} \subseteq ToSet(declared)
  /\ ClaimMetadata(item) /\ \A i \in DOMAIN item.sources : SourceMetadata(item.sources[i])

PublishableClaim(item, declared) ==
  /\ item.sources # <<>> /\ [i \in DOMAIN item.sources |-> item.sources[i].ref] = declared
  /\ ClaimMetadata(item)
  /\ \A i \in DOMAIN item.sources : SourceMetadata(item.sources[i])
  /\ Evaluated(item.status) => \E i \in DOMAIN item.sources : Evaluated(item.sources[i].status)
=============================================================================
