-------------------------------- MODULE Rules --------------------------------
(* The rules of the system that are functions of their input, each against what it
   must achieve, over all small inputs.

   A step chooses a rule and an input, which `case` then holds. *)
EXTENDS Integers, Claims, Documents, Parsing, Retrieval, Gateway, Intake

VARIABLE case

RulesInit == case = [part |-> "none"]

\* A behaviour looks at one input.
Fresh == case.part = "none"
Take(c) == case' = c

SomeSeq(S, n) == UNION {[1..k -> S] : k \in 0..n}

-----------------------------------------------------------------------------
(* Inputs. *)

\* An answer of the provider, as claims about two expected fields.
ChooseAnswer ==
  /\ Fresh
  /\ \E answer \in SomeSeq([id : {"a", "b", "other"}, same : BOOLEAN,
                            refs : {<<>>, <<"p">>, <<"p", "p">>, <<"p", "m">>, <<"unknown">>}], 3) :
       Take([part |-> "answer", answer |-> answer])

ClaimFacts == {<<"cnj", 2>>, <<"amount", 1>>, <<"amount", 2>>, <<"count", 1>>, <<"count", 2>>}

Movements(facts, texts) == {TextEvidence("movement", f, t) : f \in facts, t \in texts}

\* A claim with at most two facts, the references it cites and what they name: the
\* process p, whose fields may name another one, a movement m, and n, a movement or a
\* part of an attachment of which nothing was left.
ChooseClaim ==
  /\ Fresh
  /\ \E facts \in {f \in SUBSET ClaimFacts : Cardinality(f) <= 2},
        class \in {"decision", "summary"}, text \in {"t", "u"},
        refs \in {<<"p">>, <<"m">>, <<"p", "m">>, <<"m", "p">>, <<"m", "n">>},
        process \in [code : {1}, stepCount : {1}, amount : 0..2, named : {{}, {<<"cnj", 2>>}},
                     scalars : {{}, {"t"}}],
        m \in Movements({{}, {<<"cnj", 2>>}, {<<"amount", 2>>}, {<<"amount", 2>>, <<"count", 2>>}}, {{}, {"t"}}),
        n \in Movements({{}, {<<"count", 2>>}, {<<"amount", 1>>}}, {{}}) \cup {EmptyShare} :
       \E labeled \in SUBSET Of(facts, "amount") :
         Take([part |-> "claim", refs |-> refs, process |-> process,
                 catalog |-> [p |-> ProcessEvidence(process), m |-> m, n |-> n],
                 claim |-> [class |-> class, text |-> text, facts |-> facts, labeled |-> labeled]])

Prose(marks, lengths) == [mark : marks, len : lengths]

\* A process as it should be, and two with a field the provider sent in another form.
DocumentProcesses ==
  {[header |-> {"none", "text", "number"}, parties |-> {"none", "text"}],
   [header |-> {"text", "nested"}, parties |-> {"text"}],
   [header |-> {"text"}, parties |-> {"text", "number"}]}

ChooseDocument ==
  /\ Fresh
  /\ \E synthesis \in Prose({"plain", "control", "guarded"}, {0, 1, SynthesisMax}),
        status \in Prose({"plain", "control", "guarded"}, {1, StatusMax, StatusMax + 1}),
        timeline \in {<<>>, <<[mark |-> "plain", len |-> 1]>>},
        attention \in SomeSeq(Prose({"plain", "control"}, {0, 1, ItemMax}), ItemsMax),
        filled \in SUBSET DOMAIN ConditionalSections, process \in DocumentProcesses :
       Take([part |-> "document", process |-> process, raw |->
         [synthesis |-> synthesis, status |-> status, timeline |-> timeline, attention |-> attention,
          lists |-> [k \in DOMAIN ConditionalSections |->
                       IF k \in filled THEN <<[mark |-> "control", len |-> 1]>> ELSE <<>>]]])

OwnFacts == {<<"cnj", 1>>, <<"count", 1>>, <<"party", 1>>, <<"identifier", 1>>}
ForeignFacts == {<<"cnj", 2>>, <<"count", 2>>, <<"party", 2>>, <<"date", 1>>, <<"url", 1>>}

\* The facts of a rendered text and of what was supplied beside the process itself.
ChooseContent ==
  /\ Fresh
  /\ \E facts \in SUBSET (OwnFacts \cup ForeignFacts), source \in SUBSET ForeignFacts :
       Take([part |-> "content", facts |-> facts, source |-> source])

ChooseTags ==
  /\ Fresh
  /\ \E tags \in SomeSeq([form : {"open", "close", "single"}, name : {"Party", "ProcessHeader", "Script"}], 4) :
       Take([part |-> "tags", tags |-> tags])

\* A text without white space at its ends.
ChooseText ==
  /\ Fresh
  /\ \E text \in SomeSeq({"x", "s", "t"}, 7), size \in 2..4 :
       /\ text # <<>> /\ text[1] = "x" /\ text[Len(text)] = "x"
       /\ Take([part |-> "text", text |-> text, size |-> size])

ChooseLengths ==
  /\ Fresh
  /\ \E lengths \in SomeSeq(0..4, 3), total \in 0..8, each \in 1..3 :
       Take([part |-> "lengths", lengths |-> lengths, total |-> total, each |-> each])

ChooseFile ==
  /\ Fresh
  /\ \E type \in {"text", "pdf", "image", "other"}, size \in {0, 1, MaxBytes + 1}, header \in BOOLEAN,
        state \in {"ok", "broken", "encrypted"},
        pages \in SomeSeq({"text", "scan", "blank", "noise"}, MaxOcrPages + 1),
        ocr \in [enabled : BOOLEAN, installed : BOOLEAN],
        outcome \in {"answered", "unavailable", "timeout", "broken"} :
       Take([part |-> "file", ocr |-> ocr, outcome |-> outcome,
               doc |-> [type |-> type, size |-> size, header |-> header, state |-> state, pages |-> pages]])

Home == [code |-> "p", instance |-> "1", secrecy |-> 0]
OfHome == [cnj |-> "p", instance |-> "1", private |-> "none", secrecy |-> "0"]

\* Four movements of a process, some of another one or private, with their scores.
ChooseSteps ==
  /\ Fresh
  /\ \E foreign \in SUBSET {1, 4}, private \in SUBSET {1, 2}, score \in [1..4 -> {0, 1}],
        rerank \in [1..4 -> {0, 1}], milestones \in SUBSET (1..4), scorer \in BOOLEAN :
       Take([part |-> "steps", score |-> score, rerank |-> rerank, milestones |-> milestones,
               scorer |-> scorer,
               steps |-> [i \in 1..4 |-> [OfHome EXCEPT !.cnj = IF i \in foreign THEN "q" ELSE @,
                                                        !.private = IF i \in private THEN "true" ELSE @]]])

\* A reply to the creation of a request, and whether the provider created it: a
\* rejection other than a timeout or a limit of rate created nothing.
ChooseReply ==
  /\ Fresh
  /\ \E sent \in BOOLEAN, status \in {200, 201, 204, 400, 404, 408, 429, 500},
        body \in {"identified", "other", "empty", "garbled", "oversized"}, acted \in BOOLEAN :
       /\ sent /\ status \in {400, 404} => ~acted
       /\ Take([part |-> "reply", acted |-> acted, reply |-> [sent |-> sent, status |-> status, body |-> body]])

ChooseEvent ==
  /\ Fresh
  /\ \E type \in {"none", "response_created", "request_completed", "other"},
        status \in {"completed", "other"}, about \in {"tracking", "request"},
        request \in {"none", "q"}, reference \in {"none", "k"},
        kind \in {"none", "lawsuit", "application_info"}, completes \in BOOLEAN,
        code \in {"none", "cnj", "other"}, response \in {"none", "r"}, callback \in {"none", "c"} :
       Take([part |-> "event", body |->
         [type |-> type, status |-> status, about |-> about, request |-> request, reference |-> reference,
          kind |-> kind, completes |-> completes, code |-> code, response |-> response, callback |-> callback]])

\* Two answers on one process that differ in one movement that is malformed in the other.
ChooseMovements ==
  /\ Fresh
  /\ \E flags \in SomeSeq(BOOLEAN, 4) : \E k \in DOMAIN flags :
       Take([part |-> "movements", broken |-> k, secrecy |-> 0,
               steps |-> [i \in DOMAIN flags |-> [id |-> i, wellFormed |-> flags[i]]]])

Absent == <<"none", 0>>
ChooseMetadata ==
  /\ Fresh
  /\ \E ours, theirs \in {Absent, <<"a", 0>>, <<"a", 1>>, <<"b", 0>>}, secrecy \in {0, 1}, absent \in BOOLEAN,
        mine, official \in SomeSeq({"none", "x", "y"}, 2) :
       Take([part |-> "metadata",
               process |-> [secrecy |-> secrecy, scalars |-> [class |-> ours], subjects |-> mine],
               official |-> [absent |-> absent, scalars |-> [class |-> theirs], subjects |-> official]])

Addresses == {[id |-> 1, global |-> TRUE], [id |-> 2, global |-> TRUE], [id |-> 3, global |-> FALSE]}
ChooseConnection ==
  /\ Fresh
  /\ \E readable \in BOOLEAN, method \in {"CONNECT", "GET"}, host \in {"judit", "other"}, port \in {443, 80},
        form \in {"name", "address"}, first, second \in SomeSeq(Addresses, 2), up \in SUBSET (1..3) :
       /\ readable \/ (method = "GET" /\ up = {})
       /\ Take([part |-> "connection", answers |-> <<first, second>>, up |-> up,
                  request |-> [readable |-> readable, method |-> method,
                               target |-> [host |-> host, port |-> port, form |-> form]]])

ChooseBody ==
  /\ Fresh
  /\ \E method \in {"POST", "GET"}, lengths \in SomeSeq({"within", "over", "bad"}, 2), transfer \in BOOLEAN,
        chunks \in SomeSeq(0..3, 3) :
       Take([part |-> "body", request |-> [method |-> method, lengths |-> lengths, transfer |-> transfer,
                                             chunks |-> chunks]])

RulesNext ==
  \/ ChooseAnswer \/ ChooseClaim \/ ChooseDocument \/ ChooseContent \/ ChooseTags \/ ChooseText \/ ChooseLengths \/ ChooseFile
  \/ ChooseSteps \/ ChooseReply \/ ChooseEvent \/ ChooseMovements \/ ChooseMetadata
  \/ ChooseConnection \/ ChooseBody

RulesSpec == RulesInit /\ [][RulesNext]_case

-----------------------------------------------------------------------------
(* Properties. *)

\* An answer that passes the validation is one its readers accept later, and declares
\* references of the catalog only; every answer they would accept passes
\* (validate_claim_evidence against declared_claim_evidence).
ValidationIsExact ==
  case.part = "answer" =>
    (ValidateClaimEvidence(case.answer, {"a", "b"}, {"p", "m"}) = {} <=>
       /\ Declares(case.answer, {"a", "b"})
       /\ \A i \in DOMAIN case.answer : ToSet(case.answer[i].refs) \subseteq {"p", "m"})

Cited == {case.catalog[r] : r \in ToSet(case.refs)}
ClaimIsAccepted == case.part = "claim" /\ Accepted(case.claim, case.refs, case.catalog)

\* Each fact of an accepted claim is in a source the claim cites, unless a source has
\* its text word for word (verify_material_claims).
AcceptedIsGrounded ==
  ClaimIsAccepted => \/ case.claim.facts \subseteq UNION {e.facts : e \in Cited}
                     \/ \E e \in Cited : case.claim.text \in e.texts

\* What the generation accepts and stores is refused when it is read for publication in
\* one case only: a claim with facts cites, beside what supports it, an attachment of which
\* nothing was left (verify_material_claims gives that relation no digest, and
\* claim_evidence_is_publishable asks for one). Such a summary is never published.
AcceptedIsPublishable ==
  ClaimIsAccepted =>
    LET row == StoredClaim(case.claim, case.refs, case.catalog)
    IN PublishableClaim(LoadClaim(row, DOMAIN case.catalog), case.refs)
         <=> case.claim.facts = {} \/ \A e \in Cited : ~e.blank

\* When any source of a claim is gone the claim is not published, even if others remain
\* (claim_evidence_is_publishable compares the references in their order).
LostSourceIsSeen ==
  ClaimIsAccepted =>
    \A r \in ToSet(case.refs) :
      ~PublishableClaim(LoadClaim(StoredClaim(case.claim, case.refs, case.catalog),
                                  DOMAIN case.catalog \ {r}), case.refs)

\* A claim that is accepted stays so when it cites another movement as well.
MoreEvidenceNeverHurts ==
  ClaimIsAccepted =>
    \A r \in {"m", "n"} \ ToSet(case.refs) :
      Accepted(case.claim, Append(case.refs, r), case.catalog)

\* What validar holds the text to: the CNJ of the process, its number of movements, its parties.
Identity(process) ==
  {<<"cnj", process.code>>, <<"count", process.stepCount>>} \cup Of(process.named, "party")

\* A claim that cites the process, and passes validar and the verification, calls no
\* amount the value of the process that differs from the amount of its header, unless the
\* header has none or the claim repeats one of the process's own fields word for word,
\* which is asked before the amounts are compared. A claim that does not cite the process
\* is not compared with it.
AcceptedAgreesWithProcess ==
  /\ ClaimIsAccepted
  /\ "p" \in ToSet(case.refs)
  /\ ~ContentErrors(case.claim.facts, Identity(case.process), UNION {e.facts : e \in Cited})
  /\ case.process.amount # 0
  => \/ case.claim.text \in case.process.scalars
     \/ case.claim.labeled \subseteq {<<"amount", case.process.amount>>}

\* A stored document is checked again by its readers. One made of an answer that parses is
\* refused then in two cases only: a text that begins with a control character is exactly at
\* its limit, which the joiner put before it exceeds; or the provider sent a field of the
\* header as an object or an array, or one of a party as something other than a text, which
\* the promotion of the process lets through (structured_summary_document_is_canonical).
CanonicalUnless ==
  case.part = "document" =>
    LET parsed == ParseSummary(case.raw) IN
    parsed.ok => (DocumentIsCanonical(StructuredDocument(parsed, case.process)) <=>
                    /\ ~AtItsLimit(case.raw.synthesis, SynthesisMax)
                    /\ ~AtItsLimit(case.raw.status, StatusMax)
                    /\ "nested" \notin case.process.header
                    /\ case.process.parties \subseteq {"none", "text"})

\* The document rendered from any answer that parses passes the rules of validar on its
\* sections, whatever the texts begin with.
RenderedIsWellFormed ==
  case.part = "document" =>
    LET parsed == ParseSummary(case.raw) IN
    parsed.ok => ~ShapeErrors(RenderSummary(parsed, [mark |-> "plain", len |-> 1]))

\* More of what is supplied supports more of the text, but what the text says of the
\* process itself is held to the process alone: an attachment that names another party
\* or another CNJ makes neither acceptable (validar).
SourceOnlySupports ==
  case.part = "content" =>
    LET refused(facts, source) == ContentErrors(facts, OwnFacts, source)
        identity == {f \in case.facts : f[1] \in {"cnj", "count", "party", "identifier"}}
    IN /\ refused(case.facts, ForeignFacts) => refused(case.facts, case.source)
       /\ refused(case.facts, ForeignFacts) <=> refused(identity, {})

\* How many more tags of the first j open than close.
Depth(tags, j) ==
  Cardinality({x \in 1..j : tags[x].form = "open"}) - Cardinality({x \in 1..j : tags[x].form = "close"})

\* The tag that closes at k is the first after i that ends the level i opens.
Matches(tags, i, k) ==
  /\ i < k /\ tags[i].form = "open" /\ tags[k].form = "close" /\ tags[i].name = tags[k].name
  /\ \A j \in i..(k - 1) : Depth(tags, j) >= Depth(tags, i)
  /\ Depth(tags, k - 1) = Depth(tags, i)

\* The components of an accepted text are allowed ones and nest (the stack of _jsx_errors
\* goes on after an error).
ComponentsNest ==
  case.part = "tags" =>
    LET tags == case.tags IN
    ~JsxErrors(tags) <=>
      /\ \A i \in DOMAIN tags : tags[i].name \in AllowedComponents
      /\ \A i \in DOMAIN tags : tags[i].form = "open" => \E k \in DOMAIN tags : Matches(tags, i, k)
      /\ \A k \in DOMAIN tags : tags[k].form = "close" => \E i \in DOMAIN tags : Matches(tags, i, k)

\* The chunks of a text have no more than size characters, come in order, and leave out
\* nothing but white space (_chunk_text).
ChunksCoverText ==
  case.part = "text" =>
    LET chunks == ChunkText(case.text, case.size)
        inside(i, c) == c[1] < i /\ i <= c[2]
    IN /\ \A k \in DOMAIN chunks : /\ chunks[k][1] < chunks[k][2]
                                   /\ chunks[k][2] - chunks[k][1] <= case.size
                                   /\ \A j \in 1..(k - 1) : chunks[j][2] <= chunks[k][1]
       /\ \A i \in DOMAIN case.text :
            IsSpace(case.text[i]) \/ \E k \in DOMAIN chunks : inside(i, chunks[k])

\* The texts together keep to the budget, and each gets its equal part at least: a long
\* one never starves those after it (serialize_attachments, _serialize_steps).
BudgetIsShared ==
  case.part = "lengths" =>
    LET kept == ShareBudget(case.lengths, case.total) IN
    /\ SumOf(kept) <= case.total
    /\ \A i \in DOMAIN kept :
         /\ kept[i] <= case.lengths[i]
         /\ kept[i] >= Least({case.lengths[i], case.total \div Len(kept)})
    /\ SumOf(SerializeSteps(case.lengths, case.each, case.total)) <= case.total

\* A file is ready with all the pages that have a text layer, or, when none has, with
\* all that could be recognised, and never when it is damaged or locked.
ParsedPagesAreComplete ==
  case.part = "file" =>
    LET result == ProcessBytes(case.doc, case.ocr, case.outcome)
        layers == PagesWith(case.doc, {"text"})
    IN result.ok =>
         /\ case.doc.state # "broken" \/ case.doc.type = "image"
         /\ case.doc.state # "encrypted" \/ case.doc.type # "pdf"
         /\ result.pages = IF layers # {} /\ case.doc.type # "image" THEN layers
                           ELSE PagesWith(case.doc, {"scan", "text"})
         /\ result.pages # {}

EligibleOf == {i \in DOMAIN case.steps : Eligible(case.steps[i], Home)}
SentToProvider ==
  SelectContextSteps(EligibleOf, case.score, case.rerank, case.milestones, case.scorer)

\* The first movement, the last and the milestones of those that may be shown pass both
\* rankings, whatever their scores are.
MandatoryReachesProvider ==
  case.part = "steps" =>
    \A i \in EligibleOf :
      (\A k \in EligibleOf : i <= k) \/ (\A k \in EligibleOf : k <= i) \/ i \in case.milestones
        => i \in SentToProvider

\* Mandatory movements count towards the limit, they do not extend it.
ContextIsBounded ==
  case.part = "steps" =>
    Cardinality(SentToProvider)
      <= Max({RerankOutput, LegacyOutput, Cardinality(Mandatory(EligibleOf, case.milestones))})

\* What may be asked for again was not created the first time (retry_safe): the paid
\* request is not bought twice.
RepeatedOnlyIfRejected ==
  case.part = "reply" => (CreateRequest(case.reply).again => ~case.acted)

\* An event that is taken has a request, and a tracking's own identifier is never taken
\* for one, so its answers are not added to a request that does not exist.
EventsAreTraceable ==
  case.part = "event" =>
    LET event == ParseEvent(case.body) IN
    event.accepted /\ (event.lawsuit \/ event.completed) =>
      /\ event.request # "none"
      /\ case.body.about = "tracking" => event.request = case.body.request
      /\ ~(event.lawsuit /\ event.completed)

\* A movement that is malformed in one answer and not in the next leaves the numbers of
\* the others as they are.
StepNumbersAreStable ==
  case.part = "movements" =>
    LET Others(process) == {s \in ToSet(ExtractPromotable(process).steps) : s.id # case.broken}
        process == [secrecy |-> case.secrecy, steps |-> case.steps, attachments |-> <<>>, header |-> {}]
    IN Others(process)
         = Others([process EXCEPT !.steps[case.broken].wellFormed = ~case.steps[case.broken].wellFormed])

\* A value of ours is replaced by a different one if and only if there is a warning;
\* merging the result again changes nothing and warns of nothing.
MergeIsStable ==
  case.part = "metadata" =>
    LET once  == MergeDatajud(case.process, case.official)
        twice == MergeDatajud(once.process, case.official)
        ours  == case.process.scalars.class
    IN /\ "class" \in once.warnings
            <=> ours # Absent /\ Folded(once.process.scalars.class) # Folded(ours)
       /\ twice.process = once.process
       /\ twice.warnings = {}

\* The proxy connects to an address that it has found to be global, of a name on its
\* list, whatever the name resolves to later.
ConnectedIsChecked ==
  case.part = "connection" =>
    LET outcome == HandleClient(case.request, {"judit"}, case.answers, case.up) IN
    \A a \in outcome.to : /\ a.global /\ a.id \in case.up /\ a \in ToSet(case.answers[1])
                           /\ case.request.target.host = "judit" /\ case.request.target.port = 443

BodyLimit == 3

\* The handler of a POST is given no more than the limit, and all of the body when the
\* request succeeds, whatever its headers say.
BodyIsBounded ==
  case.part = "body" /\ case.request.method = "POST" =>
    LET outcome == LimitBody(case.request, BodyLimit) IN
    /\ outcome.taken <= BodyLimit
    /\ outcome.status = 200 => outcome.taken = SumOf(case.request.chunks)
-----------------------------------------------------------------------------
(* What the rules of a part must achieve together. *)

\* A summary says what its sources say: the facts of each claim are in what it cites, or
\* its text is there word for word; and a claim about the value of the process that cites
\* the process agrees with it, but for the exceptions stated above. The checks of an
\* answer (validate_claim_evidence), of its claims (verify_material_claims) and of the
\* rendered text (validar) achieve that together.
SummaryIsGrounded ==
  ValidationIsExact /\ AcceptedIsGrounded /\ AcceptedAgreesWithProcess /\ SourceOnlySupports

\* Publication follows the evidence: what was accepted is published as long as all of its
\* sources are there and none of them was empty, is not when one is gone, and acceptance
\* is not endangered by further ones (claim_evidence_is_publishable against
\* verify_material_claims).
PublicationFollowsEvidence ==
  AcceptedIsPublishable /\ LostSourceIsSeen /\ MoreEvidenceNeverHurts

\* A document survives being stored and read again but for the cases CanonicalUnless names,
\* and its text is one that the parser of components and the rules on sections take for
\* what was meant (summary_output.py, validar).
DocumentsAreSound == CanonicalUnless /\ RenderedIsWellFormed /\ ComponentsNest

\* What must be shown reaches the provider from the file to the prompt: no page with a text
\* and no letter of a chunk is lost, no text starves another, and neither scores nor the
\* limits of two rankings displace a mandatory movement (attachment_processing.py,
\* attachment_context.py, rag.py, retrieval.py, reranking.py).
ProviderSeesWhatItMust ==
  /\ ParsedPagesAreComplete /\ ChunksCoverText
  /\ BudgetIsShared
  /\ MandatoryReachesProvider /\ ContextIsBounded

\* Answers of the providers are taken for what they are: nothing that may have been created
\* is asked for again, no event is added to a request that does not exist, and answers that
\* come twice or damaged leave numbers and metadata as they are (judit_client.py, judit.py,
\* datajud_enrichment.py).
IntakeIsSound ==
  RepeatedOnlyIfRejected /\ EventsAreTraceable /\ StepNumbersAreStable /\ MergeIsStable

\* The borders hold: the proxy reaches only what it has checked, and no handler is given
\* more than the limit of a body (egress_proxy.py, http_limits.py).
BordersHold == ConnectedIsChecked /\ BodyIsBounded
=============================================================================
