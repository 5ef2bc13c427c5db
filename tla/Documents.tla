------------------------------ MODULE Documents ------------------------------
(* The structured answer of the provider and the document made of it
   (summary_output.py), with the rules the rendered text must keep (validation.py).

   A prose text is [mark, len]: whether its line would begin with a character that
   Markdown or the parser of components understands ("control"), such a text behind
   the invisible joiner ("guarded"), or neither ("plain"). Length 0 is blank. The
   limits are small numbers in place of 6000, 4000 and 2000 characters. *)
EXTENDS Lists, SequencesExt

SynthesisMax == 3
StatusMax == 2
ItemMax == 2
ItemsMax == 2

CoreSections == <<"Partes", "Classe", "Assuntos", "Movimentacoes", "Atencao">>
ConditionalSections == <<"decisions", "deadlines", "related_processes", "attachments">>
Title == "Resumo do processo"

Refused == [ok |-> FALSE]

-----------------------------------------------------------------------------
(* Parsing. *)

\* Mutant: a text that is guarded already gets another joiner.
GuardAlways(t) == IF t.mark = "plain" THEN t ELSE [mark |-> "guarded", len |-> t.len + 1]

\* Mutant: a text is left as it came.
LeaveAsIs(t) == t

\* White space is folded and a joiner put before a control character.
ProseLine(t) == IF t.mark = "control" THEN [mark |-> "guarded", len |-> t.len + 1] ELSE t

\* The length is checked before the joiner is put.
TextFits(t, max) == t.len \in 1..max

\* Blank items are dropped, and the length is checked after the joiner is put.
StringList(items) ==
  LET kept == KeepAt(items, {i \in DOMAIN items : items[i].len > 0})
  IN [i \in DOMAIN kept |-> ProseLine(kept[i])]
ListFits(items) == /\ Len(items) <= ItemsMax
                   /\ \A i \in DOMAIN StringList(items) : StringList(items)[i].len <= ItemMax

\* parse_structured_summary: the payload, or an error that asks for a correction.
ParseSummary(raw) ==
  IF /\ TextFits(raw.synthesis, SynthesisMax) /\ TextFits(raw.status, StatusMax)
     /\ ListFits(raw.timeline) /\ ListFits(raw.attention) /\ StringList(raw.attention) # <<>>
     /\ \A k \in DOMAIN raw.lists : ListFits(raw.lists[k])
  THEN [ok |-> TRUE, synthesis |-> ProseLine(raw.synthesis), status |-> ProseLine(raw.status),
        timeline |-> StringList(raw.timeline), attention |-> StringList(raw.attention),
        lists |-> [k \in DOMAIN raw.lists |-> StringList(raw.lists[k])]]
  ELSE Refused

\* The process of the document: of the fields of its header and of its parties, what they
\* hold ("none", "text", "number" or "nested"). Empty ones are dropped, and the others are
\* taken as the provider sent them.
StructuredProcess(process) ==
  [header |-> process.header \ {"none"}, parties |-> process.parties \ {"none"}]

StructuredDocument(summary, process) == [process |-> StructuredProcess(process), summary |-> summary]

ProcessIsCanonical(process) == "nested" \notin process.header /\ process.parties \subseteq {"text"}

\* A stored document is canonical when its process has the types it must and parsing its
\* summary gives it back.
DocumentIsCanonical(doc) == ProcessIsCanonical(doc.process) /\ ParseSummary(doc.summary) = doc.summary

\* A marked text exactly as long as its field allows.
AtItsLimit(t, max) == t.mark = "control" /\ t.len = max

-----------------------------------------------------------------------------
(* Rendering: the lines as headings and other text. *)

Heading(title) == [heading |-> TRUE, title |-> title]
Line == [heading |-> FALSE, title |-> "none"]
\* A text that stands on a line of its own: a control character makes it a heading.
OwnLine(t) == IF t.mark = "control" THEN Heading("foreign") ELSE Line
Items(n) == [i \in 1..n |-> Line]

\* A conditional section is there when it has items.
Section(p, k) ==
  IF p.lists[k] = <<>> THEN <<>> ELSE <<Heading(ConditionalSections[k])>> \o Items(Len(p.lists[k]))

\* The header of the process, the core sections, the conditional ones.
RenderSummary(p, class) ==
  <<Heading(Title), OwnLine(p.synthesis), Heading("Partes"), Line, Heading("Classe"), OwnLine(class),
    Heading("Assuntos"), Line, Heading("Movimentacoes")>>
  \o Items(Len(p.timeline)) \o <<Line, Heading("Atencao")>> \o Items(Len(p.attention))
  \o Section(p, 1) \o Section(p, 2) \o Section(p, 3) \o Section(p, 4)

-----------------------------------------------------------------------------
(* The rules for the rendered text. *)

Headings(lines) == {i \in DOMAIN lines : lines[i].heading}
TitledBy(lines, some) == {i \in Headings(lines) : lines[i].title \in ToSet(some)}
PositionIn(order, t) == CHOOSE i \in DOMAIN order : order[i] = t
OutOfOrder(lines, order) ==
  \E i, k \in TitledBy(lines, order) :
    i < k /\ PositionIn(order, lines[k].title) < PositionIn(order, lines[i].title)

TitleErrors(lines) == lines[1] # Heading(Title) \/ \E i \in 2..Len(lines) : lines[i] = Heading(Title)

CoreOrderErrors(lines) ==
  \/ OutOfOrder(lines, CoreSections)
  \/ \E i, k \in TitledBy(lines, CoreSections) : i # k /\ lines[i].title = lines[k].title

ConditionalOrderErrors(lines) == OutOfOrder(lines, ConditionalSections)

UnexpectedHeadings(lines) ==
  \E i \in Headings(lines) :
    lines[i].title \notin {Title} \cup ToSet(CoreSections) \cup ToSet(ConditionalSections)

\* The section of the points of attention is there and has a line.
AttentionErrors(lines) ==
  \A i \in 1..(Len(lines) - 1) : ~(lines[i] = Heading("Atencao") /\ ~lines[i + 1].heading)

ShapeErrors(lines) ==
  \/ TitleErrors(lines) \/ CoreOrderErrors(lines) \/ ConditionalOrderErrors(lines)
  \/ UnexpectedHeadings(lines) \/ AttentionErrors(lines)

AllowedComponents == {"Party", "ProcessHeader"}

\* A tag that closes and does not match the last one open is an error and leaves it open.
ReadTag(state, tag) ==
  CASE tag.form = "single" -> state
    [] tag.form = "open"   -> [state EXCEPT !.stack = Append(@, tag.name)]
    [] tag.form = "close"  -> IF state.stack = <<>> \/ Last(state.stack) # tag.name
                              THEN [state EXCEPT !.bad = TRUE]
                              ELSE [state EXCEPT !.stack = Front(@)]

JsxErrors(tags) ==
  LET at[i \in 0..Len(tags)] ==
        IF i = 0 THEN [stack |-> <<>>, bad |-> FALSE] ELSE ReadTag(at[i - 1], tags[i])
      end == at[Len(tags)]
  IN end.bad \/ end.stack # <<>> \/ \E i \in DOMAIN tags : tags[i].name \notin AllowedComponents

\* The facts of a text are pairs as in Claims: beside those, its parties by role, personal
\* identifiers, labelled fields and amounts, addresses and phrases of a prompt. own are
\* the facts of the process, source those of all that was supplied to the provider.

\* A person in a role of the process who is not one of its parties.
PartyErrors(facts, own) == \E f \in facts : f[1] = "party" /\ f \notin own

\* A personal identifier of the data of a party.
IdentifierErrors(facts, own) == \E f \in facts : f[1] = "identifier" /\ f \in own

\* Something that only the source could have told.
SourceErrors(facts, source) ==
  \E f \in facts : f[1] \in {"field", "value", "marker", "url"} /\ f \notin source
DateErrors(facts, source) == \E f \in facts : f[1] = "date" /\ f \notin source

\* Mutant: another process may be named.
ContentErrorsOfOthers(facts, own, source) ==
  \/ \E f \in facts : f[1] = "count" /\ f \notin own
  \/ PartyErrors(facts, own) \/ IdentifierErrors(facts, own)
  \/ SourceErrors(facts, source) \/ DateErrors(facts, source)

ContentErrors(facts, own, source) ==
  \/ \E f \in facts : f[1] \in {"cnj", "count"} /\ f \notin own
  \/ PartyErrors(facts, own) \/ IdentifierErrors(facts, own)
  \/ SourceErrors(facts, source) \/ DateErrors(facts, source)
=============================================================================
