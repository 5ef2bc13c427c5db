------------------------------- MODULE Parsing -------------------------------
(* From the bytes of an attachment to the text the provider sees:
   attachment_processing.py, attachment_sandbox.py and the text budgets of
   attachment_context.py and rag.py.

   A text is a sequence of "x" (any letter), "s" (a space or a line break) and "t"
   (white space the splitter does not prefer). A document is
   [type, size, header, state, pages]; a page has a text layer ("text"), a picture of
   a text ("scan"), nothing ("blank"), or a picture that recognition fails on
   ("noise"). The limits are small numbers in place of 10 MiB, 4000 characters and
   100 pages. *)
EXTENDS Lists

MaxBytes == 2
MaxOcrPages == 2

-----------------------------------------------------------------------------
(* Chunks. *)

IsSpace(c) == c \in {"s", "t"}
Least(S) == CHOOSE x \in S : \A y \in S : x <= y
Greatest(S) == CHOOSE x \in S : \A y \in S : y <= x

\* Where the chunk that begins at from ends: at the last space of the second half of
\* the window, if there is one, and without white space at its end. Positions count
\* the characters before them.
ChunkEnd(text, from, size) ==
  LET hard   == Least({from + size, Len(text)})
      breaks == {i \in (from + (size \div 2) + 1)..(hard - 1) : text[i + 1] = "s"}
      cut    == IF hard < Len(text) /\ breaks # {} THEN Greatest(breaks) ELSE hard
      solid  == {i \in (from + 1)..cut : ~IsSpace(text[i])}
  IN IF solid = {} THEN hard ELSE Greatest(solid)

\* The next chunk begins at the next character that is not white space.
NextStart(text, end, size) ==
  LET solid == {i \in (end + 1)..Len(text) : ~IsSpace(text[i])} IN
  IF solid = {} THEN Len(text) ELSE Least(solid) - 1

\* The chunks of a text as pairs of positions.
ChunkText(text, size) ==
  LET from[p \in 0..Len(text)] ==
        IF p >= Len(text) THEN <<>>
        ELSE LET end == ChunkEnd(text, p, size)
             IN <<<<p, end>>>> \o from[NextStart(text, end, size)]
  IN from[0]

-----------------------------------------------------------------------------
(* Budgets. *)

\* An equal part of what is left for each text that is left.
Allowance(left, items) == left \div items

\* The lengths of the texts after they share total, in their order.
ShareBudget(lengths, total) ==
  LET left[i \in 0..Len(lengths)] ==
        IF i = 0 THEN total
        ELSE LET a == Allowance(left[i - 1], Len(lengths) - i + 1)
             IN left[i - 1] - Least({a, lengths[i]})
  IN [i \in DOMAIN lengths |-> left[i - 1] - left[i]]

\* Movements are first cut one by one and share only when they are too long together.
SerializeSteps(lengths, each, total) ==
  LET cut == [i \in DOMAIN lengths |-> Least({lengths[i], each})]
  IN IF SumOf(cut) > total THEN ShareBudget(cut, total) ELSE cut

-----------------------------------------------------------------------------
(* Parsers. *)

Unreadable(code) == [ok |-> FALSE, status |-> "unreadable", code |-> code, pages |-> {}]
Corrupt(code) == [ok |-> FALSE, status |-> "corrupt", code |-> code, pages |-> {}]
Parsed(pages) == [ok |-> TRUE, status |-> "ready", code |-> "none", pages |-> pages]

PagesWith(doc, some) == {i \in DOMAIN doc.pages : doc.pages[i] \in some}

\* The checks every parser makes first; "fine" when none fails.
PayloadError(doc) ==
  CASE doc.size > MaxBytes -> Unreadable("attachment_too_large")
    [] doc.size = 0        -> Unreadable("empty_attachment")
    [] OTHER               -> Parsed({})

ParseText(doc) ==
  IF ~PayloadError(doc).ok THEN PayloadError(doc)
  ELSE IF doc.state = "broken" THEN Corrupt("invalid_utf8")
  ELSE IF PagesWith(doc, {"text"}) = {} THEN Unreadable("empty_text")
  ELSE Parsed(PagesWith(doc, {"text"}))

\* The text layers; a page without one is passed over.
ParsePdf(doc) ==
  IF ~PayloadError(doc).ok THEN PayloadError(doc)
  ELSE IF ~doc.header THEN Corrupt("invalid_pdf_header")
  ELSE IF doc.state = "encrypted" THEN Unreadable("encrypted_pdf")
  ELSE IF doc.state = "broken" THEN Corrupt("invalid_pdf")
  ELSE IF PagesWith(doc, {"text"}) = {} THEN Unreadable("pdf_text_unavailable")
  ELSE Parsed(PagesWith(doc, {"text"}))

\* Recognition of pictures: one page that fails fails the document.
Recognize(doc, ocr) ==
  IF ~ocr.enabled THEN Unreadable("ocr_disabled")
  ELSE IF ~ocr.installed THEN Unreadable("ocr_unavailable")
  ELSE IF PagesWith(doc, {"noise"}) # {} THEN Unreadable("ocr_failed")
  ELSE IF PagesWith(doc, {"scan", "text"}) = {} THEN Unreadable("ocr_no_text")
  ELSE Parsed(PagesWith(doc, {"scan", "text"}))

ParseImage(doc, ocr) ==
  IF ~PayloadError(doc).ok THEN PayloadError(doc)
  ELSE IF ~doc.header THEN Corrupt("invalid_image_header")
  ELSE Recognize(doc, ocr)

ParsePdfOcr(doc, ocr) ==
  IF Len(doc.pages) > MaxOcrPages THEN Unreadable("pdf_ocr_too_many_pages") ELSE Recognize(doc, ocr)

\* What the parser process answers. Recognition is for a file that is otherwise sound.
ParseRequest(doc, ocr) ==
  CASE doc.type = "image" -> ParseImage(doc, ocr)
    [] doc.type = "pdf"   ->
         IF ParsePdf(doc).code = "pdf_text_unavailable" /\ ocr.enabled THEN ParsePdfOcr(doc, ocr)
         ELSE ParsePdf(doc)
    [] OTHER              -> Unreadable("unsupported_content_type")

\* The exchange with the parser process: an answer, or none.
Exchange(doc, ocr, outcome) ==
  CASE outcome = "answered"    -> ParseRequest(doc, ocr)
    [] outcome = "unavailable" -> Unreadable("parser_unavailable")
    [] outcome = "timeout"     -> Unreadable("parser_timeout")
    [] outcome = "broken"      -> Unreadable("parser_protocol_error")

\* Files and pictures go to the parser process, plain text does not.
ProcessBytes(doc, ocr, outcome) ==
  CASE doc.type \in {"image", "pdf"} -> Exchange(doc, ocr, outcome)
    [] doc.type = "text"             -> ParseText(doc)
    [] OTHER                         -> Unreadable("unsupported_content_type")
=============================================================================
