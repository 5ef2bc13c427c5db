------------------------------- MODULE Intake -------------------------------
(* What is taken from the providers: the answer to a request of ours, the events of
   Judit, the fields that are promoted and the metadata of DataJud
   (judit_client.py, judit.py, datajud_enrichment.py).

   Identifiers are names, "none" when they are missing. *)
EXTENDS Lists

-----------------------------------------------------------------------------
(* The answer to a request of ours. *)

Answered(value) == [error |-> "none", again |-> FALSE, value |-> value]
ProviderError(code, again) == [error |-> code, again |-> again, value |-> "none"]

\* Mutant: every answer of the 4xx kind is an explicit rejection.
ExplicitRejectionOf4xx(status) == 400 <= status /\ status < 500

\* A timeout of the server and a limit of rate leave open whether it acted.
ExplicitRejection(status) == 400 <= status /\ status < 500 /\ status \notin {408, 429}

\* A reply is [sent, status, body]; not sent is a failure of transport. Only a rejected
\* request may be repeated without a new decision.
ProviderRequest(reply, accepted, missingIsSuccess) ==
  CASE ~reply.sent -> ProviderError("transport_error", FALSE)
    [] reply.sent /\ reply.status >= 400 /\ missingIsSuccess /\ reply.status = 404 -> Answered("nothing")
    [] reply.sent /\ reply.status >= 400 /\ ~(missingIsSuccess /\ reply.status = 404) ->
         ProviderError("http", ExplicitRejection(reply.status))
    [] reply.sent /\ reply.status < 400 /\ reply.status \notin accepted -> ProviderError("http", FALSE)
    [] reply.sent /\ reply.status \in accepted /\ (reply.status = 204 \/ reply.body = "empty") -> Answered("nothing")
    [] reply.sent /\ reply.status \in accepted /\ reply.status # 204 /\ reply.body = "oversized" ->
         ProviderError("response_too_large", FALSE)
    [] reply.sent /\ reply.status \in accepted /\ reply.status # 204 /\ reply.body = "garbled" ->
         ProviderError("invalid_response", FALSE)
    [] OTHER -> Answered(reply.body)

\* An answer without the identifier of what was created is an error, and ambiguous.
WithIdentifier(answer) ==
  IF answer.error = "none" /\ answer.value # "identified"
  THEN ProviderError("missing_request_id", FALSE) ELSE answer

CreateRequest(reply) == WithIdentifier(ProviderRequest(reply, {201}, FALSE))
CreateTracking(reply) == WithIdentifier(ProviderRequest(reply, {200, 201}, FALSE))
DeleteTracking(reply) == ProviderRequest(reply, {200, 204}, TRUE)

-----------------------------------------------------------------------------
(* The events of Judit. *)

\* The reference of a tracking is the tracking, not a request.
RequestOf(body) ==
  CASE body.request # "none" -> body.request
    [] body.request = "none" /\ body.about # "tracking" -> body.reference
    [] OTHER -> "none"

\* A body without a type is a completion or a lawsuit, by its status.
EventType(body) ==
  CASE body.type # "none" -> body.type
    [] body.type = "none" /\ body.status = "completed" -> "request_completed"
    [] OTHER -> "response_created"

ResponseKind(body) ==
  IF body.type = "none" /\ body.kind = "none" THEN "lawsuit" ELSE body.kind

RequestCompleted(body) ==
  \/ EventType(body) = "request_completed"
  \/ EventType(body) = "response_created" /\ ResponseKind(body) = "application_info" /\ body.completes

IsLawsuit(body) == EventType(body) = "response_created" /\ ResponseKind(body) = "lawsuit"

\* The event, or the reason it is refused: a lawsuit needs a CNJ, a request and an
\* identifier that is the same when it is delivered again.
ParseEvent(body) ==
  LET refused == \/ IsLawsuit(body) /\ (body.code # "cnj" \/ RequestOf(body) = "none")
                 \/ IsLawsuit(body) /\ body.response = "none" /\ body.callback = "none"
                 \/ RequestCompleted(body) /\ RequestOf(body) = "none"
  IN [accepted |-> ~refused, request |-> RequestOf(body),
      completed |-> RequestCompleted(body), lawsuit |-> IsLawsuit(body)]

-----------------------------------------------------------------------------
(* The fields that are promoted. *)

\* Movements keep the number of their place in the answer, whatever is dropped.
NumberSteps(steps) ==
  KeepAt([i \in DOMAIN steps |-> [number |-> i, id |-> steps[i].id]],
         {i \in DOMAIN steps : steps[i].wellFormed})

\* Attachments with an identifier, the first of those that share one.
SafeAttachments(attachments) ==
  LET ids == [i \in DOMAIN attachments |-> attachments[i].id]
  IN KeepAt(attachments, {i \in FirstPositions(ids) : ids[i] # "none"})

SecretHeader == {"instance", "area", "county"}

\* Of a secret process only the outer fields are kept.
ExtractPromotable(process) ==
  [secrecy     |-> process.secrecy,
   steps       |-> IF process.secrecy > 0 THEN <<>> ELSE NumberSteps(process.steps),
   attachments |-> IF process.secrecy > 0 THEN <<>> ELSE SafeAttachments(process.attachments),
   header      |-> IF process.secrecy > 0 THEN process.header \cap SecretHeader ELSE process.header]

-----------------------------------------------------------------------------
(* The metadata of DataJud. *)

\* The value without regard to case: names that differ in case only are the same.
Folded(value) == value[1]

\* A scalar: DataJud's value when it has one, a conflict when both have one and they differ.
SelectScalar(ours, official) ==
  IF official = <<"none", 0>> THEN [value |-> ours, conflict |-> FALSE]
  ELSE [value |-> official,
        conflict |-> ours # <<"none", 0>> /\ Folded(ours) # Folded(official)]

\* The subjects, as a whole: DataJud's when it has any.
SelectSubjects(ours, official) ==
  LET named(s)    == {s[i] : i \in DOMAIN s} \ {"none"}
      distinct(s) == KeepAt(s, {i \in FirstPositions(s) : s[i] # "none"})
  IN IF named(official) = {} THEN [value |-> distinct(ours), conflict |-> FALSE]
     ELSE [value |-> distinct(official), conflict |-> named(ours) \notin {{}, named(official)}]

\* The fields DataJud speaks of; a secret process is left as it is. The warnings are
\* the names of the fields in conflict.
MergeDatajud(process, official) ==
  IF process.secrecy > 0 \/ official.absent
  THEN [process |-> process, warnings |-> {}, applied |-> FALSE]
  ELSE LET scalars  == [f \in DOMAIN official.scalars |-> SelectScalar(process.scalars[f], official.scalars[f])]
           subjects == SelectSubjects(process.subjects, official.subjects)
       IN [process  |-> [process EXCEPT !.scalars = [f \in DOMAIN scalars |-> scalars[f].value],
                                        !.subjects = subjects.value],
           warnings |-> {f \in DOMAIN scalars : scalars[f].conflict}
                        \cup (IF subjects.conflict THEN {"subjects"} ELSE {}),
           applied  |-> TRUE]
=============================================================================
