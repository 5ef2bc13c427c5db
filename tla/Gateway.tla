------------------------------ MODULE Gateway ------------------------------
(* What passes the borders of the system: provider connections through the egress
   proxy (egress_proxy.py) and request bodies into the service (http_limits.py).

   An address is [id, global]. A target is [host, port, form]; resolving a name may
   give other answers each time. A body is a sequence of chunk lengths. *)
EXTENDS Lists

-----------------------------------------------------------------------------
(* The proxy. *)

\* A target the proxy understands: one name, no address, the TLS port.
TargetIsValid(target) == target.form = "name" /\ target.port = 443

\* Every address of the answer must be global, not only the one that is used.
AnswerIsPublic(answer) == \A i \in DOMAIN answer : answer[i].global

Rejected(status) == [status |-> status, to |-> {}]

\* The first address that can be reached.
FirstReachable(answer, up) ==
  LET reached == {i \in DOMAIN answer : answer[i].id \in up}
  IN IF reached = {} THEN Rejected(502)
     ELSE [status |-> 200, to |-> {answer[CHOOSE i \in reached : \A j \in reached : i <= j]}]

\* Resolve once, refuse any answer with an address that is not global, and connect to
\* the addresses that were checked.
OpenPublicConnection(resolutions, up) ==
  CASE resolutions[1] = <<>> -> Rejected(502)
    [] resolutions[1] # <<>> /\ ~AnswerIsPublic(resolutions[1]) -> Rejected(403)
    [] OTHER -> FirstReachable(resolutions[1], up)

\* One client of the proxy.
HandleClient(request, allowed, resolutions, up) ==
  CASE ~request.readable -> Rejected(400)
    [] request.readable /\ request.method # "CONNECT" -> Rejected(405)
    [] request.readable /\ request.method = "CONNECT" /\ ~TargetIsValid(request.target) -> Rejected(400)
    [] request.readable /\ request.method = "CONNECT" /\ TargetIsValid(request.target)
         /\ request.target.host \notin allowed -> Rejected(403)
    [] OTHER -> OpenPublicConnection(resolutions, up)

-----------------------------------------------------------------------------
(* The limit of request bodies. *)

\* Mutant: the chunk that passes the limit is handed on before it is refused.
ReceiveThenCount(chunks, limit) ==
  LET received == RunningTotals(chunks)
      over     == {i \in 1..Len(chunks) : received[i] > limit}
  IN IF over = {} THEN [whole |-> TRUE, taken |-> received[Len(chunks)]]
     ELSE [whole |-> FALSE, taken |-> received[CHOOSE i \in over : \A j \in over : i <= j]]

\* The chunks are counted as they come; the one that passes the limit is not handed on.
ReceiveLimited(chunks, limit) ==
  LET received == RunningTotals(chunks)
      over     == {i \in 1..Len(chunks) : received[i] > limit}
  IN IF over = {} THEN [whole |-> TRUE, taken |-> received[Len(chunks)]]
     ELSE [whole |-> FALSE, taken |-> received[(CHOOSE i \in over : \A j \in over : i <= j) - 1]]

NotTaken(status) == [status |-> status, taken |-> 0]

\* A request [method, lengths, transfer, chunks], lengths the Content-Length headers it
\* has, each "within" or "over" the limit, or "bad".
LimitBody(request, limit) ==
  LET ambiguous == Len(request.lengths) > 1 \/ (Len(request.lengths) > 0 /\ request.transfer)
      declared  == Len(request.lengths) = 1
      received  == ReceiveLimited(request.chunks, limit)
  IN CASE ambiguous -> NotTaken(400)
       [] ~ambiguous /\ declared /\ request.lengths[1] = "bad" -> NotTaken(400)
       [] ~ambiguous /\ request.method # "POST" ->
            [status |-> 200, taken |-> SumOf(request.chunks)]
       [] ~ambiguous /\ request.method = "POST" /\ declared /\ request.lengths[1] = "over" -> NotTaken(413)
       [] OTHER -> [status |-> IF received.whole THEN 200 ELSE 413, taken |-> received.taken]
=============================================================================
