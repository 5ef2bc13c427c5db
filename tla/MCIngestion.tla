---------------------------- MODULE MCIngestion ----------------------------
(* Small instances of Ingestion for TLC. *)
EXTENDS Ingestion, TLC

CONSTANTS r1, r2, s1, s2, a, b, c1, c2, c3

\* Handlers and callback transactions are interchangeable.
Interchangeable == Permutations(Runs) \cup Permutations(Hooks)

\* A callback of response s for request r.
Callback(c, s, r, fromCache, d) ==
    [cb |-> c, src |-> s, req |-> r, cached |-> fromCache, data |-> d]

\* One request with one response, sent twice with different data and flag.
CopiesLawsuits    == {Callback(c1, s1, r1, FALSE, a), Callback(c2, s1, r1, TRUE, b)}
CopiesCompletions == {[cb |-> c3, req |-> r1]}

\* The response is sent once.
OnceLawsuits == {Callback(c1, s1, r1, FALSE, a)}

\* All but one callback id may be forgotten.
CopiesForgotten == {c1, c3, r1, <<r1, NoSource>>}

\* Two requests for the same process, one answered from the cache, with the same
\* content before enrichment.
RivalsLawsuits    == {Callback(c1, s1, r1, FALSE, a), Callback(c2, s2, r2, TRUE, a)}
RivalsCompletions == {[cb |-> NoCallback, req |-> r1], [cb |-> c3, req |-> r2]}
=============================================================================
