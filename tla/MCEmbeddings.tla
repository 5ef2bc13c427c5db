---------------------------- MODULE MCEmbeddings ----------------------------
(* The vectors of a version on their own, with two movements as near as each other. *)
EXTENDS Embeddings

Near == [i \in Steps |-> i % 2]
=============================================================================
