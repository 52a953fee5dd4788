----------------------------- MODULE MCTransfer -----------------------------
(***************************************************************************)
(* Transfer, explored until one of the events happens that its properties  *)
(* except; nodes, and chunks, are alike, and so are uploads.               *)
(***************************************************************************)
EXTENDS Transfer, TLC

Symmetry ==
    Permutations(Node) \cup Permutations(Chunk) \cup Permutations(Upload)

NothingExcepted == ~stale /\ ~lost
=============================================================================
