--------------------------- MODULE MCCandidateChain ---------------------------
(* Requests are interchangeable. *)
EXTENDS CandidateChain, TLC

RequestSymmetry == Permutations(Requests)
=============================================================================
