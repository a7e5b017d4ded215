---------------------------- MODULE MCWebClient ----------------------------
(* Instances of WebClient small enough for TLC. *)
EXTENDS WebClient, TLC

Alike == Permutations(Users)
=============================================================================
