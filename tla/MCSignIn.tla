------------------------------ MODULE MCSignIn ------------------------------
(* RequestPipeline for TLC: the logins, the requests and the commands are  *)
(* each interchangeable.                                                   *)
EXTENDS RequestPipeline, TLC

Interchangeable ==
    Permutations(Logins) \cup Permutations(Requests) \cup Permutations(Commands)
=============================================================================
