--------------------------- MODULE MCLoginThrottle ---------------------------
(* An instance of LoginThrottle small enough for TLC. *)
EXTENDS LoginThrottle, TLC

\* Sign-ins differ in nothing but the ticket they hold, accounts in nothing but
\* what has happened to them.
SignInSymmetry == Permutations(Attempts) \union Permutations(Accounts)
==============================================================================
