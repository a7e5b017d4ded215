------------------------- MODULE MCIdempotentWrite -------------------------
(* An instance of IdempotentWrite for TLC.  Its requests are not           *)
(* interchangeable: the run checks liveness.                               *)
EXTENDS IdempotentWrite

CONSTANTS
    Gone,       \* a request whose process dies before any other is sent,
    GoneDigest  \* and the digest of its body: digests are interchangeable

(* Gone comes first and dies before it prepares anything: before its claim *)
(* is inserted or after, when the claim is left for the others to find.    *)
(* With it two live requests can lose every round of a claim.              *)
GoneFirst ==
    pc[Gone] /= "crashed" =>
        /\ clock' = clock
        /\ \A r \in Requests \ {Gone} : pc'[r] = "idle"
        /\ pc'[Gone] \in {"insert", "prepare", "crashed"}
        /\ intent'[Gone].key \in ConditionalKeys
        /\ intent'[Gone].digest = GoneDigest
=============================================================================
