---------------------------- MODULE WritePromise ----------------------------
(***************************************************************************)
(* What the write path promises a client, without claims, leases,          *)
(* transactions, locks or retries: within the replay horizon of a key its  *)
(* write is performed at most once, an answer tells the truth about it, a  *)
(* repeat is answered with the recorded outcome of the same request, and a *)
(* conditional write changes only the version its client has seen.         *)
(***************************************************************************)
EXTENDS Naturals

CONSTANTS Requests, Keys, Digests, Nobody, NoMatch, Horizon

VARIABLES
    clock,      \* never goes back
    version,    \* row version of the target
    intent,     \* what each request asks for, once it has been sent
    outcome,    \* outcome[k]: the recorded outcome of key k, until it expires
    applied,    \* which requests have performed their write
    answer, source

promiseVars == <<clock, version, intent, outcome, applied, answer, source>>

NoOutcome == [owner |-> Nobody]
Recorded(k) == outcome[k].owner /= Nobody
NoIntent == [key |-> Nobody]
Sent(r) == intent[r].key /= Nobody

PromiseInit ==
    /\ clock = 0
    /\ version = 0
    /\ intent = [r \in Requests |-> NoIntent]
    /\ outcome = [k \in Keys |-> NoOutcome]
    /\ applied = [r \in Requests |-> FALSE]
    /\ answer = [r \in Requests |-> "none"]
    /\ source = [r \in Requests |-> Nobody]

TimePasses ==
    /\ clock' = clock + 1
    /\ UNCHANGED <<version, intent, outcome, applied, answer, source>>

Send(r) ==
    /\ ~Sent(r)
    /\ \E k \in Keys, d \in Digests, m \in (0 .. version) \cup {NoMatch} :
          intent' = [intent EXCEPT ![r] =
              [key |-> k, digest |-> d, ifMatch |-> m, now |-> clock]]
    /\ UNCHANGED <<clock, version, outcome, applied, answer, source>>

\* A refusal comes from a request that has written nothing, and never will;
\* only "error" leaves it open whether the write was performed.
Reply(r, a, s) ==
    /\ answer[r] = "none"
    /\ answer' = [answer EXCEPT ![r] = a]
    /\ source' = [source EXCEPT ![r] = s]

\* The write, its recorded outcome and the new version appear at once.
Perform(r) ==
    /\ Sent(r) /\ ~applied[r] /\ answer[r] = "none"
    /\ ~Recorded(intent[r].key)
    /\ intent[r].ifMatch \in {version, NoMatch}
    /\ outcome' = [outcome EXCEPT ![intent[r].key] =
           [owner |-> r, digest |-> intent[r].digest,
            until |-> intent[r].now + Horizon]]
    /\ version' = version + 1
    /\ applied' = [applied EXCEPT ![r] = TRUE]
    /\ \/ Reply(r, "accepted", r)
       \/ UNCHANGED <<answer, source>>
    /\ UNCHANGED <<clock, intent>>

Replay(r) ==
    /\ Sent(r) /\ ~applied[r]
    /\ Recorded(intent[r].key)
    /\ outcome[intent[r].key].digest = intent[r].digest
    /\ Reply(r, "replayed", outcome[intent[r].key].owner)
    /\ UNCHANGED <<clock, version, intent, outcome, applied>>

Refuse(r) ==
    /\ Sent(r)
    /\ \E a \in {"conflict", "inProgress", "precondition", "rejected", "retryable", "error"} :
          /\ a /= "error" => ~applied[r]
          /\ Reply(r, a, Nobody)
    /\ UNCHANGED <<clock, version, intent, outcome, applied>>

ForgetOutcome(k) ==
    /\ Recorded(k) /\ outcome[k].until <= clock
    /\ outcome' = [outcome EXCEPT ![k] = NoOutcome]
    /\ UNCHANGED <<clock, version, intent, applied, answer, source>>

PromiseNext ==
    \/ TimePasses
    \/ \E r \in Requests : Send(r) \/ Perform(r) \/ Replay(r) \/ Refuse(r)
    \/ \E k \in Keys : ForgetOutcome(k)

PromiseSpec == PromiseInit /\ [][PromiseNext]_promiseVars
=============================================================================
