-------------------------- MODULE IdempotentWrite --------------------------
(***************************************************************************)
(* The shared write path of every contracted mutation:                     *)
(*   apps/api/src/infrastructure/write/write-executor.ts  (execute)        *)
(*   apps/api/src/infrastructure/write/idempotency.ts     (the store)      *)
(*                                                                         *)
(* A request is one execution of WriteExecutor.execute.  A client that     *)
(* retries sends another request with the same key.  Each statement that   *)
(* touches the database is one step, so requests interleave between the    *)
(* insert of the claim, the look-up, the removal of a stale row, the       *)
(* attempts of the business transaction and the release of the claim.      *)
(*                                                                         *)
(* The id of an idempotency row is the request that inserted it: a request *)
(* inserts at most one row.  The business write is an update of one target *)
(* row guarded by If-Match: `version` is its row version and `targetLock`  *)
(* the FOR UPDATE lock its transaction holds; a request whose operation    *)
(* declares no precondition target carries ifMatch = NoMatch.              *)
(***************************************************************************)
EXTENDS Naturals, FiniteSets

CONSTANTS
    Requests,               \* executions of WriteExecutor.execute
    Keys,                   \* (actor, operation, Idempotency-Key) triples
    ConditionalKeys,        \* those whose operation has a preconditionTarget
    Digests,                \* request digests (operation, path, body)
    Nobody,                 \* no request: an absent row owner, a free lock
    NoMatch,                \* the operation has no precondition target
    Horizon,                \* IDEMPOTENCY_REPLAY_HORIZON_MS, in clock ticks
    Lease,                  \* IDEMPOTENCY_IN_PROGRESS_LEASE_MS, in clock ticks
    MaxClaimRounds,         \* MAX_CLAIM_ROUNDS
    MaxTransactionAttempts, \* MAX_TRANSACTION_ATTEMPTS
    MaxClock                \* bound of the model: the clock stops here

ASSUME NobodyAssumption == Nobody \notin Requests
ASSUME NoMatchAssumption == NoMatch \notin Nat
ASSUME KeysAssumption == ConditionalKeys \subseteq Keys /\ Nobody \notin Keys
ASSUME TimesAssumption ==
    /\ Horizon \in Nat /\ Lease \in Nat /\ MaxClock \in Nat
    /\ Lease <= Horizon
ASSUME BoundsAssumption ==
    /\ MaxClaimRounds \in Nat \ {0}
    /\ MaxTransactionAttempts \in Nat \ {0}

VARIABLES
    clock,      \* CLOCK
    rows,       \* rows[k]: the committed IdempotencyRecord of key k
    rowLock,    \* rowLock[k]: the transaction that updated the row of k
    version,    \* committed rowVersion of the precondition target
    targetLock, \* the transaction holding the target row
    pc,         \* pc[r]: where execute(r) is
    intent,     \* intent[r]: key, digest, If-Match, and the instant sampled
                \* before the claim
    round,      \* claim rounds begun
    attempt,    \* transaction attempts begun
    found,      \* found[r]: the row findUnique returned
    failure,    \* failure[r]: the error release() is to be followed by
    answer,     \* answer[r]: the response sent
    source,     \* source[r]: whose write the response describes
    applied     \* history: version, instant of each committed business write

storeVars   == <<rows, rowLock>>
targetVars  == <<version, targetLock>>
replyVars   == <<answer, source>>
vars == <<clock, rows, rowLock, version, targetLock, pc, intent, round,
          attempt, found, failure, answer, source, applied>>

-----------------------------------------------------------------------------
Times == 0 .. MaxClock

\* The refusals execute() can end with.  "error" is any other exception: its
\* sender cannot tell whether the transaction committed.
Refusals == {"conflict", "inProgress", "precondition", "rejected",
             "retryable", "error"}

NoRow == [owner |-> Nobody]
Row == [owner : Requests, digest : Digests, state : {"IN_PROGRESS", "COMPLETED"},
        createdAt : Nat, expiresAt : Nat]
IsRow(x) == x.owner /= Nobody

NoIntent == [key |-> Nobody]
Intents == [key : Keys, digest : Digests, ifMatch : Nat \cup {NoMatch}, now : Nat]
NotApplied == [done |-> FALSE]
Applied == [done : {TRUE}, from : Nat, at : Nat]

Locations == {"idle", "insert", "find", "dropExpired", "dropAbandoned", "prepare",
              "attempt", "complete", "commit", "release", "answered", "crashed"}
Running(r) == pc[r] \notin {"idle", "answered", "crashed"}
InTransaction(r) == pc[r] \in {"complete", "commit"}

KeyOf(r) == intent[r].key
Now(r) == intent[r].now
OwnRow(r) == rows[KeyOf(r)].owner = r
OwnClaim(r) == OwnRow(r) /\ rows[KeyOf(r)].state = "IN_PROGRESS"

Init ==
    /\ clock = 0
    /\ rows = [k \in Keys |-> NoRow]
    /\ rowLock = [k \in Keys |-> Nobody]
    /\ version = 0
    /\ targetLock = Nobody
    /\ pc = [r \in Requests |-> "idle"]
    /\ intent = [r \in Requests |-> NoIntent]
    /\ round = [r \in Requests |-> 0]
    /\ attempt = [r \in Requests |-> 0]
    /\ found = [r \in Requests |-> NoRow]
    /\ failure = [r \in Requests |-> "none"]
    /\ answer = [r \in Requests |-> "none"]
    /\ source = [r \in Requests |-> Nobody]
    /\ applied = [r \in Requests |-> NotApplied]

-----------------------------------------------------------------------------
(* A conditional write names a version of the target its client has seen.  *)
Sendable == {i \in [key : Keys, digest : Digests, now : {clock},
                    ifMatch : (0 .. version) \cup {NoMatch}] : i.ifMatch = NoMatch <=> i.key \notin ConditionalKeys}

(* execute(r) returns or throws: its local variables are gone.             *)
Forget(r) ==
    /\ round' = [round EXCEPT ![r] = 0]
    /\ attempt' = [attempt EXCEPT ![r] = 0]
    /\ found' = [found EXCEPT ![r] = NoRow]
    /\ failure' = [failure EXCEPT ![r] = "none"]

Answer(r, a, s) ==
    /\ pc' = [pc EXCEPT ![r] = "answered"]
    /\ answer' = [answer EXCEPT ![r] = a]
    /\ source' = [source EXCEPT ![r] = s]
    /\ Forget(r)

(* The request arrives; its instant is sampled before the claim.           *)
Receive(r, i) ==
    /\ pc[r] = "idle"
    /\ intent' = [intent EXCEPT ![r] = i]
    /\ round' = [round EXCEPT ![r] = 1]
    /\ pc' = [pc EXCEPT ![r] = "insert"]
    /\ UNCHANGED <<clock, storeVars, targetVars, attempt, found, failure, replyVars, applied>>

(* create(): a row that a transaction is updating makes the insert wait;   *)
(* an existing row is a unique violation.                                  *)
InsertClaim(r) ==
    LET k == KeyOf(r) IN
    /\ pc[r] = "insert" /\ round[r] <= MaxClaimRounds
    /\ rowLock[k] = Nobody
    /\ \/ /\ ~IsRow(rows[k])
          /\ rows' = [rows EXCEPT ![k] =
                 [owner |-> r, digest |-> intent[r].digest, state |-> "IN_PROGRESS",
                  createdAt |-> Now(r), expiresAt |-> Now(r) + Horizon]]
          /\ pc' = [pc EXCEPT ![r] = "prepare"]
       \/ /\ IsRow(rows[k])
          /\ pc' = [pc EXCEPT ![r] = "find"]
          /\ UNCHANGED rows
    /\ UNCHANGED <<clock, rowLock, targetVars, intent, round, attempt, found,
                   failure, replyVars, applied>>

(* The next round of the claim's loop, and the end of the loop.            *)
NextRound(r) ==
    /\ round' = [round EXCEPT ![r] = @ + 1]
    /\ pc' = [pc EXCEPT ![r] = "insert"]
    /\ found' = [found EXCEPT ![r] = NoRow]
    /\ UNCHANGED <<attempt, failure, replyVars>>

RoundsExhausted(r) ==
    /\ pc[r] = "insert" /\ round[r] > MaxClaimRounds
    /\ Answer(r, "inProgress", Nobody)
    /\ UNCHANGED <<clock, storeVars, targetVars, intent, applied>>

Abandoned(row, instant) == row.createdAt + Lease <= instant
Expired(row, instant) == row.expiresAt <= instant

(* The loop keeps the row it read and goes on to remove it.                *)
Remove(r, row, location) ==
    /\ found' = [found EXCEPT ![r] = row]
    /\ pc' = [pc EXCEPT ![r] = location]
    /\ UNCHANGED <<round, attempt, failure, replyVars>>

\* Fault: the digest of the stored request is not compared.
FindIgnoringDigest(r) ==
    LET row == rows[KeyOf(r)] IN
    /\ pc[r] = "find"
    /\ \/ ~IsRow(row) /\ NextRound(r)
       \/ IsRow(row) /\ Expired(row, Now(r)) /\ Remove(r, row, "dropExpired")
       \/ /\ IsRow(row) /\ ~Expired(row, Now(r)) /\ row.state = "IN_PROGRESS"
          /\ Answer(r, "inProgress", Nobody)
       \/ /\ IsRow(row) /\ ~Expired(row, Now(r)) /\ row.state = "COMPLETED"
          /\ Answer(r, "replayed", row.owner)
    /\ UNCHANGED <<clock, storeVars, targetVars, intent, applied>>

(* findUnique(): a consistent read, so it sees committed rows only.        *)
FindExisting(r) ==
    LET row == rows[KeyOf(r)] IN
    /\ pc[r] = "find"
    /\ \/ /\ ~IsRow(row)
          /\ NextRound(r)
       \/ /\ IsRow(row) /\ Expired(row, Now(r))
          /\ Remove(r, row, "dropExpired")
       \/ /\ IsRow(row) /\ ~Expired(row, Now(r))
          /\ \/ /\ row.digest /= intent[r].digest
                /\ Answer(r, "conflict", Nobody)
             \/ /\ row.digest = intent[r].digest
                /\ row.state = "IN_PROGRESS"
                /\ \/ Abandoned(row, Now(r)) /\ Remove(r, row, "dropAbandoned")
                   \/ ~Abandoned(row, Now(r)) /\ Answer(r, "inProgress", Nobody)
             \/ /\ row.digest = intent[r].digest
                /\ row.state = "COMPLETED"
                /\ Answer(r, "replayed", row.owner)
    /\ UNCHANGED <<clock, storeVars, targetVars, intent, applied>>

(* deleteMany{id, expiresAt <= now}: waits for the row's lock, then tests   *)
(* the row as committed.                                                   *)
DropExpired(r) ==
    LET k == KeyOf(r) IN
    /\ pc[r] = "dropExpired"
    /\ rowLock[k] = Nobody
    /\ rows' = IF rows[k].owner = found[r].owner /\ Expired(rows[k], Now(r))
               THEN [rows EXCEPT ![k] = NoRow] ELSE rows
    /\ NextRound(r)
    /\ UNCHANGED <<clock, rowLock, targetVars, intent, applied>>

\* Fault: deletes the row it found, completed meanwhile or not.
DropAbandonedInAnyState(r) ==
    LET k == KeyOf(r) IN
    /\ pc[r] = "dropAbandoned"
    /\ rowLock[k] = Nobody
    /\ rows' = IF rows[k].owner = found[r].owner THEN [rows EXCEPT ![k] = NoRow] ELSE rows
    /\ NextRound(r)
    /\ UNCHANGED <<clock, rowLock, targetVars, intent, applied>>

(* deleteMany{id, state IN_PROGRESS, createdAt}                            *)
DropAbandoned(r) ==
    LET k == KeyOf(r) IN
    /\ pc[r] = "dropAbandoned"
    /\ rowLock[k] = Nobody
    /\ rows' = IF /\ rows[k].owner = found[r].owner
                  /\ rows[k].state = "IN_PROGRESS"
                  /\ rows[k].createdAt = found[r].createdAt
               THEN [rows EXCEPT ![k] = NoRow] ELSE rows
    /\ NextRound(r)
    /\ UNCHANGED <<clock, rowLock, targetVars, intent, applied>>

-----------------------------------------------------------------------------
(* Options.prepare: work outside the transaction; its failure releases.    *)
Prepare(r) ==
    /\ pc[r] = "prepare"
    /\ \/ /\ pc' = [pc EXCEPT ![r] = "attempt"]
          /\ attempt' = [attempt EXCEPT ![r] = 1]
          /\ UNCHANGED failure
       \/ /\ pc' = [pc EXCEPT ![r] = "release"]
          /\ failure' = [failure EXCEPT ![r] = "rejected"]
          /\ UNCHANGED attempt
    /\ UNCHANGED <<clock, storeVars, targetVars, intent, round, found, replyVars, applied>>

\* Fault: a rolled-back transaction keeps the target row locked.
UnlockRowOnly(r) ==
    /\ UNCHANGED targetLock
    /\ rowLock' = [k \in Keys |-> IF rowLock[k] = r THEN Nobody ELSE rowLock[k]]

Unlock(r) ==
    /\ targetLock' = IF targetLock = r THEN Nobody ELSE targetLock
    /\ rowLock' = [k \in Keys |-> IF rowLock[k] = r THEN Nobody ELSE rowLock[k]]

(* The transaction rolls back and the request goes on to release its claim.*)
Abort(r, f) ==
    /\ Unlock(r)
    /\ pc' = [pc EXCEPT ![r] = "release"]
    /\ failure' = [failure EXCEPT ![r] = f]

\* Fault: If-Match is compared without holding the target's lock.
WorkWithoutLock(r) ==
    /\ pc[r] = "attempt"
    /\ \/ /\ intent[r].ifMatch \in {version, NoMatch}
          /\ pc' = [pc EXCEPT ![r] = "complete"]
          /\ UNCHANGED <<targetLock, rowLock, failure>>
       \/ /\ intent[r].ifMatch \notin {version, NoMatch}
          /\ Abort(r, "precondition")
    /\ UNCHANGED <<clock, rows, version, intent, round, attempt, found, replyVars, applied>>

(* work(): locks the target, checks If-Match against the locked row, and   *)
(* applies the business rules.                                             *)
Work(r) ==
    /\ pc[r] = "attempt"
    /\ targetLock = Nobody
    /\ \/ /\ intent[r].ifMatch \in {version, NoMatch}
          /\ targetLock' = r
          /\ pc' = [pc EXCEPT ![r] = "complete"]
          /\ UNCHANGED <<rowLock, failure>>
       \/ /\ intent[r].ifMatch \notin {version, NoMatch}
          /\ Abort(r, "precondition")
       \/ Abort(r, "rejected")
    /\ UNCHANGED <<clock, rows, version, intent, round, attempt, found, replyVars, applied>>

(* complete(): updateMany{id, IN_PROGRESS} inside the transaction; a claim *)
(* that vanished aborts it.                                                *)
Complete(r) ==
    LET k == KeyOf(r) IN
    /\ pc[r] = "complete"
    /\ \/ /\ OwnClaim(r)
          /\ rowLock' = [rowLock EXCEPT ![k] = r]
          /\ pc' = [pc EXCEPT ![r] = "commit"]
          /\ UNCHANGED <<targetLock, failure>>
       \/ /\ ~OwnClaim(r)
          /\ Abort(r, "inProgress")
    /\ UNCHANGED <<clock, rows, version, intent, round, attempt, found, replyVars, applied>>

(* The database commits the business write and the row's completion at    *)
(* once.  The acknowledgement may be lost: then execute() sees an error    *)
(* and goes on to release the claim.                                       *)
Commit(r) ==
    LET k == KeyOf(r) IN
    /\ pc[r] = "commit"
    /\ rows' = [rows EXCEPT ![k].state = "COMPLETED"]
    /\ version' = version + 1
    /\ applied' = [applied EXCEPT ![r] = [done |-> TRUE, from |-> version, at |-> clock]]
    /\ Unlock(r)
    /\ \/ Answer(r, "accepted", r)
       \/ /\ pc' = [pc EXCEPT ![r] = "release"]
          /\ failure' = [failure EXCEPT ![r] = "error"]
          /\ UNCHANGED <<round, attempt, found, replyVars>>
    /\ UNCHANGED <<clock, intent>>

(* The transaction fails in the database: a deadlock, a lock-wait timeout  *)
(* or a write conflict is retried, anything else ends the request.         *)
TransactionFails(r) ==
    /\ pc[r] \in {"attempt", "complete", "commit"}
    /\ \/ /\ attempt[r] < MaxTransactionAttempts
          /\ Unlock(r)
          /\ attempt' = [attempt EXCEPT ![r] = @ + 1]
          /\ pc' = [pc EXCEPT ![r] = "attempt"]
          /\ UNCHANGED failure
       \/ /\ attempt[r] = MaxTransactionAttempts
          /\ Abort(r, "retryable")
          /\ UNCHANGED attempt
       \/ /\ Abort(r, "error")
          /\ UNCHANGED attempt
    /\ UNCHANGED <<clock, rows, version, intent, round, found, replyVars, applied>>

\* Fault: the claim is deleted whatever its state.
ReleaseInAnyState(r) ==
    /\ pc[r] = "release"
    /\ rows' = IF OwnRow(r) THEN [rows EXCEPT ![KeyOf(r)] = NoRow] ELSE rows
    /\ Answer(r, failure[r], Nobody)
    /\ UNCHANGED <<clock, rowLock, targetVars, intent, applied>>

(* release(): deleteMany{id, state IN_PROGRESS}; a failing delete is only  *)
(* logged, and the claim is left to its lease.                             *)
Release(r) ==
    /\ pc[r] = "release"
    /\ \/ rows' = IF OwnClaim(r) THEN [rows EXCEPT ![KeyOf(r)] = NoRow] ELSE rows
       \/ UNCHANGED rows
    /\ Answer(r, failure[r], Nobody)
    /\ UNCHANGED <<clock, rowLock, targetVars, intent, applied>>

(* The process dies: its transaction rolls back, its claim stays.          *)
Crash(r) ==
    /\ Running(r)
    /\ Unlock(r)
    /\ Forget(r)
    /\ pc' = [pc EXCEPT ![r] = "crashed"]
    /\ UNCHANGED <<clock, rows, version, intent, replyVars, applied>>

Tick ==
    /\ clock < MaxClock
    /\ clock' = clock + 1
    /\ UNCHANGED <<storeVars, targetVars, pc, intent, round, attempt, found,
                   failure, replyVars, applied>>

-----------------------------------------------------------------------------
Step(r) ==
    \/ InsertClaim(r) \/ FindExisting(r) \/ DropExpired(r) \/ DropAbandoned(r)
    \/ RoundsExhausted(r) \/ Prepare(r) \/ Work(r) \/ Complete(r) \/ Commit(r) \/ Release(r)

Next ==
    \/ Tick
    \/ \E r \in Requests :
          \/ \E i \in Sendable : Receive(r, i)
          \/ Step(r)
          \/ TransactionFails(r)
          \/ Crash(r)

Spec == Init /\ [][Next]_vars

(* The event loop keeps running every request and the database answers     *)
(* every statement; arrivals, failures, crashes and the clock owe nothing. *)
FairSpec == Spec /\ \A r \in Requests : WF_vars(Step(r))

-----------------------------------------------------------------------------
TypeOK ==
    /\ clock \in Nat
    /\ rows \in [Keys -> Row \cup {NoRow}]
    /\ rowLock \in [Keys -> Requests \cup {Nobody}]
    /\ version \in Nat
    /\ targetLock \in Requests \cup {Nobody}
    /\ pc \in [Requests -> Locations]
    /\ intent \in [Requests -> Intents \cup {NoIntent}]
    /\ round \in [Requests -> Nat]
    /\ attempt \in [Requests -> 0 .. MaxTransactionAttempts]
    /\ found \in [Requests -> Row \cup {NoRow}]
    /\ failure \in [Requests -> Refusals \cup {"none"}]
    /\ answer \in [Requests -> Refusals \cup {"none", "accepted", "replayed"}]
    /\ source \in [Requests -> Requests \cup {Nobody}]
    /\ applied \in [Requests -> Applied \cup {NotApplied}]

(* A key performs its write at most once per replay horizon: of two        *)
(* committed writes of one key, one was committed only after the horizon   *)
(* of the other had passed -- whatever was retried, taken over, crashed or *)
(* reported as failed in between.                                          *)
OneWritePerHorizon ==
    \A r, s \in Requests :
        (r /= s /\ applied[r].done /\ applied[s].done /\ KeyOf(r) = KeyOf(s))
            => \/ applied[r].at >= Now(s) + Horizon
               \/ applied[s].at >= Now(r) + Horizon

(* "A failed request is never stored as a replayable success": a COMPLETED *)
(* row belongs to a committed write, and a refusal other than an unknown   *)
(* outcome is sent only for a request that wrote nothing.                  *)
StoredSuccessIsReal ==
    /\ \A k \in Keys : (IsRow(rows[k]) /\ rows[k].state = "COMPLETED")
           => applied[rows[k].owner].done /\ KeyOf(rows[k].owner) = k
    /\ \A r \in Requests :
           /\ answer[r] \in Refusals \ {"error"} => ~applied[r].done
           /\ answer[r] = "accepted" => applied[r].done

(* A replay answers with a write that was committed under the same key for *)
(* the same digest, and the replaying request itself wrote nothing.        *)
ReplayIsFaithful ==
    \A r \in Requests : answer[r] = "replayed" =>
        /\ ~applied[r].done
        /\ source[r] \in Requests
        /\ applied[source[r]].done
        /\ KeyOf(source[r]) = KeyOf(r)
        /\ intent[source[r]].digest = intent[r].digest

(* If-Match prevents lost updates: every committed write with a            *)
(* precondition changed exactly the version its client had seen, and no    *)
(* version was the base of two writes.                                     *)
NoLostUpdate ==
    /\ \A r \in Requests : applied[r].done =>
           /\ applied[r].from < version
           /\ intent[r].ifMatch \in {applied[r].from, NoMatch}
    /\ \A r, s \in Requests :
           (r /= s /\ applied[r].done /\ applied[s].done)
               => applied[r].from /= applied[s].from

(* What any step may do to a stored row: nothing removes or changes a      *)
(* completed row before its horizon, and a claim that its own request did  *)
(* not release or complete falls only to the lease.                        *)
RowsAreKept ==
    [][\A k \in Keys : IsRow(rows[k]) /\ rows'[k] /= rows[k] =>
           \/ clock >= rows[k].expiresAt
           \/ /\ rows[k].state = "IN_PROGRESS"
              /\ \/ clock >= rows[k].createdAt + Lease
                 \/ pc[rows[k].owner] \in {"commit", "release"}]_vars

(* Every request is answered unless its process dies: no claim, row lock   *)
(* or target lock left behind by another request holds it up for ever.     *)
EveryRequestEnds ==
    \A r \in Requests : Running(r) ~> ~Running(r)

-----------------------------------------------------------------------------
(* The store implements WritePromise: the outcome recorded for a key is    *)
(* its COMPLETED row, and an IN_PROGRESS row is nothing a client can see.  *)
OutcomeOf(row) ==
    IF IsRow(row) /\ row.state = "COMPLETED"
    THEN [owner |-> row.owner, digest |-> row.digest, until |-> row.expiresAt]
    ELSE NoRow

Promise == INSTANCE WritePromise
    WITH outcome <- [k \in Keys |-> OutcomeOf(rows[k])],
         applied <- [r \in Requests |-> applied[r].done]

(* execute() and the store keep the promise, step by step.                 *)
KeepsPromise == Promise!PromiseSpec
=============================================================================
