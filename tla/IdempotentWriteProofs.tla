----------------------- MODULE IdempotentWriteProofs -----------------------
(***************************************************************************)
(* Proofs about IdempotentWrite for any requests, keys, digests, bounds    *)
(* and times; and, in the second part, about the web client that sends     *)
(* such writes (WebClient), for any tabs, users, sessions and changes.     *)
(***************************************************************************)
EXTENDS IdempotentWrite, WebClient, Integers, Sequences, TLAPS

USE NobodyAssumption, NoMatchAssumption, KeysAssumption, TimesAssumption, BoundsAssumption

-----------------------------------------------------------------------------
(* The inductive invariant: what relates the rows of the store to the      *)
(* requests that inserted them.                                            *)
BeforeCommit == {"idle", "insert", "find", "dropExpired", "dropAbandoned",
                 "prepare", "attempt", "complete", "commit"}
Claimed == {"prepare", "attempt", "complete", "commit", "release", "answered", "crashed"}

\* A row records the intent of the request that inserted it; it is COMPLETED
\* exactly when that request has performed its write.
RecordsIntent(k) ==
    LET o == rows[k].owner IN
    /\ intent[o] \in Intents /\ KeyOf(o) = k
    /\ rows[k].digest = intent[o].digest
    /\ rows[k].createdAt = Now(o) /\ rows[k].expiresAt = Now(o) + Horizon
    /\ pc[o] \in Claimed
    /\ rows[k].state = "COMPLETED" <=> applied[o].done
RowsRecordIntents == \A k \in Keys : IsRow(rows[k]) => RecordsIntent(k)

\* How far a request has come: a write is performed by its commit only, a
\* response is sent at the end only, and instants are never in the future.
Progress ==
    \A r \in Requests :
        /\ pc[r] = "idle" => intent[r] = NoIntent
        /\ pc[r] /= "idle" => intent[r] \in Intents /\ Now(r) <= clock
        /\ pc[r] \in BeforeCommit => ~applied[r].done
        /\ pc[r] /= "answered" => answer[r] = "none"
        /\ pc[r] = "release" => /\ failure[r] \in Refusals
                                /\ failure[r] /= "error" => ~applied[r].done
        /\ pc[r] = "dropAbandoned" => found[r].createdAt + Lease <= Now(r)

\* The two locks are held exactly where the code holds them.
LocksHeld ==
    /\ \A r \in Requests :
          /\ InTransaction(r) <=> targetLock = r
          /\ InTransaction(r) => intent[r].ifMatch \in {version, NoMatch}
          /\ pc[r] = "commit" => OwnClaim(r) /\ rowLock[KeyOf(r)] = r
    /\ \A k \in Keys, r \in Requests :
          rowLock[k] = r => pc[r] = "commit" /\ KeyOf(r) = k

\* The outcome of a performed write stays recorded until its horizon.
OutcomesKept ==
    \A r \in Requests : applied[r].done =>
        \/ OwnRow(r)
        \/ clock >= Now(r) + Horizon

IInv ==
    /\ TypeOK
    /\ RowsRecordIntents
    /\ Progress
    /\ LocksHeld
    /\ OutcomesKept
    /\ OneWritePerHorizon
    /\ StoredSuccessIsReal
    /\ ReplayIsFaithful
    /\ NoLostUpdate

-----------------------------------------------------------------------------
(* Type correctness.                                                       *)

\* A request that has been received has a key.
LEMMA KeyKnown ==
    ASSUME TypeOK, Progress, NEW r \in Requests, pc[r] /= "idle"
    PROVE  intent[r] \in Intents /\ KeyOf(r) \in Keys /\ Now(r) \in Nat
BY DEF Progress, Intents, KeyOf, Now

LEMMA TypeInit == Init => TypeOK
BY DEF Init, TypeOK, Locations

LEMMA TypeForget ==
    ASSUME TypeOK, NEW r \in Requests, Forget(r)
    PROVE  /\ round' \in [Requests -> Nat]
           /\ attempt' \in [Requests -> 0 .. MaxTransactionAttempts]
           /\ found' \in [Requests -> Row \cup {NoRow}]
           /\ failure' \in [Requests -> Refusals \cup {"none"}]
BY DEF TypeOK, Forget

LEMMA TypeAnswer ==
    ASSUME TypeOK, NEW r \in Requests,
           NEW a \in Refusals \cup {"none", "accepted", "replayed"},
           NEW s \in Requests \cup {Nobody}, Answer(r, a, s)
    PROVE  /\ pc' \in [Requests -> Locations]
           /\ answer' \in [Requests -> Refusals \cup {"none", "accepted", "replayed"}]
           /\ source' \in [Requests -> Requests \cup {Nobody}]
           /\ round' \in [Requests -> Nat]
           /\ attempt' \in [Requests -> 0 .. MaxTransactionAttempts]
           /\ found' \in [Requests -> Row \cup {NoRow}]
           /\ failure' \in [Requests -> Refusals \cup {"none"}]
<1>1. Forget(r)
  BY DEF Answer
<1> QED
  BY <1>1, TypeForget DEF TypeOK, Answer, Locations

LEMMA TypeUnlock ==
    ASSUME TypeOK, NEW r \in Requests, Unlock(r)
    PROVE  /\ targetLock' \in Requests \cup {Nobody}
           /\ rowLock' \in [Keys -> Requests \cup {Nobody}]
BY DEF TypeOK, Unlock

LEMMA TypeAbort ==
    ASSUME TypeOK, NEW r \in Requests, NEW f \in Refusals, Abort(r, f)
    PROVE  /\ targetLock' \in Requests \cup {Nobody}
           /\ rowLock' \in [Keys -> Requests \cup {Nobody}]
           /\ pc' \in [Requests -> Locations]
           /\ failure' \in [Requests -> Refusals \cup {"none"}]
<1>1. Unlock(r)
  BY DEF Abort
<1> QED
  BY <1>1, TypeUnlock DEF TypeOK, Abort, Locations

LEMMA TypeNextRound ==
    ASSUME TypeOK, NEW r \in Requests, NextRound(r)
    PROVE  /\ pc' \in [Requests -> Locations]
           /\ answer' \in [Requests -> Refusals \cup {"none", "accepted", "replayed"}]
           /\ source' \in [Requests -> Requests \cup {Nobody}]
           /\ round' \in [Requests -> Nat]
           /\ attempt' \in [Requests -> 0 .. MaxTransactionAttempts]
           /\ found' \in [Requests -> Row \cup {NoRow}]
           /\ failure' \in [Requests -> Refusals \cup {"none"}]
BY DEF TypeOK, NextRound, Locations, replyVars

LEMMA TypeStep == TypeOK /\ Progress /\ LocksHeld /\ [Next]_vars => TypeOK'
<1> SUFFICES ASSUME TypeOK, Progress, LocksHeld, [Next]_vars PROVE TypeOK'
  OBVIOUS
<1>1. CASE UNCHANGED vars
  BY <1>1 DEF TypeOK, vars
<1>2. CASE Tick
  BY <1>2 DEF TypeOK, Tick, storeVars, targetVars, replyVars
<1>3. ASSUME NEW r \in Requests, NEW i \in Sendable, Receive(r, i) PROVE TypeOK'
  <2>1. i \in Intents
    BY DEF Sendable, Intents, TypeOK
  <2> QED
    BY <1>3, <2>1 DEF TypeOK, Receive, Locations, storeVars, targetVars, replyVars
<1>4. ASSUME NEW r \in Requests, InsertClaim(r) PROVE TypeOK'
  <2>1. rows' \in [Keys -> Row \cup {NoRow}]
    <3>1. CASE KeyOf(r) \in Keys
      <4>1. intent[r] \in Intents
        BY <3>1 DEF TypeOK, NoIntent, KeyOf
      <4> QED
        BY <1>4, <4>1 DEF TypeOK, InsertClaim, Row, Intents, Now
    <3>2. CASE KeyOf(r) \notin Keys
      BY <1>4, <3>2 DEF TypeOK, InsertClaim
    <3> QED
      BY <3>1, <3>2
  <2>2. pc' \in [Requests -> Locations]
    BY <1>4 DEF TypeOK, InsertClaim, Locations
  <2> QED
    BY <1>4, <2>1, <2>2 DEF TypeOK, InsertClaim, targetVars, replyVars
<1>5. ASSUME NEW r \in Requests, FindExisting(r) PROVE TypeOK'
  <2> DEFINE row == rows[KeyOf(r)]
  <2>0. row \in Row \cup {NoRow}
    BY <1>5, KeyKnown DEF TypeOK, FindExisting
  <2>1. CASE NextRound(r)
    BY <1>5, <2>1, TypeNextRound DEF TypeOK, FindExisting, storeVars, targetVars
  <2>2. ASSUME NEW l \in {"dropExpired", "dropAbandoned"}, IsRow(row), Remove(r, row, l)
        PROVE TypeOK'
    <3>1. found' \in [Requests -> Row \cup {NoRow}]
      BY <2>0, <2>2 DEF TypeOK, Remove, IsRow, KeyOf
    <3>2. pc' \in [Requests -> Locations]
      BY <2>2 DEF TypeOK, Remove, Locations
    <3> QED
      BY <1>5, <2>2, <3>1, <3>2 DEF TypeOK, FindExisting, Remove, storeVars, targetVars, replyVars
  <2>3. ASSUME NEW a \in {"conflict", "inProgress"}, Answer(r, a, Nobody) PROVE TypeOK'
    BY <1>5, <2>3, TypeAnswer DEF TypeOK, FindExisting, storeVars, targetVars, Refusals
  <2>4. CASE IsRow(row) /\ Answer(r, "replayed", row.owner)
    <3>1. row.owner \in Requests \cup {Nobody}
      BY <2>0, <2>4 DEF Row, IsRow, NoRow
    <3> QED
      BY <1>5, <2>4, <3>1, TypeAnswer DEF TypeOK, FindExisting, storeVars, targetVars
  <2> QED
    BY <1>5, <2>1, <2>2, <2>3, <2>4 DEF FindExisting
<1>6. ASSUME NEW r \in Requests, DropExpired(r) \/ DropAbandoned(r) PROVE TypeOK'
  <2>1. rows' \in [Keys -> Row \cup {NoRow}]
    BY <1>6 DEF TypeOK, DropExpired, DropAbandoned
  <2>2. NextRound(r)
    BY <1>6 DEF DropExpired, DropAbandoned
  <2> QED
    BY <1>6, <2>1, <2>2, TypeNextRound DEF TypeOK, DropExpired, DropAbandoned, targetVars
<1>6a. ASSUME NEW r \in Requests, RoundsExhausted(r) PROVE TypeOK'
  BY <1>6a, TypeAnswer DEF TypeOK, RoundsExhausted, Refusals, storeVars, targetVars
<1>7. ASSUME NEW r \in Requests, Prepare(r) PROVE TypeOK'
  BY <1>7 DEF TypeOK, Prepare, Locations, Refusals, storeVars, targetVars, replyVars
<1>8. ASSUME NEW r \in Requests, Work(r) PROVE TypeOK'
  <2>1. CASE targetLock' = r /\ pc' = [pc EXCEPT ![r] = "complete"] /\ UNCHANGED <<rowLock, failure>>
    BY <1>8, <2>1 DEF TypeOK, Work, Locations, replyVars
  <2>2. ASSUME NEW f \in {"precondition", "rejected"}, Abort(r, f) PROVE TypeOK'
    BY <1>8, <2>2, TypeAbort DEF TypeOK, Work, Refusals, replyVars
  <2> QED
    BY <1>8, <2>1, <2>2 DEF Work
<1>9. ASSUME NEW r \in Requests, Complete(r) PROVE TypeOK'
  <2>1. CASE Abort(r, "inProgress")
    BY <1>9, <2>1, TypeAbort DEF TypeOK, Complete, Refusals, replyVars
  <2>2. CASE ~Abort(r, "inProgress")
    BY <1>9, <2>2 DEF TypeOK, Complete, Locations, replyVars
  <2> QED
    BY <2>1, <2>2
<1>10. ASSUME NEW r \in Requests, Commit(r) PROVE TypeOK'
  <2>1. rows' \in [Keys -> Row \cup {NoRow}]
    <3>1. IsRow(rows[KeyOf(r)])
      BY <1>10 DEF LocksHeld, Commit, OwnClaim, OwnRow, IsRow
    <3>2. KeyOf(r) \in Keys => rows[KeyOf(r)] \in Row
      BY <3>1 DEF TypeOK, IsRow, NoRow
    <3>3. KeyOf(r) \in Keys /\ rows' = [rows EXCEPT ![KeyOf(r)].state = "COMPLETED"]
      BY <1>10, KeyKnown DEF Commit
    <3>4. [rows[KeyOf(r)] EXCEPT !.state = "COMPLETED"] \in Row
      BY <3>2, <3>3 DEF Row
    <3> QED
      BY <3>3, <3>4 DEF TypeOK
  <2>2. /\ targetLock' \in Requests \cup {Nobody}
        /\ rowLock' \in [Keys -> Requests \cup {Nobody}]
    BY <1>10, TypeUnlock DEF Commit
  <2>3. applied' \in [Requests -> Applied \cup {NotApplied}] /\ version' \in Nat
    <3> DEFINE write == [done |-> TRUE, from |-> version, at |-> clock]
    <3>1. write \in Applied /\ version + 1 \in Nat
      BY DEF TypeOK, Applied
    <3>2. applied' = [applied EXCEPT ![r] = write] /\ version' = version + 1
      BY <1>10 DEF Commit
    <3> HIDE DEF write
    <3> QED
      BY <3>1, <3>2 DEF TypeOK
  <2>4. CASE Answer(r, "accepted", r)
    BY <1>10, <2>1, <2>2, <2>3, <2>4, TypeAnswer DEF TypeOK, Commit
  <2>5. CASE ~Answer(r, "accepted", r)
    BY <1>10, <2>1, <2>2, <2>3, <2>5 DEF TypeOK, Commit, Locations, Refusals, replyVars
  <2> QED
    BY <2>4, <2>5
<1>11. ASSUME NEW r \in Requests, TransactionFails(r) PROVE TypeOK'
  <2>1. ASSUME NEW f \in {"retryable", "error"}, Abort(r, f), UNCHANGED attempt PROVE TypeOK'
    BY <1>11, <2>1, TypeAbort DEF TypeOK, TransactionFails, Refusals, replyVars
  <2>2. CASE /\ attempt[r] < MaxTransactionAttempts /\ Unlock(r)
             /\ attempt' = [attempt EXCEPT ![r] = @ + 1]
             /\ pc' = [pc EXCEPT ![r] = "attempt"]
             /\ UNCHANGED failure
    BY <1>11, <2>2, TypeUnlock DEF TypeOK, TransactionFails, Locations, replyVars
  <2> QED
    BY <1>11, <2>1, <2>2 DEF TransactionFails
<1>12. ASSUME NEW r \in Requests, Release(r) PROVE TypeOK'
  <2>1. rows' \in [Keys -> Row \cup {NoRow}]
    BY <1>12 DEF TypeOK, Release
  <2>2. failure[r] \in Refusals \cup {"none", "accepted", "replayed"}
    BY DEF TypeOK
  <2> QED
    BY <1>12, <2>1, <2>2, TypeAnswer DEF TypeOK, Release, targetVars
<1>13. ASSUME NEW r \in Requests, Crash(r) PROVE TypeOK'
  BY <1>13, TypeForget, TypeUnlock DEF TypeOK, Crash, Locations, replyVars
<1> QED
  BY <1>1, <1>2, <1>3, <1>4, <1>5, <1>6, <1>7, <1>8, <1>9, <1>10, <1>11, <1>12, <1>13, <1>6a
     DEF Next, Step

\* The row of a key whose request is untouched still records its intent.
LEMMA RowUntouched ==
    ASSUME IInv, TypeOK', NEW k \in Keys, IsRow(rows'[k]), rows'[k] = rows[k],
           intent'[rows[k].owner] = intent[rows[k].owner],
           applied'[rows[k].owner] = applied[rows[k].owner],
           pc'[rows[k].owner] \in Claimed
    PROVE  RecordsIntent(k)'
BY DEF IInv, RowsRecordIntents, RecordsIntent, IsRow, KeyOf, Now

LEMMA OwnerKnown ==
    ASSUME TypeOK, RowsRecordIntents, NEW k \in Keys, IsRow(rows[k])
    PROVE  /\ rows[k] \in Row /\ rows[k].owner \in Requests
           /\ RecordsIntent(k) /\ pc[rows[k].owner] \in Claimed
BY DEF TypeOK, RowsRecordIntents, RecordsIntent, IsRow, NoRow, Row

LEMMA AppliedKnown ==
    ASSUME TypeOK, Progress, NEW r \in Requests, applied[r].done
    PROVE  KeyOf(r) \in Keys /\ Now(r) \in Nat
<1>1. pc[r] /= "idle"
  BY DEF Progress, BeforeCommit
<1> QED
  BY <1>1, KeyKnown

LEMMA ReceiveKeeps ==
    ASSUME IInv, TypeOK', NEW r \in Requests, NEW i \in Sendable, Receive(r, i)
    PROVE  IInv'
<1> USE DEF IInv
<1>1. RowsRecordIntents'
  <2> SUFFICES ASSUME NEW k \in Keys, IsRow(rows'[k]) PROVE RecordsIntent(k)'
    BY DEF RowsRecordIntents
  <2>1. rows'[k] = rows[k]
    BY DEF TypeOK, IsRow, NoRow, Receive, storeVars, targetVars, replyVars
  <2>2. rows[k].owner \in Requests /\ pc[rows[k].owner] \in Claimed
    BY <2>1, OwnerKnown
  <2>3. /\ intent'[rows[k].owner] = intent[rows[k].owner]
        /\ applied'[rows[k].owner] = applied[rows[k].owner]
        /\ pc'[rows[k].owner] \in Claimed
    BY <2>2 DEF TypeOK, Claimed, Receive, storeVars, targetVars, replyVars
  <2> QED
    BY <2>1, <2>3, RowUntouched
<1>2. Progress'
  <2>1. i \in Intents /\ i.now = clock
    BY DEF Sendable, Intents, TypeOK
  <2> QED
    BY <2>1 DEF TypeOK, Progress, BeforeCommit, Now, Receive, storeVars, targetVars, replyVars
<1>3. LocksHeld'
  BY DEF TypeOK, LocksHeld, Progress, InTransaction, OwnClaim, OwnRow, KeyOf, IsRow, NoRow,
     Receive, storeVars, targetVars, replyVars
<1>4. OutcomesKept'
  BY DEF TypeOK, OutcomesKept, RowsRecordIntents, Progress, LocksHeld, OwnClaim, OwnRow, KeyOf, Now, IsRow, NoRow, BeforeCommit, InTransaction,
     Receive, storeVars, targetVars, replyVars
<1>5. OneWritePerHorizon'
  BY DEF TypeOK, OneWritePerHorizon, Progress, KeyOf, Now, BeforeCommit,
     Receive, storeVars, targetVars, replyVars
<1>6. StoredSuccessIsReal'
  BY DEF TypeOK, StoredSuccessIsReal, RowsRecordIntents, Progress, LocksHeld, IsRow, KeyOf, OwnClaim, OwnRow, NoRow, BeforeCommit, Refusals,
     Receive, storeVars, targetVars, replyVars
<1>7. ReplayIsFaithful'
  BY DEF TypeOK, ReplayIsFaithful, RowsRecordIntents, Progress, IsRow, KeyOf, BeforeCommit,
     Receive, storeVars, targetVars, replyVars
<1>8. NoLostUpdate'
  BY DEF TypeOK, NoLostUpdate, Progress, BeforeCommit,
     Receive, storeVars, targetVars, replyVars
<1> QED
  BY <1>1, <1>2, <1>3, <1>4, <1>5, <1>6, <1>7, <1>8

LEMMA InsertClaimKeeps ==
    ASSUME IInv, TypeOK', NEW r \in Requests, InsertClaim(r)
    PROVE  IInv'
<1> USE DEF IInv
<1>1. RowsRecordIntents'
  <2> SUFFICES ASSUME NEW k \in Keys, IsRow(rows'[k]) PROVE RecordsIntent(k)'
    BY DEF RowsRecordIntents
  <2>1. CASE rows'[k] = rows[k]
    <3>1. rows[k].owner \in Requests /\ pc[rows[k].owner] \in Claimed
      BY <2>1, OwnerKnown
    <3>2. /\ intent'[rows[k].owner] = intent[rows[k].owner]
          /\ applied'[rows[k].owner] = applied[rows[k].owner]
          /\ pc'[rows[k].owner] \in Claimed
      BY <3>1 DEF TypeOK, Claimed, InsertClaim
    <3> QED
      BY <2>1, <3>2, RowUntouched
  <2>2. CASE rows'[k] /= rows[k]
    <3>1. KeyOf(r) = k /\ pc'[r] = "prepare" /\ ~applied'[r].done /\ intent'[r] \in Intents
      BY <2>2 DEF TypeOK, InsertClaim, KeyOf, Progress, BeforeCommit
    <3>2. rows'[k] = [owner |-> r, digest |-> intent[r].digest, state |-> "IN_PROGRESS",
                      createdAt |-> Now(r), expiresAt |-> Now(r) + Horizon]
      BY <2>2 DEF TypeOK, InsertClaim
    <3> QED
      BY <3>1, <3>2 DEF InsertClaim, RecordsIntent, KeyOf, Now, Claimed
  <2> QED
    BY <2>1, <2>2
<1>2. Progress'
  BY DEF TypeOK, Progress, BeforeCommit, Now, Refusals,
     InsertClaim, targetVars, replyVars
<1>3. LocksHeld'
  <2>1. ASSUME NEW s \in Requests, pc'[s] = "commit"
        PROVE  OwnClaim(s)' /\ rowLock'[KeyOf(s)'] = s
    <3>1. pc[s] = "commit" /\ KeyOf(s) \in Keys
      BY <2>1, KeyKnown DEF TypeOK, InsertClaim
    <3>2. OwnClaim(s) /\ rowLock[KeyOf(s)] = s
      BY <3>1 DEF LocksHeld
    <3>3. KeyOf(s) /= KeyOf(r)
      BY <3>2 DEF InsertClaim
    <3> QED
      BY <3>1, <3>2, <3>3 DEF TypeOK, InsertClaim, OwnClaim, OwnRow, KeyOf
  <2> QED
    BY <2>1 DEF TypeOK, LocksHeld, InTransaction, KeyOf, InsertClaim, targetVars
<1>4. OutcomesKept'
  <2> SUFFICES ASSUME NEW s \in Requests, applied[s].done, OwnRow(s)
               PROVE  OwnRow(s)'
    BY DEF OutcomesKept, InsertClaim, Now
  <2>1. KeyOf(s) \in Keys /\ IsRow(rows[KeyOf(s)])
    BY AppliedKnown DEF OwnRow, IsRow
  <2> QED
    BY <2>1 DEF TypeOK, InsertClaim, OwnRow, KeyOf
<1>5. OneWritePerHorizon'
  BY DEF TypeOK, OneWritePerHorizon, Progress, KeyOf, Now, BeforeCommit,
     InsertClaim, targetVars, replyVars
<1>6. StoredSuccessIsReal'
  <2>1. ASSUME NEW k \in Keys, IsRow(rows'[k]), rows'[k].state = "COMPLETED"
        PROVE  applied'[rows'[k].owner].done /\ intent'[rows'[k].owner].key = k
    BY <1>1, <2>1 DEF RowsRecordIntents, RecordsIntent, KeyOf
  <2>2. UNCHANGED <<applied, answer>>
    BY DEF InsertClaim, replyVars
  <2> QED
    BY <2>1, <2>2 DEF StoredSuccessIsReal, KeyOf, IsRow
<1>7. ReplayIsFaithful'
  BY DEF TypeOK, ReplayIsFaithful, RowsRecordIntents, Progress, IsRow, KeyOf, BeforeCommit,
     InsertClaim, targetVars, replyVars
<1>8. NoLostUpdate'
  BY DEF TypeOK, NoLostUpdate, Progress, BeforeCommit,
     InsertClaim, targetVars, replyVars
<1> QED
  BY <1>1, <1>2, <1>3, <1>4, <1>5, <1>6, <1>7, <1>8

LEMMA FindExistingKeeps ==
    ASSUME IInv, TypeOK', NEW r \in Requests, FindExisting(r)
    PROVE  IInv'
<1> USE DEF IInv
<1>1. RowsRecordIntents'
  <2> SUFFICES ASSUME NEW k \in Keys, IsRow(rows'[k]) PROVE RecordsIntent(k)'
    BY DEF RowsRecordIntents
  <2>1. rows'[k] = rows[k]
    BY DEF TypeOK, IsRow, NoRow, FindExisting, NextRound, Remove, Answer, Forget, storeVars, targetVars, replyVars
  <2>2. rows[k].owner \in Requests /\ pc[rows[k].owner] \in Claimed
    BY <2>1, OwnerKnown
  <2>3. /\ intent'[rows[k].owner] = intent[rows[k].owner]
        /\ applied'[rows[k].owner] = applied[rows[k].owner]
        /\ pc'[rows[k].owner] \in Claimed
    BY <2>2 DEF TypeOK, Claimed, FindExisting, NextRound, Remove, Answer, Forget, storeVars, targetVars, replyVars
  <2> QED
    BY <2>1, <2>3, RowUntouched
<1>2. Progress'
  <2>1. ASSUME Remove(r, rows[KeyOf(r)], "dropAbandoned"), Abandoned(rows[KeyOf(r)], Now(r))
        PROVE  Progress'
    <3>1. found'[r].createdAt + Lease <= Now(r)
      BY <2>1 DEF TypeOK, Remove, Abandoned
    <3> QED
      BY <2>1, <3>1 DEF TypeOK, Progress, BeforeCommit, Now, FindExisting, Remove,
                        targetVars, replyVars
  <2>2. ASSUME Remove(r, rows[KeyOf(r)], "dropExpired") PROVE Progress'
    BY <2>2 DEF TypeOK, Progress, BeforeCommit, Now, FindExisting, Remove, targetVars, replyVars
  <2>3. ASSUME NextRound(r) PROVE Progress'
    BY <2>3 DEF TypeOK, Progress, BeforeCommit, Now, FindExisting, NextRound,
                targetVars, replyVars
  <2>4. ASSUME NEW a, NEW s, Answer(r, a, s) PROVE Progress'
    BY <2>4 DEF TypeOK, Progress, BeforeCommit, Now, FindExisting, Answer, Forget,
                targetVars, replyVars
  <2> QED
    BY <2>1, <2>2, <2>3, <2>4 DEF FindExisting
<1>3. LocksHeld'
  BY DEF TypeOK, LocksHeld, Progress, InTransaction, OwnClaim, OwnRow, KeyOf, IsRow, NoRow,
     FindExisting, NextRound, Remove, Answer, Forget, storeVars, targetVars, replyVars
<1>4. OutcomesKept'
  BY DEF TypeOK, OutcomesKept, RowsRecordIntents, Progress, LocksHeld, OwnClaim, OwnRow, KeyOf, Now, IsRow, NoRow, BeforeCommit, InTransaction,
     FindExisting, NextRound, Remove, Answer, Forget, storeVars, targetVars, replyVars
<1>5. OneWritePerHorizon'
  BY DEF TypeOK, OneWritePerHorizon, Progress, KeyOf, Now, BeforeCommit,
     FindExisting, NextRound, Remove, Answer, Forget, storeVars, targetVars, replyVars
<1>6. StoredSuccessIsReal'
  BY DEF TypeOK, StoredSuccessIsReal, RowsRecordIntents, Progress, LocksHeld, IsRow, KeyOf, OwnClaim, OwnRow, NoRow, BeforeCommit, Refusals,
     FindExisting, NextRound, Remove, Answer, Forget, storeVars, targetVars, replyVars
<1>7. ReplayIsFaithful'
  <2> SUFFICES ASSUME NEW s \in Requests, answer'[s] = "replayed"
               PROVE  /\ ~applied[s].done /\ source'[s] \in Requests
                      /\ applied[source'[s]].done /\ KeyOf(source'[s]) = KeyOf(s)
                      /\ intent[source'[s]].digest = intent[s].digest
    BY DEF ReplayIsFaithful, FindExisting, KeyOf
  <2>1. CASE answer[s] = "replayed"
    <3>1. s /= r
      BY <2>1 DEF Progress, FindExisting
    <3>2. source'[s] = source[s]
      BY <3>1 DEF TypeOK, FindExisting, NextRound, Remove, Answer, replyVars
    <3> QED
      BY <2>1, <3>2 DEF ReplayIsFaithful
  <2>2. CASE answer[s] /= "replayed"
    <3> DEFINE row == rows[KeyOf(r)]
    <3>1. s = r /\ IsRow(row) /\ row.state = "COMPLETED" /\ row.digest = intent[r].digest
                /\ source'[r] = row.owner
      BY <2>2 DEF TypeOK, FindExisting, NextRound, Remove, Answer, replyVars
    <3>2. KeyOf(r) \in Keys /\ ~applied[r].done
      BY KeyKnown DEF FindExisting, Progress, BeforeCommit
    <3>3. RecordsIntent(KeyOf(r)) /\ row.owner \in Requests
      BY <3>1, <3>2, OwnerKnown DEF RowsRecordIntents
    <3> QED
      BY <3>1, <3>2, <3>3 DEF RecordsIntent
  <2> QED
    BY <2>1, <2>2
<1>8. NoLostUpdate'
  BY DEF TypeOK, NoLostUpdate, Progress, BeforeCommit,
     FindExisting, NextRound, Remove, Answer, Forget, storeVars, targetVars, replyVars
<1> QED
  BY <1>1, <1>2, <1>3, <1>4, <1>5, <1>6, <1>7, <1>8

LEMMA DropExpiredKeeps ==
    ASSUME IInv, TypeOK', NEW r \in Requests, DropExpired(r)
    PROVE  IInv'
<1> USE DEF IInv
<1>1. RowsRecordIntents'
  <2> SUFFICES ASSUME NEW k \in Keys, IsRow(rows'[k]) PROVE RecordsIntent(k)'
    BY DEF RowsRecordIntents
  <2>1. rows'[k] = rows[k]
    BY DEF TypeOK, IsRow, NoRow, DropExpired, NextRound, targetVars, replyVars
  <2>2. rows[k].owner \in Requests /\ pc[rows[k].owner] \in Claimed
    BY <2>1, OwnerKnown
  <2>3. /\ intent'[rows[k].owner] = intent[rows[k].owner]
        /\ applied'[rows[k].owner] = applied[rows[k].owner]
        /\ pc'[rows[k].owner] \in Claimed
    BY <2>2 DEF TypeOK, Claimed, DropExpired, NextRound, targetVars, replyVars
  <2> QED
    BY <2>1, <2>3, RowUntouched
<1>2. Progress'
  BY DEF TypeOK, Progress, BeforeCommit, Now, Refusals,
     DropExpired, NextRound, targetVars, replyVars
<1>3. LocksHeld'
  BY DEF TypeOK, LocksHeld, Progress, InTransaction, OwnClaim, OwnRow, KeyOf, IsRow, NoRow,
     DropExpired, NextRound, targetVars, replyVars
<1>4. OutcomesKept'
  <2> SUFFICES ASSUME NEW s \in Requests, applied[s].done, OwnRow(s), ~OwnRow(s)'
               PROVE  clock >= Now(s) + Horizon
    BY DEF OutcomesKept, DropExpired, Now
  <2>1. KeyOf(s) \in Keys /\ IsRow(rows[KeyOf(s)])
    BY AppliedKnown DEF OwnRow, IsRow
  <2>2. rows[KeyOf(s)].expiresAt = Now(s) + Horizon
    BY <2>1 DEF RowsRecordIntents, RecordsIntent, OwnRow
  <2>3. KeyOf(s) = KeyOf(r) /\ rows[KeyOf(r)].expiresAt <= Now(r)
    BY <2>1 DEF TypeOK, DropExpired, Expired, OwnRow, KeyOf
  <2>4. Now(r) <= clock /\ Now(r) \in Nat /\ clock \in Nat /\ rows[KeyOf(s)].expiresAt \in Nat
    BY <2>1, KeyKnown, OwnerKnown DEF Progress, DropExpired, TypeOK, Row
  <2> QED
    BY <2>2, <2>3, <2>4
<1>5. OneWritePerHorizon'
  BY DEF TypeOK, OneWritePerHorizon, Progress, KeyOf, Now, BeforeCommit,
     DropExpired, NextRound, targetVars, replyVars
<1>6. StoredSuccessIsReal'
  BY DEF TypeOK, StoredSuccessIsReal, RowsRecordIntents, Progress, LocksHeld, IsRow, KeyOf, OwnClaim, OwnRow, NoRow, BeforeCommit, Refusals,
     DropExpired, NextRound, targetVars, replyVars
<1>7. ReplayIsFaithful'
  BY DEF TypeOK, ReplayIsFaithful, RowsRecordIntents, Progress, IsRow, KeyOf, BeforeCommit,
     DropExpired, NextRound, targetVars, replyVars
<1>8. NoLostUpdate'
  BY DEF TypeOK, NoLostUpdate, Progress, BeforeCommit,
     DropExpired, NextRound, targetVars, replyVars
<1> QED
  BY <1>1, <1>2, <1>3, <1>4, <1>5, <1>6, <1>7, <1>8

LEMMA DropAbandonedKeeps ==
    ASSUME IInv, TypeOK', NEW r \in Requests, DropAbandoned(r)
    PROVE  IInv'
<1> USE DEF IInv
<1>1. RowsRecordIntents'
  <2> SUFFICES ASSUME NEW k \in Keys, IsRow(rows'[k]) PROVE RecordsIntent(k)'
    BY DEF RowsRecordIntents
  <2>1. rows'[k] = rows[k]
    BY DEF TypeOK, IsRow, NoRow, DropAbandoned, NextRound, targetVars, replyVars
  <2>2. rows[k].owner \in Requests /\ pc[rows[k].owner] \in Claimed
    BY <2>1, OwnerKnown
  <2>3. /\ intent'[rows[k].owner] = intent[rows[k].owner]
        /\ applied'[rows[k].owner] = applied[rows[k].owner]
        /\ pc'[rows[k].owner] \in Claimed
    BY <2>2 DEF TypeOK, Claimed, DropAbandoned, NextRound, targetVars, replyVars
  <2> QED
    BY <2>1, <2>3, RowUntouched
<1>2. Progress'
  BY DEF TypeOK, Progress, BeforeCommit, Now, Refusals,
     DropAbandoned, NextRound, targetVars, replyVars
<1>3. LocksHeld'
  BY DEF TypeOK, LocksHeld, Progress, InTransaction, OwnClaim, OwnRow, KeyOf, IsRow, NoRow,
     DropAbandoned, NextRound, targetVars, replyVars
<1>4. OutcomesKept'
  <2> SUFFICES ASSUME NEW s \in Requests, applied[s].done, OwnRow(s)
               PROVE  OwnRow(s)'
    BY DEF OutcomesKept, DropAbandoned, Now
  <2>1. KeyOf(s) \in Keys /\ IsRow(rows[KeyOf(s)])
    BY AppliedKnown DEF OwnRow, IsRow
  <2>2. rows[KeyOf(s)].state = "COMPLETED"
    BY <2>1 DEF RowsRecordIntents, RecordsIntent, OwnRow
  <2> QED
    BY <2>1, <2>2 DEF TypeOK, DropAbandoned, OwnRow, KeyOf
<1>5. OneWritePerHorizon'
  BY DEF TypeOK, OneWritePerHorizon, Progress, KeyOf, Now, BeforeCommit,
     DropAbandoned, NextRound, targetVars, replyVars
<1>6. StoredSuccessIsReal'
  BY DEF TypeOK, StoredSuccessIsReal, RowsRecordIntents, Progress, LocksHeld, IsRow, KeyOf, OwnClaim, OwnRow, NoRow, BeforeCommit, Refusals,
     DropAbandoned, NextRound, targetVars, replyVars
<1>7. ReplayIsFaithful'
  BY DEF TypeOK, ReplayIsFaithful, RowsRecordIntents, Progress, IsRow, KeyOf, BeforeCommit,
     DropAbandoned, NextRound, targetVars, replyVars
<1>8. NoLostUpdate'
  BY DEF TypeOK, NoLostUpdate, Progress, BeforeCommit,
     DropAbandoned, NextRound, targetVars, replyVars
<1> QED
  BY <1>1, <1>2, <1>3, <1>4, <1>5, <1>6, <1>7, <1>8

LEMMA RoundsExhaustedKeeps ==
    ASSUME IInv, TypeOK', NEW r \in Requests, RoundsExhausted(r)
    PROVE  IInv'
<1> USE DEF IInv
<1>1. RowsRecordIntents'
  <2> SUFFICES ASSUME NEW k \in Keys, IsRow(rows'[k]) PROVE RecordsIntent(k)'
    BY DEF RowsRecordIntents
  <2>1. rows'[k] = rows[k]
    BY DEF TypeOK, IsRow, NoRow, RoundsExhausted, Answer, Forget, storeVars, targetVars, replyVars
  <2>2. rows[k].owner \in Requests /\ pc[rows[k].owner] \in Claimed
    BY <2>1, OwnerKnown
  <2>3. /\ intent'[rows[k].owner] = intent[rows[k].owner]
        /\ applied'[rows[k].owner] = applied[rows[k].owner]
        /\ pc'[rows[k].owner] \in Claimed
    BY <2>2 DEF TypeOK, Claimed, RoundsExhausted, Answer, Forget, storeVars, targetVars, replyVars
  <2> QED
    BY <2>1, <2>3, RowUntouched
<1>2. Progress'
  BY DEF TypeOK, Progress, BeforeCommit, Now, Refusals,
     RoundsExhausted, Answer, Forget, storeVars, targetVars, replyVars
<1>3. LocksHeld'
  BY DEF TypeOK, LocksHeld, Progress, InTransaction, OwnClaim, OwnRow, KeyOf, IsRow, NoRow,
     RoundsExhausted, Answer, Forget, storeVars, targetVars, replyVars
<1>4. OutcomesKept'
  BY DEF TypeOK, OutcomesKept, RowsRecordIntents, Progress, LocksHeld, OwnClaim, OwnRow, KeyOf, Now, IsRow, NoRow, BeforeCommit, InTransaction,
     RoundsExhausted, Answer, Forget, storeVars, targetVars, replyVars
<1>5. OneWritePerHorizon'
  BY DEF TypeOK, OneWritePerHorizon, Progress, KeyOf, Now, BeforeCommit,
     RoundsExhausted, Answer, Forget, storeVars, targetVars, replyVars
<1>6. StoredSuccessIsReal'
  BY DEF TypeOK, StoredSuccessIsReal, RowsRecordIntents, Progress, LocksHeld, IsRow, KeyOf, OwnClaim, OwnRow, NoRow, BeforeCommit, Refusals,
     RoundsExhausted, Answer, Forget, storeVars, targetVars, replyVars
<1>7. ReplayIsFaithful'
  BY DEF TypeOK, ReplayIsFaithful, RowsRecordIntents, Progress, IsRow, KeyOf, BeforeCommit,
     RoundsExhausted, Answer, Forget, storeVars, targetVars, replyVars
<1>8. NoLostUpdate'
  BY DEF TypeOK, NoLostUpdate, Progress, BeforeCommit,
     RoundsExhausted, Answer, Forget, storeVars, targetVars, replyVars
<1> QED
  BY <1>1, <1>2, <1>3, <1>4, <1>5, <1>6, <1>7, <1>8

LEMMA PrepareKeeps ==
    ASSUME IInv, TypeOK', NEW r \in Requests, Prepare(r)
    PROVE  IInv'
<1> USE DEF IInv
<1>1. RowsRecordIntents'
  <2> SUFFICES ASSUME NEW k \in Keys, IsRow(rows'[k]) PROVE RecordsIntent(k)'
    BY DEF RowsRecordIntents
  <2>1. rows'[k] = rows[k]
    BY DEF TypeOK, IsRow, NoRow, Prepare, storeVars, targetVars, replyVars
  <2>2. rows[k].owner \in Requests /\ pc[rows[k].owner] \in Claimed
    BY <2>1, OwnerKnown
  <2>3. /\ intent'[rows[k].owner] = intent[rows[k].owner]
        /\ applied'[rows[k].owner] = applied[rows[k].owner]
        /\ pc'[rows[k].owner] \in Claimed
    BY <2>2 DEF TypeOK, Claimed, Prepare, storeVars, targetVars, replyVars
  <2> QED
    BY <2>1, <2>3, RowUntouched
<1>2. Progress'
  BY DEF TypeOK, Progress, BeforeCommit, Now, Refusals,
     Prepare, storeVars, targetVars, replyVars
<1>3. LocksHeld'
  BY DEF TypeOK, LocksHeld, Progress, InTransaction, OwnClaim, OwnRow, KeyOf, IsRow, NoRow,
     Prepare, storeVars, targetVars, replyVars
<1>4. OutcomesKept'
  BY DEF TypeOK, OutcomesKept, RowsRecordIntents, Progress, LocksHeld, OwnClaim, OwnRow, KeyOf, Now, IsRow, NoRow, BeforeCommit, InTransaction,
     Prepare, storeVars, targetVars, replyVars
<1>5. OneWritePerHorizon'
  BY DEF TypeOK, OneWritePerHorizon, Progress, KeyOf, Now, BeforeCommit,
     Prepare, storeVars, targetVars, replyVars
<1>6. StoredSuccessIsReal'
  BY DEF TypeOK, StoredSuccessIsReal, RowsRecordIntents, Progress, LocksHeld, IsRow, KeyOf, OwnClaim, OwnRow, NoRow, BeforeCommit, Refusals,
     Prepare, storeVars, targetVars, replyVars
<1>7. ReplayIsFaithful'
  BY DEF TypeOK, ReplayIsFaithful, RowsRecordIntents, Progress, IsRow, KeyOf, BeforeCommit,
     Prepare, storeVars, targetVars, replyVars
<1>8. NoLostUpdate'
  BY DEF TypeOK, NoLostUpdate, Progress, BeforeCommit,
     Prepare, storeVars, targetVars, replyVars
<1> QED
  BY <1>1, <1>2, <1>3, <1>4, <1>5, <1>6, <1>7, <1>8

LEMMA WorkKeeps ==
    ASSUME IInv, TypeOK', NEW r \in Requests, Work(r)
    PROVE  IInv'
<1> USE DEF IInv
<1>1. RowsRecordIntents'
  <2> SUFFICES ASSUME NEW k \in Keys, IsRow(rows'[k]) PROVE RecordsIntent(k)'
    BY DEF RowsRecordIntents
  <2>1. rows'[k] = rows[k]
    BY DEF TypeOK, IsRow, NoRow, Work, Abort, Unlock, replyVars
  <2>2. rows[k].owner \in Requests /\ pc[rows[k].owner] \in Claimed
    BY <2>1, OwnerKnown
  <2>3. /\ intent'[rows[k].owner] = intent[rows[k].owner]
        /\ applied'[rows[k].owner] = applied[rows[k].owner]
        /\ pc'[rows[k].owner] \in Claimed
    BY <2>2 DEF TypeOK, Claimed, Work, Abort, Unlock, replyVars
  <2> QED
    BY <2>1, <2>3, RowUntouched
<1>2. Progress'
  BY DEF TypeOK, Progress, BeforeCommit, Now, Refusals,
     Work, Abort, Unlock, replyVars
<1>3. LocksHeld'
  BY DEF TypeOK, LocksHeld, Progress, InTransaction, OwnClaim, OwnRow, KeyOf, IsRow, NoRow,
     Work, Abort, Unlock, replyVars
<1>4. OutcomesKept'
  BY DEF TypeOK, OutcomesKept, RowsRecordIntents, Progress, LocksHeld, OwnClaim, OwnRow, KeyOf, Now, IsRow, NoRow, BeforeCommit, InTransaction,
     Work, Abort, Unlock, replyVars
<1>5. OneWritePerHorizon'
  BY DEF TypeOK, OneWritePerHorizon, Progress, KeyOf, Now, BeforeCommit,
     Work, Abort, Unlock, replyVars
<1>6. StoredSuccessIsReal'
  BY DEF TypeOK, StoredSuccessIsReal, RowsRecordIntents, Progress, LocksHeld, IsRow, KeyOf, OwnClaim, OwnRow, NoRow, BeforeCommit, Refusals,
     Work, Abort, Unlock, replyVars
<1>7. ReplayIsFaithful'
  BY DEF TypeOK, ReplayIsFaithful, RowsRecordIntents, Progress, IsRow, KeyOf, BeforeCommit,
     Work, Abort, Unlock, replyVars
<1>8. NoLostUpdate'
  BY DEF TypeOK, NoLostUpdate, Progress, BeforeCommit,
     Work, Abort, Unlock, replyVars
<1> QED
  BY <1>1, <1>2, <1>3, <1>4, <1>5, <1>6, <1>7, <1>8

LEMMA CompleteKeeps ==
    ASSUME IInv, TypeOK', NEW r \in Requests, Complete(r)
    PROVE  IInv'
<1> USE DEF IInv
<1>1. RowsRecordIntents'
  <2> SUFFICES ASSUME NEW k \in Keys, IsRow(rows'[k]) PROVE RecordsIntent(k)'
    BY DEF RowsRecordIntents
  <2>1. rows'[k] = rows[k]
    BY DEF TypeOK, IsRow, NoRow, Complete, Abort, Unlock, replyVars
  <2>2. rows[k].owner \in Requests /\ pc[rows[k].owner] \in Claimed
    BY <2>1, OwnerKnown
  <2>3. /\ intent'[rows[k].owner] = intent[rows[k].owner]
        /\ applied'[rows[k].owner] = applied[rows[k].owner]
        /\ pc'[rows[k].owner] \in Claimed
    BY <2>2 DEF TypeOK, Claimed, Complete, Abort, Unlock, replyVars
  <2> QED
    BY <2>1, <2>3, RowUntouched
<1>2. Progress'
  BY DEF TypeOK, Progress, BeforeCommit, Now, Refusals,
     Complete, Abort, Unlock, replyVars
<1>3. LocksHeld'
  <2>1. CASE OwnClaim(r) /\ rowLock' = [rowLock EXCEPT ![KeyOf(r)] = r]
    <3>1. KeyOf(r) \in Keys
      BY KeyKnown DEF Complete
    <3>2. \A s \in Requests : pc[s] = "commit" => KeyOf(s) /= KeyOf(r)
      BY <2>1 DEF LocksHeld, OwnClaim, OwnRow, Complete
    <3> QED
      BY <2>1, <3>1, <3>2 DEF TypeOK, LocksHeld, InTransaction, OwnClaim, OwnRow, KeyOf,
                              Complete, Abort
  <2>2. CASE Abort(r, "inProgress")
    BY <2>2 DEF TypeOK, LocksHeld, InTransaction, OwnClaim, OwnRow, KeyOf, Complete, Abort, Unlock
  <2> QED
    BY <2>1, <2>2 DEF Complete
<1>4. OutcomesKept'
  BY DEF TypeOK, OutcomesKept, RowsRecordIntents, Progress, LocksHeld, OwnClaim, OwnRow, KeyOf, Now, IsRow, NoRow, BeforeCommit, InTransaction,
     Complete, Abort, Unlock, replyVars
<1>5. OneWritePerHorizon'
  BY DEF TypeOK, OneWritePerHorizon, Progress, KeyOf, Now, BeforeCommit,
     Complete, Abort, Unlock, replyVars
<1>6. StoredSuccessIsReal'
  BY DEF TypeOK, StoredSuccessIsReal, RowsRecordIntents, Progress, LocksHeld, IsRow, KeyOf, OwnClaim, OwnRow, NoRow, BeforeCommit, Refusals,
     Complete, Abort, Unlock, replyVars
<1>7. ReplayIsFaithful'
  BY DEF TypeOK, ReplayIsFaithful, RowsRecordIntents, Progress, IsRow, KeyOf, BeforeCommit,
     Complete, Abort, Unlock, replyVars
<1>8. NoLostUpdate'
  BY DEF TypeOK, NoLostUpdate, Progress, BeforeCommit,
     Complete, Abort, Unlock, replyVars
<1> QED
  BY <1>1, <1>2, <1>3, <1>4, <1>5, <1>6, <1>7, <1>8

LEMMA CommitKeeps ==
    ASSUME IInv, TypeOK', NEW r \in Requests, Commit(r)
    PROVE  IInv'
<1> USE DEF IInv
<1>1. RowsRecordIntents'
  <2> SUFFICES ASSUME NEW k \in Keys, IsRow(rows'[k]) PROVE RecordsIntent(k)'
    BY DEF RowsRecordIntents
  <2>0. OwnClaim(r) /\ KeyOf(r) \in Keys
    BY KeyKnown DEF LocksHeld, Commit
  <2>1. CASE k /= KeyOf(r)
    <3>1. rows'[k] = rows[k]
      BY <2>1 DEF TypeOK, Commit
    <3>2. rows[k].owner \in Requests \ {r} /\ pc[rows[k].owner] \in Claimed
      BY <2>1, <3>1, OwnerKnown DEF RowsRecordIntents, RecordsIntent
    <3>3. /\ intent'[rows[k].owner] = intent[rows[k].owner]
          /\ applied'[rows[k].owner] = applied[rows[k].owner]
          /\ pc'[rows[k].owner] \in Claimed
      BY <3>2 DEF TypeOK, Commit, Answer
    <3> QED
      BY <3>1, <3>3, RowUntouched
  <2>2. CASE k = KeyOf(r)
    <3>1. RecordsIntent(k) /\ rows[k] \in Row /\ rows[k].owner = r
      BY <2>0, <2>2, OwnerKnown DEF RowsRecordIntents, OwnClaim, OwnRow, IsRow
    <3>2. rows'[k] = [rows[k] EXCEPT !.state = "COMPLETED"]
      BY <2>2 DEF TypeOK, Commit
    <3>3. applied'[r].done /\ pc'[r] \in Claimed /\ intent' = intent
      BY DEF TypeOK, Commit, Answer, Claimed
    <3> QED
      BY <3>1, <3>2, <3>3 DEF RecordsIntent, Row, KeyOf, Now
  <2> QED
    BY <2>1, <2>2
<1>2. Progress'
  BY DEF TypeOK, Progress, BeforeCommit, Now, Refusals,
     Commit, Answer, Forget, Unlock, replyVars
<1>3. LocksHeld'
  BY DEF TypeOK, LocksHeld, Progress, InTransaction, OwnClaim, OwnRow, KeyOf, IsRow, NoRow,
     Commit, Answer, Forget, Unlock, replyVars
<1>4. OutcomesKept'
  BY DEF TypeOK, OutcomesKept, RowsRecordIntents, Progress, LocksHeld, OwnClaim, OwnRow, KeyOf, Now, IsRow, NoRow, BeforeCommit, InTransaction,
     Commit, Answer, Forget, Unlock, replyVars
<1>5. OneWritePerHorizon'
  <2>1. OwnRow(r) /\ applied' = [applied EXCEPT ![r] = [done |-> TRUE, from |-> version, at |-> clock]]
    BY DEF LocksHeld, OwnClaim, Commit
  <2>2. ASSUME NEW s \in Requests \ {r}, applied[s].done, KeyOf(s) = KeyOf(r)
        PROVE  clock >= Now(s) + Horizon
    BY <2>1, <2>2 DEF OutcomesKept, OwnRow
  <2>3. \A s \in Requests \ {r} : applied'[s] = applied[s]
    BY <2>1 DEF TypeOK
  <2>4. applied'[r].at = clock /\ intent' = intent
    BY <2>1 DEF TypeOK, Commit
  <2> QED
    BY <2>2, <2>3, <2>4 DEF OneWritePerHorizon, KeyOf, Now
<1>6. StoredSuccessIsReal'
  <2>1. ASSUME NEW k \in Keys, IsRow(rows'[k]), rows'[k].state = "COMPLETED"
        PROVE  applied'[rows'[k].owner].done /\ intent'[rows'[k].owner].key = k
    BY <1>1, <2>1 DEF RowsRecordIntents, RecordsIntent, KeyOf
  <2>2. ASSUME NEW s \in Requests
        PROVE  /\ answer'[s] \in Refusals \ {"error"} => ~applied'[s].done
               /\ answer'[s] = "accepted" => applied'[s].done
    <3>1. CASE s = r
      BY <3>1 DEF TypeOK, Commit, Answer, replyVars, Progress, Refusals
    <3>2. CASE s /= r
      BY <3>2 DEF TypeOK, Commit, Answer, replyVars, StoredSuccessIsReal
    <3> QED
      BY <3>1, <3>2
  <2> QED
    BY <2>1, <2>2 DEF StoredSuccessIsReal, KeyOf, IsRow
<1>7. ReplayIsFaithful'
  BY DEF TypeOK, ReplayIsFaithful, RowsRecordIntents, Progress, IsRow, KeyOf, BeforeCommit,
     Commit, Answer, Forget, Unlock, replyVars
<1>8. NoLostUpdate'
  <2>1. /\ applied' = [applied EXCEPT ![r] = [done |-> TRUE, from |-> version, at |-> clock]]
        /\ version' = version + 1 /\ intent' = intent /\ version \in Nat
    BY DEF Commit, TypeOK
  <2>2. intent[r].ifMatch \in {version, NoMatch}
    BY DEF LocksHeld, InTransaction, Commit
  <2>3. \A s \in Requests \ {r} : applied'[s] = applied[s]
    BY <2>1 DEF TypeOK
  <2>4. \A s \in Requests : applied[s].done =>
           applied[s].from \in Nat /\ applied[s].from < version
    <3> SUFFICES ASSUME NEW s \in Requests, applied[s].done
                 PROVE  applied[s].from \in Nat /\ applied[s].from < version
      OBVIOUS
    <3>1. applied[s] \in Applied
      BY DEF TypeOK, NotApplied
    <3> QED
      BY <3>1 DEF NoLostUpdate, Applied
  <2>5. applied'[r] = [done |-> TRUE, from |-> version, at |-> clock]
    BY <2>1 DEF TypeOK
  <2> QED
    BY <2>1, <2>2, <2>3, <2>4, <2>5 DEF NoLostUpdate
<1> QED
  BY <1>1, <1>2, <1>3, <1>4, <1>5, <1>6, <1>7, <1>8

LEMMA TransactionFailsKeeps ==
    ASSUME IInv, TypeOK', NEW r \in Requests, TransactionFails(r)
    PROVE  IInv'
<1> USE DEF IInv
<1>1. RowsRecordIntents'
  <2> SUFFICES ASSUME NEW k \in Keys, IsRow(rows'[k]) PROVE RecordsIntent(k)'
    BY DEF RowsRecordIntents
  <2>1. rows'[k] = rows[k]
    BY DEF TypeOK, IsRow, NoRow, TransactionFails, Abort, Unlock, replyVars
  <2>2. rows[k].owner \in Requests /\ pc[rows[k].owner] \in Claimed
    BY <2>1, OwnerKnown
  <2>3. /\ intent'[rows[k].owner] = intent[rows[k].owner]
        /\ applied'[rows[k].owner] = applied[rows[k].owner]
        /\ pc'[rows[k].owner] \in Claimed
    BY <2>2 DEF TypeOK, Claimed, TransactionFails, Abort, Unlock, replyVars
  <2> QED
    BY <2>1, <2>3, RowUntouched
<1>2. Progress'
  BY DEF TypeOK, Progress, BeforeCommit, Now, Refusals,
     TransactionFails, Abort, Unlock, replyVars
<1>3. LocksHeld'
  BY DEF TypeOK, LocksHeld, Progress, InTransaction, OwnClaim, OwnRow, KeyOf, IsRow, NoRow,
     TransactionFails, Abort, Unlock, replyVars
<1>4. OutcomesKept'
  BY DEF TypeOK, OutcomesKept, RowsRecordIntents, Progress, LocksHeld, OwnClaim, OwnRow, KeyOf, Now, IsRow, NoRow, BeforeCommit, InTransaction,
     TransactionFails, Abort, Unlock, replyVars
<1>5. OneWritePerHorizon'
  BY DEF TypeOK, OneWritePerHorizon, Progress, KeyOf, Now, BeforeCommit,
     TransactionFails, Abort, Unlock, replyVars
<1>6. StoredSuccessIsReal'
  BY DEF TypeOK, StoredSuccessIsReal, RowsRecordIntents, Progress, LocksHeld, IsRow, KeyOf, OwnClaim, OwnRow, NoRow, BeforeCommit, Refusals,
     TransactionFails, Abort, Unlock, replyVars
<1>7. ReplayIsFaithful'
  BY DEF TypeOK, ReplayIsFaithful, RowsRecordIntents, Progress, IsRow, KeyOf, BeforeCommit,
     TransactionFails, Abort, Unlock, replyVars
<1>8. NoLostUpdate'
  BY DEF TypeOK, NoLostUpdate, Progress, BeforeCommit,
     TransactionFails, Abort, Unlock, replyVars
<1> QED
  BY <1>1, <1>2, <1>3, <1>4, <1>5, <1>6, <1>7, <1>8

LEMMA ReleaseKeeps ==
    ASSUME IInv, TypeOK', NEW r \in Requests, Release(r)
    PROVE  IInv'
<1> USE DEF IInv
<1>1. RowsRecordIntents'
  <2> SUFFICES ASSUME NEW k \in Keys, IsRow(rows'[k]) PROVE RecordsIntent(k)'
    BY DEF RowsRecordIntents
  <2>1. rows'[k] = rows[k]
    BY DEF TypeOK, Release, IsRow, NoRow
  <2>2. rows[k].owner \in Requests /\ pc[rows[k].owner] \in Claimed
    BY <2>1, OwnerKnown
  <2>3. /\ intent'[rows[k].owner] = intent[rows[k].owner]
        /\ applied'[rows[k].owner] = applied[rows[k].owner]
        /\ pc'[rows[k].owner] \in Claimed
    BY <2>2 DEF TypeOK, Claimed, Release, Answer
  <2> QED
    BY <2>1, <2>3, RowUntouched
<1>2. Progress'
  BY DEF TypeOK, Progress, BeforeCommit, Now, Refusals,
     Release, Answer, Forget, targetVars
<1>3. LocksHeld'
  <2>1. ASSUME NEW s \in Requests, pc'[s] = "commit"
        PROVE  OwnClaim(s)' /\ rowLock'[KeyOf(s)'] = s
    <3>1. s /= r /\ pc[s] = "commit"
      BY <2>1 DEF TypeOK, Release, Answer
    <3>2. KeyOf(s) \in Keys /\ OwnClaim(s) /\ rowLock[KeyOf(s)] = s
      BY <3>1, KeyKnown DEF LocksHeld
    <3> QED
      BY <3>1, <3>2 DEF TypeOK, Release, OwnClaim, OwnRow, KeyOf
  <2> QED
    BY <2>1 DEF TypeOK, LocksHeld, InTransaction, KeyOf, Release, Answer, targetVars
<1>4. OutcomesKept'
  <2> SUFFICES ASSUME NEW s \in Requests, applied[s].done, OwnRow(s)
               PROVE  OwnRow(s)'
    BY DEF OutcomesKept, Release, Now
  <2>1. KeyOf(s) \in Keys /\ IsRow(rows[KeyOf(s)])
    BY AppliedKnown DEF OwnRow, IsRow
  <2>2. rows[KeyOf(s)].state = "COMPLETED"
    BY <2>1 DEF RowsRecordIntents, RecordsIntent, OwnRow
  <2> QED
    BY <2>1, <2>2 DEF TypeOK, Release, OwnClaim, OwnRow, KeyOf
<1>5. OneWritePerHorizon'
  BY DEF TypeOK, OneWritePerHorizon, Progress, KeyOf, Now, BeforeCommit,
     Release, Answer, Forget, targetVars
<1>6. StoredSuccessIsReal'
  <2>1. ASSUME NEW k \in Keys, IsRow(rows'[k]), rows'[k].state = "COMPLETED"
        PROVE  applied'[rows'[k].owner].done /\ intent'[rows'[k].owner].key = k
    BY <1>1, <2>1 DEF RowsRecordIntents, RecordsIntent, KeyOf
  <2>2. ASSUME NEW s \in Requests
        PROVE  /\ answer'[s] \in Refusals \ {"error"} => ~applied'[s].done
               /\ answer'[s] = "accepted" => applied'[s].done
    <3>1. CASE s = r
      BY <3>1 DEF TypeOK, Release, Answer, Progress, Refusals
    <3>2. CASE s /= r
      BY <3>2 DEF TypeOK, Release, Answer, StoredSuccessIsReal
    <3> QED
      BY <3>1, <3>2
  <2> QED
    BY <2>1, <2>2 DEF StoredSuccessIsReal, KeyOf, IsRow
<1>7. ReplayIsFaithful'
  <2>1. answer'[r] /= "replayed"
    BY DEF TypeOK, Release, Answer, Progress, Refusals
  <2>2. \A s \in Requests \ {r} : answer'[s] = answer[s] /\ source'[s] = source[s]
    BY DEF TypeOK, Release, Answer
  <2> QED
    BY <2>1, <2>2 DEF ReplayIsFaithful, Release, KeyOf
<1>8. NoLostUpdate'
  BY DEF TypeOK, NoLostUpdate, Progress, BeforeCommit,
     Release, Answer, Forget, targetVars
<1> QED
  BY <1>1, <1>2, <1>3, <1>4, <1>5, <1>6, <1>7, <1>8

LEMMA CrashKeeps ==
    ASSUME IInv, TypeOK', NEW r \in Requests, Crash(r)
    PROVE  IInv'
<1> USE DEF IInv
<1>1. RowsRecordIntents'
  <2> SUFFICES ASSUME NEW k \in Keys, IsRow(rows'[k]) PROVE RecordsIntent(k)'
    BY DEF RowsRecordIntents
  <2>1. rows'[k] = rows[k]
    BY DEF TypeOK, IsRow, NoRow, Crash, Running, Forget, Unlock, replyVars
  <2>2. rows[k].owner \in Requests /\ pc[rows[k].owner] \in Claimed
    BY <2>1, OwnerKnown
  <2>3. /\ intent'[rows[k].owner] = intent[rows[k].owner]
        /\ applied'[rows[k].owner] = applied[rows[k].owner]
        /\ pc'[rows[k].owner] \in Claimed
    BY <2>2 DEF TypeOK, Claimed, Crash, Running, Forget, Unlock, replyVars
  <2> QED
    BY <2>1, <2>3, RowUntouched
<1>2. Progress'
  BY DEF TypeOK, Progress, BeforeCommit, Now, Refusals,
     Crash, Running, Forget, Unlock, replyVars
<1>3. LocksHeld'
  BY DEF TypeOK, LocksHeld, Progress, InTransaction, OwnClaim, OwnRow, KeyOf, IsRow, NoRow,
     Crash, Running, Forget, Unlock, replyVars
<1>4. OutcomesKept'
  BY DEF TypeOK, OutcomesKept, RowsRecordIntents, Progress, LocksHeld, OwnClaim, OwnRow, KeyOf, Now, IsRow, NoRow, BeforeCommit, InTransaction,
     Crash, Running, Forget, Unlock, replyVars
<1>5. OneWritePerHorizon'
  BY DEF TypeOK, OneWritePerHorizon, Progress, KeyOf, Now, BeforeCommit,
     Crash, Running, Forget, Unlock, replyVars
<1>6. StoredSuccessIsReal'
  BY DEF TypeOK, StoredSuccessIsReal, RowsRecordIntents, Progress, LocksHeld, IsRow, KeyOf, OwnClaim, OwnRow, NoRow, BeforeCommit, Refusals,
     Crash, Running, Forget, Unlock, replyVars
<1>7. ReplayIsFaithful'
  BY DEF TypeOK, ReplayIsFaithful, RowsRecordIntents, Progress, IsRow, KeyOf, BeforeCommit,
     Crash, Running, Forget, Unlock, replyVars
<1>8. NoLostUpdate'
  BY DEF TypeOK, NoLostUpdate, Progress, BeforeCommit,
     Crash, Running, Forget, Unlock, replyVars
<1> QED
  BY <1>1, <1>2, <1>3, <1>4, <1>5, <1>6, <1>7, <1>8


LEMMA TickKeeps ==
    ASSUME IInv, TypeOK', Tick
    PROVE  IInv'
<1>1. RowsRecordIntents'
  BY DEF IInv, RowsRecordIntents, RecordsIntent, KeyOf, Now, Tick, storeVars
<1>2. Progress' /\ OutcomesKept'
  BY DEF IInv, TypeOK, Progress, OutcomesKept, Tick, Now, OwnRow, KeyOf, storeVars, replyVars,
         BeforeCommit, Applied, NotApplied, Intents
<1>3. LocksHeld'
  BY DEF IInv, LocksHeld, InTransaction, OwnClaim, OwnRow, KeyOf, Tick, storeVars, targetVars
<1>4. OneWritePerHorizon' /\ StoredSuccessIsReal' /\ ReplayIsFaithful' /\ NoLostUpdate'
  BY DEF IInv, OneWritePerHorizon, StoredSuccessIsReal, ReplayIsFaithful, NoLostUpdate,
         KeyOf, Now, Tick, storeVars, targetVars, replyVars
<1> QED
  BY <1>1, <1>2, <1>3, <1>4 DEF IInv

LEMMA IInvInit == Init => IInv
<1> SUFFICES ASSUME Init PROVE IInv
  OBVIOUS
<1>1. TypeOK
  BY TypeInit
<1>2. RowsRecordIntents /\ StoredSuccessIsReal
  BY DEF Init, RowsRecordIntents, StoredSuccessIsReal, IsRow, NoRow, Refusals, NotApplied
<1>3. Progress /\ OutcomesKept
  BY DEF Init, Progress, OutcomesKept, NotApplied
<1>4. LocksHeld
  BY DEF Init, LocksHeld, InTransaction
<1>5. OneWritePerHorizon /\ ReplayIsFaithful /\ NoLostUpdate
  BY DEF Init, OneWritePerHorizon, ReplayIsFaithful, NoLostUpdate, NotApplied
<1> QED
  BY <1>1, <1>2, <1>3, <1>4, <1>5 DEF IInv

LEMMA IInvStep == IInv /\ [Next]_vars => IInv'
<1> SUFFICES ASSUME IInv, [Next]_vars PROVE IInv'
  OBVIOUS
<1>1. TypeOK'
  BY TypeStep DEF IInv
<1>2. CASE UNCHANGED vars
  BY <1>2 DEF vars, IInv, TypeOK, RowsRecordIntents, RecordsIntent, Progress, LocksHeld,
              OutcomesKept, OneWritePerHorizon, StoredSuccessIsReal, ReplayIsFaithful,
              NoLostUpdate, InTransaction, OwnClaim, OwnRow, KeyOf, Now
<1>3. CASE Tick
  BY <1>1, <1>3, TickKeeps
<1>4. ASSUME NEW r \in Requests, \E i \in Sendable : Receive(r, i) PROVE IInv'
  BY <1>1, <1>4, ReceiveKeeps
<1>5. ASSUME NEW r \in Requests, Step(r) PROVE IInv'
  BY <1>1, <1>5, InsertClaimKeeps, FindExistingKeeps, DropExpiredKeeps, DropAbandonedKeeps,
     RoundsExhaustedKeeps, PrepareKeeps, WorkKeeps, CompleteKeeps, CommitKeeps, ReleaseKeeps
     DEF Step
<1>6. ASSUME NEW r \in Requests, TransactionFails(r) \/ Crash(r) PROVE IInv'
  BY <1>1, <1>6, TransactionFailsKeeps, CrashKeeps
<1> QED
  BY <1>2, <1>3, <1>4, <1>5, <1>6 DEF Next

\* Every reachable state satisfies the inductive invariant.
THEOREM Invariant == Spec => []IInv
BY IInvInit, IInvStep, PTL DEF Spec

-----------------------------------------------------------------------------
\* The variables keep their types in every reachable state.
THEOREM TypeCorrect == Spec => []TypeOK
<1>1. IInv => TypeOK
  BY DEF IInv
<1> QED
  BY <1>1, Invariant, PTL

\* A key performs its write at most once per replay horizon, however often
\* it is retried, taken over from a dead or slow request, or reported failed.
THEOREM WritesOncePerHorizon == Spec => []OneWritePerHorizon
<1>1. IInv => OneWritePerHorizon
  BY DEF IInv
<1> QED
  BY <1>1, Invariant, PTL

\* Only a committed write is stored as a replayable success, and a request
\* that is refused with a definite answer has written nothing.
THEOREM StoresOnlyRealSuccess == Spec => []StoredSuccessIsReal
<1>1. IInv => StoredSuccessIsReal
  BY DEF IInv
<1> QED
  BY <1>1, Invariant, PTL

\* A replay describes a committed write of the same key and digest.
THEOREM ReplaysFaithfully == Spec => []ReplayIsFaithful
<1>1. IInv => ReplayIsFaithful
  BY DEF IInv
<1> QED
  BY <1>1, Invariant, PTL

\* No conditional write overwrites a version its client has not seen.
THEOREM LosesNoUpdate == Spec => []NoLostUpdate
<1>1. IInv => NoLostUpdate
  BY DEF IInv
<1> QED
  BY <1>1, Invariant, PTL

-----------------------------------------------------------------------------
\* A stored row changes only where the code may change it.
LEMMA RowChange ==
    ASSUME IInv, Next, NEW k \in Keys, IsRow(rows[k]), rows'[k] /= rows[k]
    PROVE  \/ clock >= rows[k].expiresAt
           \/ /\ rows[k].state = "IN_PROGRESS"
              /\ \/ clock >= rows[k].createdAt + Lease
                 \/ pc[rows[k].owner] \in {"commit", "release"}
<1> USE DEF IInv
<1>1. PICK r \in Requests : \/ InsertClaim(r) \/ DropExpired(r) \/ DropAbandoned(r)
                            \/ Commit(r) \/ Release(r)
  BY DEF Next, Step, Tick, Receive, FindExisting, RoundsExhausted, Prepare, Work, Complete,
         TransactionFails, Crash, storeVars
<1>2. KeyOf(r) = k
  BY <1>1 DEF TypeOK, InsertClaim, DropExpired, DropAbandoned, Commit, Release
<1>3. pc[r] /= "idle" /\ Now(r) \in Nat /\ Now(r) <= clock /\ clock \in Nat /\ rows[k] \in Row
  BY <1>1, KeyKnown, OwnerKnown
     DEF Progress, TypeOK, InsertClaim, DropExpired, DropAbandoned, Commit, Release
<1>4. CASE InsertClaim(r)
  BY <1>2, <1>4 DEF InsertClaim
<1>5. CASE DropExpired(r)
  BY <1>2, <1>3, <1>5 DEF DropExpired, Expired, Row
<1>6. CASE DropAbandoned(r)
  <2>1. rows[k].state = "IN_PROGRESS" /\ rows[k].createdAt + Lease <= Now(r)
    BY <1>2, <1>6 DEF DropAbandoned, Progress
  <2> QED
    BY <1>3, <2>1 DEF Row
<1>7. CASE Commit(r)
  BY <1>2, <1>7 DEF Commit, LocksHeld, OwnClaim, OwnRow
<1>8. CASE Release(r)
  BY <1>2, <1>8 DEF Release, OwnClaim, OwnRow
<1> QED
  BY <1>1, <1>4, <1>5, <1>6, <1>7, <1>8

\* No step drops or rewrites a completed row before its horizon, or another
\* request's live claim before its lease.
THEOREM KeepsRows == Spec => RowsAreKept
<1> DEFINE Kept == \A k \in Keys : IsRow(rows[k]) /\ rows'[k] /= rows[k] =>
           \/ clock >= rows[k].expiresAt
           \/ /\ rows[k].state = "IN_PROGRESS"
              /\ \/ clock >= rows[k].createdAt + Lease
                 \/ pc[rows[k].owner] \in {"commit", "release"}
<1>1. IInv /\ [Next]_vars => [Kept]_vars
  <2> SUFFICES ASSUME IInv, Next PROVE Kept
    OBVIOUS
  <2> QED
    BY RowChange
<1> QED
  BY <1>1, Invariant, PTL DEF Spec, RowsAreKept

-----------------------------------------------------------------------------
(* The store implements WritePromise.                                      *)

LEMMA PromiseInit == Init => Promise!PromiseInit
BY DEF Init, Promise!PromiseInit, OutcomeOf, IsRow, NoRow, NotApplied, NoIntent,
       Promise!NoIntent, Promise!NoOutcome

\* A step that leaves every completed row, every write and every answer
\* alone is invisible to the client.
LEMMA Invisible ==
    ASSUME IInv, NEW r \in Requests,
           \/ InsertClaim(r) \/ DropAbandoned(r) \/ Prepare(r) \/ Work(r)
           \/ Complete(r) \/ TransactionFails(r) \/ Crash(r)
    PROVE  UNCHANGED Promise!promiseVars
<1> USE DEF IInv
<1>1. \A k \in Keys : OutcomeOf(rows'[k]) = OutcomeOf(rows[k])
  BY DEF TypeOK, OutcomeOf, IsRow, NoRow, InsertClaim, DropAbandoned, Prepare, Work, Complete,
         TransactionFails, Crash, storeVars
<1>2. UNCHANGED <<clock, version, applied, answer, source, intent>>
  BY DEF InsertClaim, DropAbandoned, NextRound, Prepare, Work, Complete,
         TransactionFails, Crash, targetVars, replyVars
<1> QED
  BY <1>1, <1>2 DEF Promise!promiseVars

\* A refusal: nothing a client can see changes but the answer of r.
LEMMA Refuses ==
    ASSUME IInv, NEW r \in Requests, pc[r] \notin {"idle", "answered"},
           NEW a \in Refusals, Answer(r, a, Nobody),
           a /= "error" => ~applied[r].done,
           UNCHANGED <<clock, version, intent, applied>>,
           \A k \in Keys : OutcomeOf(rows'[k]) = OutcomeOf(rows[k])
    PROVE  Promise!Refuse(r)
<1>1. intent[r].key /= Nobody /\ answer[r] = "none"
  BY KeyKnown DEF IInv, Progress, KeyOf
<1>2. [s \in Requests |-> applied[s].done][r] = applied[r].done
  OBVIOUS
<1> QED
  BY <1>1, <1>2 DEF Promise!Refuse, Promise!Sent, Promise!Reply, Answer, Refusals

LEMMA PromiseFind ==
    ASSUME IInv, NEW r \in Requests, FindExisting(r)
    PROVE  [Promise!PromiseNext]_Promise!promiseVars
<1> USE DEF IInv
<1> DEFINE row == rows[KeyOf(r)]
<1>1. /\ UNCHANGED <<clock, rows, version, intent, applied>>
      /\ pc[r] = "find" /\ ~applied[r].done /\ answer[r] = "none"
      /\ KeyOf(r) \in Keys
  BY KeyKnown DEF FindExisting, storeVars, targetVars, Progress, BeforeCommit
<1>2. ASSUME NextRound(r) \/ \E x, l : Remove(r, x, l)
      PROVE  UNCHANGED Promise!promiseVars
  BY <1>1, <1>2 DEF NextRound, Remove, replyVars, Promise!promiseVars
<1>3. ASSUME NEW a \in {"conflict", "inProgress"}, Answer(r, a, Nobody)
      PROVE  Promise!Refuse(r)
  BY <1>1, <1>3, Refuses DEF Refusals
<1>4. ASSUME IsRow(row), row.digest = intent[r].digest, row.state = "COMPLETED",
             Answer(r, "replayed", row.owner)
      PROVE  Promise!Replay(r)
  <2> DEFINE outcome == [k \in Keys |-> OutcomeOf(rows[k])]
  <2>1. outcome[KeyOf(r)] = [owner |-> row.owner, digest |-> row.digest,
                             until |-> row.expiresAt]
    BY <1>1, <1>4 DEF OutcomeOf
  <2>2. row.owner /= Nobody
    BY <1>4 DEF IsRow
  <2>3. intent[r].key \in Keys /\ KeyOf(r) = intent[r].key /\ intent[r].key /= Nobody
    BY <1>1 DEF KeyOf
  <2>4. /\ outcome[intent[r].key].owner = row.owner
        /\ outcome[intent[r].key].digest = intent[r].digest
    BY <1>4, <2>1, <2>3
  <2>5. [s \in Requests |-> applied[s].done][r] = FALSE
    BY <1>1 DEF TypeOK, Applied, NotApplied
  <2> HIDE DEF row
  <2> QED
    BY <1>1, <1>4, <2>2, <2>3, <2>4, <2>5
       DEF Promise!Replay, Promise!Sent, Promise!Recorded, Promise!Reply, Answer
<1> QED
  BY <1>2, <1>3, <1>4 DEF FindExisting, Promise!PromiseNext

LEMMA PromiseDropExpired ==
    ASSUME IInv, NEW r \in Requests, DropExpired(r)
    PROVE  [Promise!PromiseNext]_Promise!promiseVars
<1> USE DEF IInv
<1> DEFINE k == KeyOf(r)
<1>1. /\ UNCHANGED <<clock, version, intent, applied, answer, source>>
      /\ k \in Keys /\ Now(r) <= clock /\ Now(r) \in Nat /\ clock \in Nat
  BY KeyKnown DEF DropExpired, NextRound, targetVars, replyVars, Progress, TypeOK
<1>2. CASE rows' = rows \/ OutcomeOf(rows[k]) = NoRow
  <2>1. \A j \in Keys : OutcomeOf(rows'[j]) = OutcomeOf(rows[j])
    BY <1>2 DEF DropExpired, TypeOK, OutcomeOf, IsRow, NoRow
  <2> QED
    BY <1>1, <2>1 DEF Promise!promiseVars
<1>3. CASE rows' /= rows /\ OutcomeOf(rows[k]) /= NoRow
  <2> DEFINE outcome == [j \in Keys |-> OutcomeOf(rows[j])]
  <2>1. rows' = [rows EXCEPT ![k] = NoRow] /\ rows[k].expiresAt <= Now(r)
    BY <1>3 DEF DropExpired, Expired
  <2>2. IsRow(rows[k]) /\ rows[k].state = "COMPLETED"
    BY <1>3 DEF OutcomeOf
  <2>3. outcome[k].owner /= Nobody /\ outcome[k].until <= clock
    <3>1. rows[k].expiresAt \in Nat
      BY <1>1, <2>2, OwnerKnown DEF Row
    <3> QED
      BY <1>1, <2>1, <2>2, <3>1 DEF OutcomeOf, IsRow
  <2>4. \A j \in Keys : OutcomeOf(rows'[j]) = IF j = k THEN NoRow ELSE OutcomeOf(rows[j])
    BY <1>1, <2>1 DEF TypeOK, OutcomeOf, IsRow, NoRow
  <2>5. [j \in Keys |-> OutcomeOf(rows[j])]' = [outcome EXCEPT ![k] = NoRow]
    BY <1>1, <2>4
  <2>6. Promise!ForgetOutcome(k)
    BY <1>1, <2>3, <2>5 DEF Promise!ForgetOutcome, Promise!Recorded, Promise!NoOutcome, NoRow
  <2> HIDE DEF k
  <2> QED
    BY <1>1, <2>6 DEF Promise!PromiseNext
<1> QED
  BY <1>2, <1>3

LEMMA PromiseCommit ==
    ASSUME IInv, NEW r \in Requests, Commit(r)
    PROVE  Promise!Perform(r)
<1> USE DEF IInv
<1> DEFINE k == KeyOf(r)
           outcome == [j \in Keys |-> OutcomeOf(rows[j])]
           done == [s \in Requests |-> applied[s].done]
<1>1. /\ k \in Keys /\ intent[r] \in Intents /\ OwnClaim(r) /\ ~applied[r].done
      /\ answer[r] = "none" /\ intent[r].ifMatch \in {version, NoMatch}
  BY KeyKnown DEF Commit, LocksHeld, InTransaction, Progress, BeforeCommit
<1>2. rows[k] \in Row /\ RecordsIntent(k) /\ rows[k].owner = r /\ rows[k].state = "IN_PROGRESS"
  BY <1>1, OwnerKnown DEF OwnClaim, OwnRow, IsRow
<1>3. OutcomeOf(rows[k]) = NoRow
  BY <1>2 DEF OutcomeOf
<1>4. rows' = [rows EXCEPT ![k] = [rows[k] EXCEPT !.state = "COMPLETED"]]
  BY DEF Commit
<1>5. OutcomeOf(rows'[k]) = [owner |-> r, digest |-> intent[r].digest,
                             until |-> intent[r].now + Horizon]
  <2>1. rows'[k] = [rows[k] EXCEPT !.state = "COMPLETED"]
    BY <1>1, <1>4 DEF TypeOK
  <2>2. /\ rows'[k].owner = r /\ rows'[k].state = "COMPLETED"
        /\ rows'[k].digest = intent[r].digest /\ rows'[k].expiresAt = intent[r].now + Horizon
    BY <1>2, <2>1 DEF Row, RecordsIntent, Now
  <2> QED
    BY <2>2 DEF OutcomeOf, IsRow
<1>6. outcome' = [outcome EXCEPT ![k] = [owner |-> r, digest |-> intent[r].digest,
                                         until |-> intent[r].now + Horizon]]
  <2>1. \A j \in Keys \ {k} : OutcomeOf(rows'[j]) = OutcomeOf(rows[j])
    BY <1>4 DEF TypeOK
  <2> HIDE DEF k
  <2> QED
    BY <1>1, <1>5, <2>1
<1>7. done' = [done EXCEPT ![r] = TRUE] /\ ~done[r]
  BY <1>1 DEF Commit, TypeOK
<1>8. outcome[k].owner = Nobody
  BY <1>1, <1>3 DEF NoRow
<1>9. version' = version + 1 /\ UNCHANGED <<clock, intent>>
  BY DEF Commit
<1>10. Promise!Reply(r, "accepted", r) \/ UNCHANGED <<answer, source>>
  BY <1>1 DEF Commit, Answer, replyVars, Promise!Reply
<1>11. k = intent[r].key /\ k /= Nobody
  BY <1>1 DEF KeyOf
<1> HIDE DEF k
<1> QED
  BY <1>1, <1>6, <1>7, <1>8, <1>9, <1>10, <1>11
     DEF Promise!Perform, Promise!Sent, Promise!Recorded

LEMMA PromiseStep == IInv /\ [Next]_vars => [Promise!PromiseNext]_Promise!promiseVars
<1> SUFFICES ASSUME IInv, [Next]_vars PROVE [Promise!PromiseNext]_Promise!promiseVars
  OBVIOUS
<1>1. CASE UNCHANGED vars
  BY <1>1 DEF vars, Promise!promiseVars
<1>2. CASE Tick
  <2>1. Promise!TimePasses
    BY <1>2 DEF Tick, Promise!TimePasses, storeVars, targetVars, replyVars
  <2> QED
    BY <2>1 DEF Promise!PromiseNext
<1>3. ASSUME NEW r \in Requests, NEW i \in Sendable, Receive(r, i)
      PROVE  Promise!PromiseNext
  <2>1. intent[r].key = Nobody
    BY <1>3 DEF IInv, Progress, Receive, NoIntent
  <2>2. /\ i.key \in Keys /\ i.digest \in Digests /\ i.ifMatch \in (0 .. version) \cup {NoMatch}
        /\ i = [key |-> i.key, digest |-> i.digest, ifMatch |-> i.ifMatch, now |-> clock]
    BY DEF Sendable
  <2>3. Promise!Send(r)
    BY <1>3, <2>1, <2>2 DEF Promise!Send, Promise!Sent, Receive, storeVars, targetVars, replyVars
  <2> QED
    BY <2>3 DEF Promise!PromiseNext
<1>4. ASSUME NEW r \in Requests, RoundsExhausted(r) PROVE Promise!PromiseNext
  <2>1. Promise!Refuse(r)
    BY <1>4, Refuses DEF RoundsExhausted, Refusals, storeVars, targetVars, IInv, Progress,
                         BeforeCommit
  <2> QED
    BY <2>1 DEF Promise!PromiseNext
<1>5. ASSUME NEW r \in Requests, Release(r) PROVE Promise!PromiseNext
  <2>1. \A k \in Keys : OutcomeOf(rows'[k]) = OutcomeOf(rows[k])
    BY <1>5 DEF IInv, TypeOK, Release, OwnClaim, OutcomeOf, IsRow, NoRow
  <2>2. failure[r] \in Refusals /\ (failure[r] /= "error" => ~applied[r].done)
    BY <1>5 DEF IInv, Progress, Release
  <2>3. Promise!Refuse(r)
    BY <1>5, <2>1, <2>2, Refuses DEF Release, targetVars
  <2> QED
    BY <2>3 DEF Promise!PromiseNext
<1>6. ASSUME NEW r \in Requests, Commit(r) PROVE Promise!PromiseNext
  BY <1>6, PromiseCommit DEF Promise!PromiseNext
<1> QED
  BY <1>1, <1>2, <1>3, <1>4, <1>5, <1>6, Invisible, PromiseFind, PromiseDropExpired
     DEF Next, Step

\* Every behaviour of the write path, seen through its completed rows and its
\* answers, is a behaviour of WritePromise.
THEOREM ImplementsPromise == Spec => KeepsPromise
BY PromiseInit, PromiseStep, Invariant, PTL DEF Spec, KeepsPromise, Promise!PromiseSpec

-----------------------------------------------------------------------------
(***************************************************************************)
(* The web client.                                                         *)
(*                                                                         *)
(* A write carries the CSRF token of the session whose user its tab shows, *)
(* and the API takes it only with the cookie of that session: so it is     *)
(* that user's, whatever the cookie was when the tab was opened.  And a    *)
(* change belongs to one tab, which gives it one key until it is done with *)
(* it: whoever has performed it is recorded under that key.                *)
(***************************************************************************)
\* What a tab may have under way, and what its form may hold.
TabCalls ==
  [op : Reads \union Logouts \union WriteOps \union {"login", "none"},
   stage : {"none", "sent", "answered", "arrived"}, cookie : Int, csrf : Int,
   user : Users \union {"none"}, intent : Nat, key : Nat, shown : Users \union {"none", "nobody"},
   status : {"none", "ok", "401", "csrf", "failed"}, session : Nat]
TabForms == [change : Nat, intent : Nat, key : Nat]

ClientTyped ==
  /\ holder \in Seq(Users) /\ live \subseteq Sessions /\ cookie \in Nat
  /\ view \in [Tabs -> Int] /\ call \in [Tabs -> [Slots -> TabCalls]]
  /\ form \in [Tabs -> TabForms] /\ changes \in Nat /\ keys \in Nat
  /\ performed \in Seq([user : Users, intent : Nat, shown : Users \union {"none", "nobody"}])

\* A session that an answer names has been opened; and a write carries the CSRF
\* token of one, whose user its tab has shown.
TabCallFits(s, c) ==
  /\ c.op \in Reads \union {"login"} /\ c.status = "ok" => c.session \in Sessions
  /\ c.op = "login" /\ c.stage = "sent" => c.user \in Users
  /\ c.op \in WriteOps /\ c.stage = "sent" =>
       c.csrf \in Sessions /\ c.shown = holder[c.csrf]
  /\ s = "write" /\ c.op # "none" => c.intent # 0
TabCallsFit == \A t \in Tabs, s \in Slots : TabCallFits(s, call[t][s])

\* The changes a tab still knows, and the keys it has given to those it has submitted.
Used(t) == {form[t].change, form[t].intent, call[t]["write"].intent} \ {0}
KeyGiven(t, x, k) ==
  x # 0 /\ \/ x = form[t].intent /\ k = form[t].key
           \/ x = call[t]["write"].intent /\ k = call[t]["write"].key

(* A change belongs to one tab, which submits it under one key; whoever    *)
(* has performed it is recorded under that key.  A change that is only     *)
(* typed has not been sent.                                                *)
ChangesHold ==
  /\ \A t \in Tabs : Used(t) \subseteq 1 .. changes
  /\ \A t, u \in Tabs : t # u => Used(t) \intersect Used(u) = {}
  /\ \A i \in DOMAIN performed : performed[i].intent \in 1 .. changes
  /\ \A t \in Tabs : form[t].change \notin {0, form[t].intent} =>
       /\ form[t].change # call[t]["write"].intent
       /\ \A i \in DOMAIN performed : performed[i].intent # form[t].change
  /\ \A t \in Tabs, x, j, k \in Nat : KeyGiven(t, x, j) /\ KeyGiven(t, x, k) => j = k
  /\ \A t \in Tabs, x, k \in Nat : KeyGiven(t, x, k) =>
       \A i \in DOMAIN performed : performed[i].intent = x => <<performed[i].user, k>> \in recorded

ClientInv ==
  ClientTyped /\ TabCallsFit /\ ChangesHold /\ WritesShowTheirUser /\ ChangesHappenOnce

LEMMA NoCallFits ==
  /\ NoCall \in TabCalls /\ NoCall.op = "none" /\ NoCall.stage = "none"
  /\ NoCall.intent = 0 /\ NoCall.key = 0 /\ NoCall.status = "none"
  /\ NoForm \in TabForms /\ NoForm.change = 0 /\ NoForm.intent = 0
BY DEF TabCalls, TabForms, NoCall, NoForm, Reads, Logouts, WriteOps

LEMMA ClientStarts == ClientInit => ClientInv
<1> SUFFICES ASSUME ClientInit PROVE ClientInv
  OBVIOUS
<1> DEFINE first == [NoCall EXCEPT !.op = "first", !.stage = "sent", !.cookie = 1]
<1>1. PICK u \in Users, t1 \in Writers :
        /\ holder = <<u>>
        /\ view = [t \in Tabs |-> IF t = t1 THEN 1 ELSE Checking]
        /\ call = [t \in Tabs |-> [s \in Slots |->
                    IF t # t1 /\ s = "check" THEN first ELSE NoCall]]
  BY DEF ClientInit
<1>2. /\ cookie = 1 /\ live = {1} /\ form = [t \in Tabs |-> NoForm]
      /\ changes = 0 /\ keys = 0 /\ performed = <<>>
  BY DEF ClientInit
<1>3. first \in TabCalls /\ first.op = "first" /\ first.status = "none" /\ first.intent = 0 /\ first.stage = "sent"
  <2> DEFINE named == [NoCall EXCEPT !.op = "first"]
             sending == [named EXCEPT !.stage = "sent"]
  <2>1. named \in TabCalls /\ named.op = "first" /\ named.status = "none" /\ named.intent = 0
    BY NoCallFits DEF TabCalls, Reads
  <2> HIDE DEF named
  <2>2. /\ sending \in TabCalls /\ sending.op = "first" /\ sending.status = "none" /\ sending.intent = 0
        /\ sending.stage = "sent"
    BY <2>1 DEF TabCalls
  <2> HIDE DEF sending
  <2>3. LET r == [sending EXCEPT !.cookie = 1]
        IN  r \in TabCalls /\ r.op = "first" /\ r.status = "none" /\ r.intent = 0 /\ r.stage = "sent"
    BY <2>2 DEF TabCalls
  <2> QED
    BY <2>3 DEF named, sending
<1> HIDE DEF first
<1>4. \A t \in Tabs, s \in Slots :
        call[t][s] = NoCall \/ (call[t][s] = first /\ s = "check")
  BY <1>1
<1>5. ClientTyped
  <2>1. holder \in Seq(Users) /\ Sessions = 1 .. 1
    BY <1>1 DEF Sessions
  <2>2. view \in [Tabs -> Int]
    BY <1>1 DEF Checking
  <2>3. call \in [Tabs -> [Slots -> TabCalls]]
    BY <1>1, <1>3, NoCallFits
  <2> QED
    BY <1>2, <2>1, <2>2, <2>3, NoCallFits DEF ClientTyped
<1>6. TabCallsFit
  BY <1>3, <1>4, NoCallFits DEF TabCallsFit, TabCallFits, WriteOps
<1>7. \A t \in Tabs : form[t] = NoForm /\ call[t]["write"] = NoCall
  BY <1>2, <1>4 DEF Slots
<1>8. ChangesHold
  BY <1>2, <1>7, NoCallFits DEF ChangesHold, Used, KeyGiven
<1>9. WritesShowTheirUser /\ ChangesHappenOnce
  BY <1>2 DEF WritesShowTheirUser, Performed, ChangesHappenOnce
<1> QED
  BY <1>5, <1>6, <1>8, <1>9 DEF ClientInv

\* Sending a call.
LEMMA TabSends ==
  ASSUME ClientTyped, NEW t \in Tabs, NEW s \in Slots, NEW c \in TabCalls, Sends(t, s, c)
  PROVE  \E new \in TabCalls :
           /\ call' = [call EXCEPT ![t][s] = new]
           /\ new.op = c.op /\ new.csrf = c.csrf /\ new.user = c.user /\ new.intent = c.intent
           /\ new.key = c.key /\ new.shown = c.shown /\ new.stage = "sent" /\ new.status = "none"
<1> DEFINE new == [c EXCEPT !.stage = "sent", !.cookie = cookie, !.status = "none", !.session = 0]
<1>1. cookie \in Int
  BY DEF ClientTyped
<1>2. /\ new \in TabCalls /\ new.op = c.op /\ new.csrf = c.csrf /\ new.user = c.user /\ new.intent = c.intent
      /\ new.key = c.key /\ new.shown = c.shown /\ new.stage = "sent" /\ new.status = "none"
  BY <1>1 DEF TabCalls
<1>3. call' = [call EXCEPT ![t][s] = new]
  BY DEF Sends
<1> QED
  BY <1>2, <1>3

\* Answering one.
LEMMA TabAnswers ==
  ASSUME ClientTyped, NEW t \in Tabs, NEW s \in Slots, NEW status \in {"ok", "401", "csrf"},
         NEW session \in Nat, Answers(t, s, status, session)
  PROVE  \E new \in TabCalls :
           /\ call' = [call EXCEPT ![t][s] = new]
           /\ new.op = call[t][s].op /\ new.intent = call[t][s].intent /\ new.key = call[t][s].key
           /\ new.stage = "answered" /\ new.status = status /\ new.session = session
<1> DEFINE c == call[t][s]
           mark == IF status = "401" /\ c.cookie # 0 THEN 1 ELSE 0
           new == [c EXCEPT !.stage = "answered", !.status = status, !.session = session, !.csrf = 0,
                            !.user = "none", !.cookie = mark]
<1>1. c \in TabCalls /\ mark \in {0, 1}
  BY DEF ClientTyped
<1>2. call' = [call EXCEPT ![t][s] = new]
  BY DEF Answers
<1> HIDE DEF c, mark
<1>3. /\ new.op = c.op /\ new.intent = c.intent /\ new.key = c.key
      /\ new.stage = "answered" /\ new.status = status /\ new.session = session
  BY <1>1 DEF TabCalls
<1>4. new \in TabCalls
  <2> DEFINE first == [c EXCEPT !.stage = "answered", !.status = status, !.session = session]
             second == [first EXCEPT !.csrf = 0]
             third == [second EXCEPT !.user = "none"]
  <2>1. first \in TabCalls
    BY <1>1 DEF TabCalls
  <2> HIDE DEF first
  <2>2. second \in TabCalls
    BY <2>1 DEF TabCalls
  <2> HIDE DEF second
  <2>3. third \in TabCalls
    BY <2>2 DEF TabCalls
  <2> HIDE DEF third
  <2>4. [third EXCEPT !.cookie = mark] \in TabCalls
    BY <1>1, <2>3 DEF TabCalls
  <2> QED
    BY <2>4 DEF first, second, third
<1> HIDE DEF new
<1> QED
  BY <1>2, <1>3, <1>4 DEF c

\* One call of one tab has changed.
LEMMA OneCall ==
  ASSUME ClientTyped, NEW t \in Tabs, NEW s \in Slots, NEW new \in TabCalls,
         call' = [call EXCEPT ![t][s] = new]
  PROVE  /\ call' \in [Tabs -> [Slots -> TabCalls]]
         /\ \A v \in Tabs, r \in Slots :
              call'[v][r] = IF v = t /\ r = s THEN new ELSE call[v][r]
BY DEF ClientTyped

\* More sessions take nothing away.
LEMMA MoreSessions ==
  ASSUME ClientTyped, holder' = holder \/ \E u \in Users : holder' = Append(holder, u)
  PROVE  /\ holder' \in Seq(Users) /\ Sessions \subseteq Sessions'
         /\ \A i \in Sessions : holder'[i] = holder[i]
         /\ \A i \in Sessions' : i \in Sessions \/ i = Len(holder) + 1
<1>1. CASE holder' = holder
  BY <1>1 DEF ClientTyped, Sessions
<1>2. CASE \E u \in Users : holder' = Append(holder, u)
  <2>1. PICK u \in Users : holder' = Append(holder, u)
    BY <1>2
  <2>2. holder \in Seq(Users) /\ Len(holder) \in Nat
    BY DEF ClientTyped
  <2>3. /\ holder' \in Seq(Users) /\ Len(holder') = Len(holder) + 1
        /\ \A i \in 1 .. Len(holder) : holder'[i] = holder[i]
    BY <2>1, <2>2
  <2> QED
    BY <2>2, <2>3 DEF Sessions
<1> QED
  BY <1>1, <1>2

\* Forgetting a form or a call leaves the rest of what the tabs know as it was.
LEMMA ChangesForgotten ==
  ASSUME ChangesHold, UNCHANGED <<changes, recorded, performed>>,
         \A v \in Tabs : form'[v] = form[v] \/ form'[v] = NoForm,
         \A v \in Tabs : \/ call'[v]["write"].intent = 0
                         \/ /\ call'[v]["write"].intent = call[v]["write"].intent
                            /\ call'[v]["write"].key = call[v]["write"].key
  PROVE  ChangesHold'
<1>1. NoForm.change = 0 /\ NoForm.intent = 0
  BY NoCallFits
<1>2. ASSUME NEW t \in Tabs
      PROVE  /\ Used(t)' \subseteq Used(t)
             /\ \A x, k : KeyGiven(t, x, k)' => KeyGiven(t, x, k)
             /\ form'[t].change \notin {0, form'[t].intent} =>
                  /\ form'[t] = form[t]
                  /\ call'[t]["write"].intent \in {0, call[t]["write"].intent}
  BY <1>1 DEF Used, KeyGiven
<1>3. /\ \A t \in Tabs : Used(t)' \subseteq 1 .. changes
      /\ \A t, u \in Tabs : t # u => Used(t)' \intersect Used(u)' = {}
  BY <1>2 DEF ChangesHold
<1>4. /\ \A t \in Tabs, x, j, k \in Nat : KeyGiven(t, x, j)' /\ KeyGiven(t, x, k)' => j = k
      /\ \A t \in Tabs, x, k \in Nat : KeyGiven(t, x, k)' =>
           \A i \in DOMAIN performed : performed[i].intent = x => <<performed[i].user, k>> \in recorded
  BY <1>2 DEF ChangesHold
<1>5. \A t \in Tabs : form'[t].change \notin {0, form'[t].intent} =>
        /\ form'[t].change # call'[t]["write"].intent
        /\ \A i \in DOMAIN performed : performed[i].intent # form'[t].change
  BY <1>2 DEF ChangesHold
<1> QED
  BY <1>3, <1>4, <1>5 DEF ChangesHold

\* One call has moved on as it should: so have the calls.
LEMMA CallsStillFit ==
  ASSUME ClientTyped, TabCallsFit, holder' = holder \/ \E u \in Users : holder' = Append(holder, u),
         NEW t \in Tabs, NEW s \in Slots, NEW new \in TabCalls,
         call' = [call EXCEPT ![t][s] = new],
         new.op \in Reads \union {"login"} /\ new.status = "ok" => new.session \in Sessions',
         new.op = "login" /\ new.stage = "sent" => new.user \in Users,
         new.op \in WriteOps /\ new.stage = "sent" =>
           new.csrf \in Sessions /\ new.shown = holder[new.csrf],
         s = "write" /\ new.op # "none" => new.intent # 0
  PROVE  /\ TabCallsFit' /\ holder' \in Seq(Users) /\ Sessions \subseteq Sessions'
         /\ call' \in [Tabs -> [Slots -> TabCalls]]
         /\ \A v \in Tabs, r \in Slots :
              call'[v][r] = IF v = t /\ r = s THEN new ELSE call[v][r]
<1>1. /\ holder' \in Seq(Users) /\ Sessions \subseteq Sessions'
      /\ \A i \in Sessions : holder'[i] = holder[i]
  BY MoreSessions
<1>2. /\ call' \in [Tabs -> [Slots -> TabCalls]]
      /\ \A v \in Tabs, r \in Slots :
           call'[v][r] = IF v = t /\ r = s THEN new ELSE call[v][r]
  <2>1. call' \in [Tabs -> [Slots -> TabCalls]]
    BY OneCall
  <2>2. \A v \in Tabs, r \in Slots :
          call'[v][r] = IF v = t /\ r = s THEN new ELSE call[v][r]
    BY DEF ClientTyped
  <2> QED
    BY <2>1, <2>2
<1>3. TabCallsFit'
  <2> SUFFICES ASSUME NEW v \in Tabs, NEW r \in Slots PROVE TabCallFits(r, call[v][r])'
    BY DEF TabCallsFit
  <2>1. CASE v = t /\ r = s
    <3>1. new.op \in WriteOps /\ new.stage = "sent" =>
            new.csrf \in Sessions' /\ new.shown = holder'[new.csrf]
      BY <1>1
    <3> QED
      BY <1>2, <2>1, <3>1 DEF TabCallFits, Reads, WriteOps
  <2>2. CASE ~(v = t /\ r = s)
    <3> DEFINE c == call[v][r]
    <3>1. call'[v][r] = c
      BY <1>2, <2>2
    <3>2. TabCallFits(r, c)
      BY DEF TabCallsFit
    <3> HIDE DEF c
    <3> QED
      BY <1>1, <3>1, <3>2 DEF TabCallFits, Reads, WriteOps
  <2> QED
    BY <2>1, <2>2
<1> QED
  BY <1>1, <1>2, <1>3

\* A step that moves one call, without a change of its own.
LEMMA CallMoves ==
  ASSUME ClientInv, holder' = holder \/ \E u \in Users : holder' = Append(holder, u),
         live' \subseteq Sessions', cookie' \in Nat, view' \in [Tabs -> Int], keys' \in Nat,
         NEW t \in Tabs, NEW s \in Slots, NEW new \in TabCalls,
         call' = [call EXCEPT ![t][s] = new],
         new.op \in Reads \union {"login"} /\ new.status = "ok" => new.session \in Sessions',
         new.op = "login" /\ new.stage = "sent" => new.user \in Users,
         new.op \in WriteOps /\ new.stage = "sent" =>
           new.csrf \in Sessions /\ new.shown = holder[new.csrf],
         s = "write" => \/ new.op = "none" /\ new.intent = 0
                        \/ /\ new.op # "none" => call[t][s].op # "none"
                           /\ new.intent = call[t][s].intent /\ new.key = call[t][s].key,
         form' \in [Tabs -> TabForms], \A v \in Tabs : form'[v] = form[v] \/ form'[v] = NoForm,
         UNCHANGED <<changes, recorded, performed>>
  PROVE  ClientInv'
<1>1. ClientTyped /\ TabCallsFit /\ ChangesHold /\ WritesShowTheirUser /\ ChangesHappenOnce
  BY DEF ClientInv
<1>2. s = "write" /\ new.op # "none" => new.intent # 0
  BY <1>1 DEF TabCallsFit, TabCallFits
<1>3. /\ TabCallsFit' /\ holder' \in Seq(Users) /\ Sessions \subseteq Sessions'
      /\ call' \in [Tabs -> [Slots -> TabCalls]]
      /\ \A v \in Tabs, r \in Slots :
           call'[v][r] = IF v = t /\ r = s THEN new ELSE call[v][r]
  <2>1. TabCallsFit' /\ holder' \in Seq(Users) /\ Sessions \subseteq Sessions'
    BY <1>1, <1>2, CallsStillFit
  <2>2. call' \in [Tabs -> [Slots -> TabCalls]]
    BY <1>1, <1>2, CallsStillFit
  <2>3. \A v \in Tabs, r \in Slots :
          call'[v][r] = IF v = t /\ r = s THEN new ELSE call[v][r]
    BY <1>1, <1>2, CallsStillFit
  <2> QED
    BY <2>1, <2>2, <2>3
<1>4. ClientTyped'
  BY <1>1, <1>3 DEF ClientTyped
<1>5. ChangesHold'
  <2>1. \A v \in Tabs : \/ call'[v]["write"].intent = 0
                        \/ /\ call'[v]["write"].intent = call[v]["write"].intent
                           /\ call'[v]["write"].key = call[v]["write"].key
    <3>1. "write" \in Slots
      BY DEF Slots
    <3> QED
      BY <1>3, <3>1
  <2> QED
    BY <1>1, <2>1, ChangesForgotten
<1>6. WritesShowTheirUser' /\ ChangesHappenOnce'
  BY <1>1 DEF WritesShowTheirUser, Performed, ChangesHappenOnce
<1> QED
  BY <1>3, <1>4, <1>5, <1>6 DEF ClientInv

\* What a tab shows, and that it forgets its form when it is signed out.
LEMMA TabShows ==
  ASSUME ClientTyped, NEW t \in Tabs, NEW v \in Int, Shows(t, v) \/ Keeps
  PROVE  /\ view' \in [Tabs -> Int] /\ form' \in [Tabs -> TabForms]
         /\ \A u \in Tabs : form'[u] = form[u] \/ form'[u] = NoForm
         /\ Shows(t, v) => view'[t] = v
<1>1. CASE Shows(t, v)
  <2>1. view' = [view EXCEPT ![t] = v] /\ view \in [Tabs -> Int] /\ form \in [Tabs -> TabForms]
    BY <1>1 DEF Shows, ClientTyped
  <2>2. form' = [form EXCEPT ![t] = IF v = SignedOut THEN NoForm ELSE form[t]]
    BY <1>1 DEF Shows
  <2>3. form' = [form EXCEPT ![t] = NoForm] \/ form' = form
    BY <2>1, <2>2
  <2>4. /\ form' \in [Tabs -> TabForms]
        /\ \A u \in Tabs : form'[u] = form[u] \/ form'[u] = NoForm
    BY <2>1, <2>3, NoCallFits
  <2> QED
    BY <2>1, <2>4
<1>2. CASE Keeps /\ ~Shows(t, v)
  BY <1>2 DEF Keeps, ClientTyped
<1> QED
  BY <1>1, <1>2

\* A call that is over.
LEMMA CallSettles ==
  ASSUME ClientInv, NEW t \in Tabs, NEW s \in Slots, NEW v \in Int, Settles(t, s),
         Shows(t, v) \/ Keeps,
         UNCHANGED <<cookie, holder, live, changes, keys, recorded, performed>>
  PROVE  ClientInv'
<1>1. ClientTyped
  BY DEF ClientInv
<1>2. call' = [call EXCEPT ![t][s] = NoCall]
  BY DEF Settles
<1>3. PICK new \in TabCalls : new = NoCall /\ call' = [call EXCEPT ![t][s] = new]
  BY <1>2, NoCallFits
<1>4. new.op = "none" /\ new.intent = 0
  BY <1>3, NoCallFits
<1>5. /\ view' \in [Tabs -> Int] /\ form' \in [Tabs -> TabForms]
      /\ \A u \in Tabs : form'[u] = form[u] \/ form'[u] = NoForm
  BY <1>1, TabShows
<1>6. live' \subseteq Sessions' /\ cookie' \in Nat /\ keys' \in Nat
  BY <1>1 DEF ClientTyped, Sessions
<1> QED
  BY <1>3, <1>4, <1>5, <1>6, CallMoves DEF Reads, WriteOps

\* A call that is sent.
LEMMA CallSent ==
  ASSUME ClientInv, NEW t \in Tabs, NEW s \in Slots, NEW c \in TabCalls, Sends(t, s, c),
         NEW v \in Int, Shows(t, v) \/ Keeps,
         c.op = "login" => c.user \in Users,
         c.op \in WriteOps => c.csrf \in Sessions /\ c.shown = holder[c.csrf],
         s = "write" => /\ c.op # "none" => call[t][s].op # "none"
                        /\ c.intent = call[t][s].intent /\ c.key = call[t][s].key,
         UNCHANGED <<cookie, holder, live, changes, keys, recorded, performed>>
  PROVE  ClientInv'
<1>1. ClientTyped
  BY DEF ClientInv
<1>2. PICK new \in TabCalls :
        /\ call' = [call EXCEPT ![t][s] = new]
        /\ new.op = c.op /\ new.csrf = c.csrf /\ new.user = c.user /\ new.intent = c.intent
        /\ new.key = c.key /\ new.shown = c.shown /\ new.stage = "sent" /\ new.status = "none"
  BY <1>1, TabSends
<1>3. /\ view' \in [Tabs -> Int] /\ form' \in [Tabs -> TabForms]
      /\ \A u \in Tabs : form'[u] = form[u] \/ form'[u] = NoForm
  BY <1>1, TabShows
<1>4. live' \subseteq Sessions' /\ cookie' \in Nat /\ keys' \in Nat
  BY <1>1 DEF ClientTyped, Sessions
<1> QED
  BY <1>2, <1>3, <1>4, CallMoves

\* A call that is answered; a session may have been opened, or have ended.
LEMMA CallAnswered ==
  ASSUME ClientInv, NEW t \in Tabs, NEW s \in Slots, NEW status \in {"ok", "401", "csrf"},
         NEW session \in Nat, Answers(t, s, status, session),
         call[t][s].op \in Reads \union {"login"} /\ status = "ok" => session \in Sessions',
         holder' = holder \/ \E u \in Users : holder' = Append(holder, u),
         live' \subseteq Sessions',
         UNCHANGED <<cookie, view, form, changes, keys, recorded, performed>>
  PROVE  ClientInv'
<1>1. ClientTyped
  BY DEF ClientInv
<1>2. PICK new \in TabCalls :
        /\ call' = [call EXCEPT ![t][s] = new]
        /\ new.op = call[t][s].op /\ new.intent = call[t][s].intent /\ new.key = call[t][s].key
        /\ new.stage = "answered" /\ new.status = status /\ new.session = session
  BY <1>1, TabAnswers
<1>3. /\ view' \in [Tabs -> Int] /\ form' \in [Tabs -> TabForms] /\ cookie' \in Nat /\ keys' \in Nat
      /\ \A u \in Tabs : form'[u] = form[u] \/ form'[u] = NoForm
  BY <1>1 DEF ClientTyped
<1> QED
  BY <1>2, <1>3, CallMoves

LEMMA TabServeLoginKeeps == ASSUME ClientInv, NEW t \in Tabs, ServeLogin(t) PROVE ClientInv'
<1> DEFINE c == call[t]["sign"]
<1>1. /\ c.op = "login" /\ c.stage = "sent" /\ holder' = Append(holder, c.user)
      /\ live' = (live \ {c.cookie}) \union {Len(holder) + 1}
      /\ Answers(t, "sign", "ok", Len(holder) + 1)
      /\ UNCHANGED <<cookie, view, form, changes, keys, recorded, performed>>
  BY DEF ServeLogin
<1>2. ClientTyped /\ "sign" \in Slots /\ holder \in Seq(Users) /\ Len(holder) \in Nat
  BY DEF ClientInv, ClientTyped, Slots
<1>3. c.user \in Users
  BY <1>1, <1>2 DEF ClientInv, TabCallsFit, TabCallFits
<1>4. Len(holder') = Len(holder) + 1
  BY <1>1, <1>2, <1>3
<1>5. Len(holder) + 1 \in Sessions' /\ Sessions \subseteq Sessions'
  BY <1>2, <1>4 DEF Sessions
<1>6. live' \subseteq Sessions'
  BY <1>1, <1>2, <1>5 DEF ClientTyped
<1> QED
  BY <1>1, <1>2, <1>3, <1>5, <1>6, CallAnswered

LEMMA UnguardedKeeps ==
  ASSUME ClientInv, NEW t \in Tabs, NEW s \in Slots, Unguarded(t, s) PROVE ClientInv'
<1>1. PICK status \in {"401", "csrf"} : Answers(t, s, status, 0)
  BY DEF Unguarded
<1>2. UNCHANGED <<cookie, holder, live, view, form, changes, keys, recorded, performed>>
  BY DEF Unguarded
<1>3. live' \subseteq Sessions'
  BY <1>2 DEF ClientInv, ClientTyped, Sessions
<1> QED
  BY <1>1, <1>2, <1>3, CallAnswered

LEMMA ServeSessionKeeps ==
  ASSUME ClientInv, NEW t \in Tabs, NEW s \in Slots, ServeSession(t, s) PROVE ClientInv'
<1>1. /\ Answers(t, s, "ok", call[t][s].cookie) /\ call[t][s].cookie \in live
      /\ UNCHANGED <<cookie, holder, live, view, form, changes, keys, recorded, performed>>
  BY DEF ServeSession, Guarded, Valid
<1>2. /\ live \subseteq Sessions /\ Sessions' = Sessions
      /\ Sessions \subseteq Nat
  BY <1>1 DEF ClientInv, ClientTyped, Sessions
<1> QED
  BY <1>1, <1>2, CallAnswered

LEMMA ServeLogoutKeeps == ASSUME ClientInv, NEW t \in Tabs, ServeLogout(t) PROVE ClientInv'
<1>1. /\ call[t]["sign"].op \in Logouts /\ Answers(t, "sign", "ok", 0) /\ live' \subseteq live
      /\ UNCHANGED <<cookie, holder, view, form, changes, keys, recorded, performed>>
  BY DEF ServeLogout
<1>2. live' \subseteq Sessions' /\ "sign" \in Slots
  BY <1>1 DEF ClientInv, ClientTyped, Sessions, Slots
<1>3. call[t]["sign"].op \notin Reads \union {"login"}
  BY <1>1 DEF Reads, Logouts
<1> QED
  BY <1>1, <1>2, <1>3, CallAnswered

LEMMA FailsKeeps ==
  ASSUME ClientInv, NEW t \in Tabs, NEW s \in Slots, Fails(t, s) PROVE ClientInv'
<1> DEFINE c == call[t][s]
           new == [c EXCEPT !.stage = "arrived", !.status = "failed", !.session = 0, !.csrf = 0,
                            !.user = "none", !.cookie = 0]
<1>1. /\ call' = [call EXCEPT ![t][s] = new]
      /\ UNCHANGED <<cookie, holder, live, view, form, changes, keys, recorded, performed>>
  BY DEF Fails
<1>2. ClientTyped /\ c \in TabCalls
  BY DEF ClientInv, ClientTyped
<1>3. /\ view' \in [Tabs -> Int] /\ form' \in [Tabs -> TabForms] /\ cookie' \in Nat /\ keys' \in Nat
      /\ live' \subseteq Sessions'
  BY <1>1, <1>2 DEF ClientTyped, Sessions
<1> HIDE DEF c
<1>4. /\ new.op = c.op /\ new.intent = c.intent /\ new.key = c.key
      /\ new.stage = "arrived" /\ new.status = "failed"
  BY <1>2 DEF TabCalls
<1>5. new \in TabCalls
  <2> DEFINE first == [c EXCEPT !.stage = "arrived", !.status = "failed", !.session = 0]
             second == [first EXCEPT !.csrf = 0]
             third == [second EXCEPT !.user = "none"]
  <2>1. first \in TabCalls
    BY <1>2 DEF TabCalls
  <2> HIDE DEF first
  <2>2. second \in TabCalls
    BY <2>1 DEF TabCalls
  <2> HIDE DEF second
  <2>3. third \in TabCalls
    BY <2>2 DEF TabCalls
  <2> HIDE DEF third
  <2>4. [third EXCEPT !.cookie = 0] \in TabCalls
    BY <2>3 DEF TabCalls
  <2> QED
    BY <2>4 DEF first, second, third
<1> HIDE DEF new
<1>6. PICK n \in TabCalls : n = new
  BY <1>5
<1> QED
  BY <1>1, <1>3, <1>4, <1>6, CallMoves DEF c

LEMMA ArriveKeeps ==
  ASSUME ClientInv, NEW t \in Tabs, NEW s \in Slots, Arrive(t, s) PROVE ClientInv'
<1> DEFINE c == call[t][s]
           new == [c EXCEPT !.stage = "arrived", !.cookie = 0]
<1>1. /\ call' = [call EXCEPT ![t][s] = new] /\ cookie' = c.session
      /\ UNCHANGED <<holder, live, view, form, changes, keys, recorded, performed>>
  BY DEF Arrive
<1>2. ClientTyped /\ c \in TabCalls /\ TabCallFits(s, c)
  BY DEF ClientInv, ClientTyped, TabCallsFit
<1> HIDE DEF c
<1>3. /\ view' \in [Tabs -> Int] /\ form' \in [Tabs -> TabForms] /\ cookie' \in Nat /\ keys' \in Nat
      /\ live' \subseteq Sessions' /\ Sessions' = Sessions
  BY <1>1, <1>2 DEF ClientTyped, Sessions, TabCalls
<1>4. /\ new.op = c.op /\ new.intent = c.intent /\ new.key = c.key
      /\ new.stage = "arrived" /\ new.status = c.status /\ new.session = c.session
  BY <1>2 DEF TabCalls
<1>5. new \in TabCalls
  <2> DEFINE first == [c EXCEPT !.stage = "arrived"]
  <2>1. first \in TabCalls
    BY <1>2 DEF TabCalls
  <2> HIDE DEF first
  <2>2. [first EXCEPT !.cookie = 0] \in TabCalls
    BY <2>1 DEF TabCalls
  <2> QED
    BY <2>2 DEF first
<1> HIDE DEF new
<1>6. PICK n \in TabCalls : n = new
  BY <1>5
<1>7. c.op \in Reads \union {"login"} /\ c.status = "ok" => c.session \in Sessions'
  BY <1>2, <1>3 DEF TabCallFits
<1> QED
  BY <1>1, <1>3, <1>4, <1>6, <1>7, CallMoves DEF c

\* What has arrived can be shown.
LEMMA ShownIsInt ==
  ASSUME ClientTyped, NEW t \in Tabs, NEW s \in Slots
  PROVE  call[t][s] \in TabCalls /\ call[t][s].session \in Int /\ SignedOut \in Int
BY DEF ClientTyped, TabCalls, SignedOut

LEMMA FirstCheckKeeps == ASSUME ClientInv, NEW t \in Tabs, FirstCheck(t) PROVE ClientInv'
<1>1. ClientTyped /\ "check" \in Slots
  BY DEF ClientInv, Slots
<1>2. PICK v \in Int : Shows(t, v)
  BY <1>1, ShownIsInt DEF FirstCheck
<1>3. /\ Settles(t, "check")
      /\ UNCHANGED <<cookie, holder, live, changes, keys, recorded, performed>>
  BY DEF FirstCheck
<1> QED
  BY <1>1, <1>2, <1>3, CallSettles

LEMMA RevalidateKeeps == ASSUME ClientInv, NEW t \in Tabs, Revalidate(t) PROVE ClientInv'
<1> DEFINE c == [NoCall EXCEPT !.op = "revalidate"]
<1>1. /\ Sends(t, "check", c) /\ Keeps
      /\ UNCHANGED <<cookie, holder, live, changes, keys, recorded, performed>>
  BY DEF Revalidate, Keeps
<1>2. c \in TabCalls /\ c.op = "revalidate"
  BY NoCallFits DEF TabCalls, Reads
<1> HIDE DEF c
<1>3. PICK n \in TabCalls : n = c
  BY <1>2
<1>4. c.op \notin WriteOps /\ "check" \in Slots /\ 0 \in Int
  BY <1>2 DEF WriteOps, Slots
<1> QED
  BY <1>1, <1>2, <1>3, <1>4, CallSent

LEMMA RevalidatedKeeps == ASSUME ClientInv, NEW t \in Tabs, Revalidated(t) PROVE ClientInv'
<1>1. ClientTyped /\ "check" \in Slots
  BY DEF ClientInv, Slots
<1>2. PICK v \in Int : Shows(t, v) \/ Keeps
  BY <1>1, ShownIsInt DEF Revalidated
<1>3. /\ Settles(t, "check")
      /\ UNCHANGED <<cookie, holder, live, changes, keys, recorded, performed>>
  BY DEF Revalidated
<1> QED
  BY <1>1, <1>2, <1>3, CallSettles

LEMMA TabLoginKeeps == ASSUME ClientInv, NEW t \in Tabs, Login(t) PROVE ClientInv'
<1>1. PICK u \in Users : Sends(t, "sign", [NoCall EXCEPT !.op = "login", !.user = u])
  BY DEF Login
<1> DEFINE c == [NoCall EXCEPT !.op = "login", !.user = u]
<1>2. Keeps /\ UNCHANGED <<cookie, holder, live, changes, keys, recorded, performed>>
  BY DEF Login, Keeps
<1>3. c \in TabCalls /\ c.op = "login" /\ c.user = u
  <2> DEFINE named == [NoCall EXCEPT !.op = "login"]
  <2>1. named \in TabCalls /\ named.op = "login"
    BY NoCallFits DEF TabCalls
  <2> HIDE DEF named
  <2>2. LET r == [named EXCEPT !.user = u] IN r \in TabCalls /\ r.op = "login" /\ r.user = u
    BY <2>1 DEF TabCalls
  <2> QED
    BY <2>2 DEF named
<1>4. Sends(t, "sign", c)
  BY <1>1
<1> HIDE DEF c
<1>5. PICK n \in TabCalls : n = c
  BY <1>3
<1>6. c.op \notin WriteOps /\ "sign" \in Slots /\ 0 \in Int
  BY <1>3 DEF WriteOps, Slots
<1> QED
  BY <1>2, <1>3, <1>4, <1>5, <1>6, CallSent

LEMMA LoggedInKeeps == ASSUME ClientInv, NEW t \in Tabs, LoggedIn(t) PROVE ClientInv'
<1>1. ClientTyped /\ "sign" \in Slots
  BY DEF ClientInv, Slots
<1>2. PICK v \in Int : Shows(t, v) \/ Keeps
  BY <1>1, ShownIsInt DEF LoggedIn
<1>3. /\ Settles(t, "sign")
      /\ UNCHANGED <<cookie, holder, live, changes, keys, recorded, performed>>
  BY DEF LoggedIn
<1> QED
  BY <1>1, <1>2, <1>3, CallSettles

LEMMA LogoutKeeps == ASSUME ClientInv, NEW t \in Tabs, Logout(t) PROVE ClientInv'
<1> DEFINE named == [NoCall EXCEPT !.op = "logout"]
           c == [named EXCEPT !.csrf = view[t]]
<1>1. /\ Sends(t, "sign", c) /\ Keeps
      /\ UNCHANGED <<cookie, holder, live, changes, keys, recorded, performed>>
  BY DEF Logout, Keeps
<1>2. named \in TabCalls /\ named.op = "logout"
  BY NoCallFits DEF TabCalls, Logouts
<1>3. view[t] \in Int
  BY DEF ClientInv, ClientTyped
<1> HIDE DEF named
<1>4. c \in TabCalls /\ c.op = "logout"
  BY <1>2, <1>3 DEF TabCalls
<1> HIDE DEF c
<1>5. PICK n \in TabCalls : n = c
  BY <1>4
<1>6. c.op \notin WriteOps \union {"login"} /\ "sign" \in Slots /\ 0 \in Int
  BY <1>4 DEF WriteOps, Slots
<1> QED
  BY <1>1, <1>4, <1>5, <1>6, CallSent

LEMMA LoggedOutKeeps == ASSUME ClientInv, NEW t \in Tabs, LoggedOut(t) PROVE ClientInv'
<1>1. ClientTyped /\ "sign" \in Slots /\ UNCHANGED <<cookie, holder, live, changes, keys, recorded, performed>>
  BY DEF ClientInv, Slots, LoggedOut
<1>2. CASE Sends(t, "sign", [NoCall EXCEPT !.op = "logoutFresh"]) /\ Keeps
  <2> DEFINE c == [NoCall EXCEPT !.op = "logoutFresh"]
  <2>1. c \in TabCalls /\ c.op = "logoutFresh"
    BY NoCallFits DEF TabCalls, Reads
  <2>2. Sends(t, "sign", c)
    BY <1>2
  <2> HIDE DEF c
  <2>3. PICK n \in TabCalls : n = c
    BY <2>1
  <2>4. c.op \notin WriteOps \union {"login"} /\ 0 \in Int
    BY <2>1 DEF WriteOps
  <2> QED
    BY <1>1, <1>2, <2>1, <2>2, <2>3, <2>4, CallSent
<1>3. CASE Settles(t, "sign") /\ (Shows(t, SignedOut) \/ Keeps)
  BY <1>1, <1>3, ShownIsInt, CallSettles
<1> QED
  BY <1>2, <1>3 DEF LoggedOut

LEMMA LogoutRefreshedKeeps == ASSUME ClientInv, NEW t \in Tabs, LogoutRefreshed(t) PROVE ClientInv'
<1> DEFINE session == call[t]["sign"].session
<1>1. ClientTyped /\ "sign" \in Slots /\ UNCHANGED <<cookie, holder, live, changes, keys, recorded, performed>>
  BY DEF ClientInv, Slots, LogoutRefreshed
<1>2. CASE Sends(t, "sign", [NoCall EXCEPT !.op = "logoutRetry", !.csrf = session])
           /\ Keeps
  <2> DEFINE named == [NoCall EXCEPT !.op = "logoutRetry"]
             c == [named EXCEPT !.csrf = session]
  <2>1. named \in TabCalls /\ named.op = "logoutRetry"
    BY NoCallFits DEF TabCalls, Logouts
  <2>2. Sends(t, "sign", c)
    BY <1>2
  <2>3. session \in Int
    BY <1>1, ShownIsInt
  <2> HIDE DEF named, session
  <2>4. c \in TabCalls /\ c.op = "logoutRetry"
    BY <2>1, <2>3 DEF TabCalls
  <2> HIDE DEF c
  <2>5. PICK n \in TabCalls : n = c
    BY <2>4
  <2>6. c.op \notin WriteOps \union {"login"} /\ 0 \in Int
    BY <2>4 DEF WriteOps
  <2> QED
    BY <1>1, <1>2, <2>2, <2>4, <2>5, <2>6, CallSent
<1>3. CASE Settles(t, "sign") /\ (Shows(t, SignedOut) \/ Keeps)
  BY <1>1, <1>3, ShownIsInt, CallSettles
<1> QED
  BY <1>2, <1>3 DEF LogoutRefreshed

LEMMA WrittenKeeps == ASSUME ClientInv, NEW t \in Tabs, Written(t) PROVE ClientInv'
<1> DEFINE c == call[t]["write"]
<1>1. /\ ClientTyped /\ "write" \in Slots /\ c \in TabCalls /\ c.op \in WriteOps
      /\ UNCHANGED <<cookie, holder, live, changes, keys, recorded, performed>>
  BY DEF ClientInv, ClientTyped, Slots, Written
<1>2. CASE Sends(t, "write", [c EXCEPT !.op = "fresh"]) /\ Keeps
  <2> DEFINE d == [c EXCEPT !.op = "fresh"]
  <2>1. Sends(t, "write", d)
    BY <1>2
  <2>2. d \in TabCalls /\ d.op = "fresh" /\ d.intent = c.intent /\ d.key = c.key
    <3> HIDE DEF c
    <3> QED
      BY <1>1 DEF TabCalls, Reads
  <2>3. c.op # "none" /\ d.op \notin WriteOps \union {"login"} /\ 0 \in Int
    BY <1>1, <2>2 DEF WriteOps
  <2> HIDE DEF d
  <2>4. PICK n \in TabCalls : n = d
    BY <2>2
  <2> QED
    BY <1>1, <1>2, <2>1, <2>2, <2>3, <2>4, CallSent
<1>3. CASE Settles(t, "write") /\ (Shows(t, SignedOut) \/ Keeps)
  BY <1>1, <1>3, ShownIsInt, CallSettles
<1>4. CASE /\ Settles(t, "write") /\ UNCHANGED view
           /\ form' = [form EXCEPT ![t] = IF form[t].key = c.key THEN NoForm ELSE form[t]]
  <2>1. CASE form[t].key = c.key
    <3>1. PICK new \in TabCalls : new = NoCall
      BY NoCallFits
    <3>2. call' = [call EXCEPT ![t]["write"] = new] /\ new.op = "none" /\ new.intent = 0
      BY <1>4, <3>1, NoCallFits DEF Settles
    <3>3. form \in [Tabs -> TabForms] /\ form' = [form EXCEPT ![t] = NoForm]
      BY <1>1, <1>4, <2>1 DEF ClientTyped
    <3>4. /\ view' \in [Tabs -> Int] /\ form' \in [Tabs -> TabForms]
          /\ \A u \in Tabs : form'[u] = form[u] \/ form'[u] = NoForm
      BY <1>1, <1>4, <3>3, NoCallFits DEF ClientTyped
    <3>5. live' \subseteq Sessions' /\ cookie' \in Nat /\ keys' \in Nat
      BY <1>1 DEF ClientTyped, Sessions
    <3> QED
      BY <1>1, <3>2, <3>4, <3>5, CallMoves DEF Reads, WriteOps
  <2>2. CASE form[t].key # c.key
    <3>1. Keeps
      BY <1>1, <1>4, <2>2 DEF ClientTyped, Keeps
    <3>2. 0 \in Int
      OBVIOUS
    <3> QED
      BY <1>1, <1>4, <3>1, <3>2, CallSettles
  <2> QED
    BY <2>1, <2>2
<1> QED
  BY <1>2, <1>3, <1>4 DEF Written

LEMMA FreshenedKeeps == ASSUME ClientInv, NEW t \in Tabs, Freshened(t) PROVE ClientInv'
<1> DEFINE c == call[t]["write"]
<1>1. /\ ClientTyped /\ "write" \in Slots /\ c \in TabCalls /\ c.op = "fresh"
      /\ UNCHANGED <<cookie, holder, live, changes, keys, recorded, performed>>
  BY DEF ClientInv, ClientTyped, Slots, Freshened, Arrived
<1>2. CASE /\ c.status = "ok" /\ ShowsFresh(t, c.session)
           /\ Sends(t, "write", [c EXCEPT !.op = "retry", !.csrf = c.session,
                                 !.shown = IF view'[t] > 0 THEN holder[view'[t]] ELSE "nobody"])
  <2> DEFINE session == c.session
             shown == IF view'[t] > 0 THEN holder[view'[t]] ELSE "nobody"
             named == [c EXCEPT !.op = "retry"]
             d == [named EXCEPT !.csrf = session, !.shown = shown]
  <2>1. session \in Sessions
    BY <1>1, <1>2 DEF ClientInv, TabCallsFit, TabCallFits, Reads
  <2>2. session \in Int /\ session > 0 /\ holder[session] \in Users
    BY <1>1, <2>1 DEF ClientTyped, Sessions
  <2>3. Shows(t, session)
    BY <1>2 DEF ShowsFresh
  <2>4. shown = holder[session] /\ shown \in Users
    BY <1>1, <2>2, <2>3, TabShows
  <2>5. Sends(t, "write", d)
    BY <1>2
  <2>6. named \in TabCalls /\ named.op = "retry" /\ named.intent = c.intent /\ named.key = c.key
    <3> HIDE DEF c
    <3> QED
      BY <1>1 DEF TabCalls, WriteOps
  <2> HIDE DEF session, shown, named
  <2>7. d \in TabCalls
    BY <2>2, <2>4, <2>6 DEF TabCalls
  <2>8. /\ d.op = "retry" /\ d.csrf = session /\ d.shown = shown
        /\ d.intent = c.intent /\ d.key = c.key
    BY <2>6 DEF TabCalls
  <2> HIDE DEF d
  <2>9. PICK n \in TabCalls : n = d
    BY <2>7
  <2> HIDE DEF c
  <2> QED
    BY <1>1, <2>1, <2>2, <2>3, <2>4, <2>5, <2>8, <2>9, CallSent DEF c
<1>3. CASE Settles(t, "write") /\ (Shows(t, SignedOut) \/ Keeps)
  BY <1>1, <1>3, ShownIsInt, CallSettles
<1> QED
  BY <1>2, <1>3 DEF Freshened

LEMMA EditKeeps == ASSUME ClientInv, NEW t \in Tabs, Edit(t) PROVE ClientInv'
<1> DEFINE f == form[t]
           g == [f EXCEPT !.change = changes + 1]
<1>1. /\ call[t]["write"] = NoCall /\ changes' = changes + 1
      /\ form' = [form EXCEPT ![t].change = changes + 1]
      /\ UNCHANGED <<cookie, holder, live, view, call, keys, recorded, performed>>
  BY DEF Edit
<1>2. ClientTyped /\ TabCallsFit /\ ChangesHold /\ WritesShowTheirUser /\ ChangesHappenOnce
  BY DEF ClientInv
<1>3. f \in TabForms /\ form \in [Tabs -> TabForms] /\ changes \in Nat
  BY <1>2 DEF ClientTyped
<1>4. form' = [form EXCEPT ![t] = g]
  BY <1>1, <1>3
<1>5. g \in TabForms /\ g.change = changes + 1 /\ g.intent = f.intent /\ g.key = f.key
  <2> HIDE DEF f
  <2> QED
    BY <1>3 DEF TabForms
<1> HIDE DEF f, g
<1>6. /\ form' \in [Tabs -> TabForms] /\ form'[t] = g
      /\ \A v \in Tabs : v # t => form'[v] = form[v]
      /\ \A v \in Tabs : form'[v].intent = form[v].intent /\ form'[v].key = form[v].key
  BY <1>3, <1>4, <1>5 DEF f
<1>7. ClientTyped'
  BY <1>1, <1>2, <1>3, <1>6 DEF ClientTyped, Sessions
<1>8. TabCallsFit'
  BY <1>1, <1>2 DEF TabCallsFit, TabCallFits, Sessions
<1>9. ChangesHold'
  <2>1. /\ Used(t)' \subseteq Used(t) \union {changes + 1}
        /\ \A v \in Tabs : v # t => Used(v)' = Used(v)
    BY <1>1, <1>5, <1>6 DEF Used, f
  <2>2. \A v \in Tabs : \A x, k : KeyGiven(v, x, k)' = KeyGiven(v, x, k)
    BY <1>1, <1>6 DEF KeyGiven
  <2>3. /\ \A v \in Tabs : Used(v) \subseteq 1 .. changes
        /\ \A v, u \in Tabs : v # u => Used(v) \intersect Used(u) = {}
        /\ \A i \in DOMAIN performed : performed[i].intent \in 1 .. changes
    BY <1>2 DEF ChangesHold
  <2>4. /\ \A v \in Tabs : Used(v)' \subseteq 1 .. changes'
        /\ \A i \in DOMAIN performed' : performed'[i].intent \in 1 .. changes'
    BY <1>1, <1>3, <2>1, <2>3
  <2>5. changes + 1 \notin 1 .. changes
    BY <1>3
  <2>6. \A v, u \in Tabs : v # u => Used(v)' \intersect Used(u)' = {}
    BY <2>1, <2>3, <2>5
  <2>7. \A v \in Tabs : form'[v].change \notin {0, form'[v].intent} =>
          /\ form'[v].change # call'[v]["write"].intent
          /\ \A i \in DOMAIN performed' : performed'[i].intent # form'[v].change
    <3> SUFFICES ASSUME NEW v \in Tabs, form'[v].change \notin {0, form'[v].intent}
                 PROVE  /\ form'[v].change # call'[v]["write"].intent
                        /\ \A i \in DOMAIN performed' : performed'[i].intent # form'[v].change
      OBVIOUS
    <3>1. CASE v = t
      BY <1>1, <1>3, <1>5, <1>6, <2>3, <2>5, <3>1, NoCallFits
    <3>2. CASE v # t
      BY <1>1, <1>2, <1>6, <3>2 DEF ChangesHold
    <3> QED
      BY <3>1, <3>2
  <2>8. /\ \A v \in Tabs, x, j, k \in Nat : KeyGiven(v, x, j)' /\ KeyGiven(v, x, k)' => j = k
        /\ \A v \in Tabs, x, k \in Nat : KeyGiven(v, x, k)' =>
             \A i \in DOMAIN performed : performed[i].intent = x => <<performed[i].user, k>> \in recorded
    BY <1>2, <2>2 DEF ChangesHold
  <2> QED
    BY <1>1, <2>4, <2>6, <2>7, <2>8 DEF ChangesHold
<1>10. WritesShowTheirUser' /\ ChangesHappenOnce'
  BY <1>1, <1>2 DEF WritesShowTheirUser, Performed, ChangesHappenOnce
<1> QED
  BY <1>7, <1>8, <1>9, <1>10 DEF ClientInv

LEMMA SubmitKeeps == ASSUME ClientInv, NEW t \in Tabs, Submit(t) PROVE ClientInv'
<1> DEFINE f == form[t]
           key == KeyFor(f)
           user == holder[view[t]]
           named == [NoCall EXCEPT !.op = "write"]
           shows == [named EXCEPT !.csrf = view[t], !.shown = user]
           c == [shows EXCEPT !.intent = f.change, !.key = key]
           g == [change |-> f.change, intent |-> f.change, key |-> key]
<1>1. /\ view[t] \in Sessions /\ call[t]["write"] = NoCall /\ f.change # 0
      /\ keys' = (IF key > keys THEN key ELSE keys)
      /\ form' = [form EXCEPT ![t] = g]
      /\ Sends(t, "write", c)
      /\ UNCHANGED <<cookie, holder, live, view, changes, recorded, performed>>
  BY DEF Submit, Authenticated
<1>2. /\ ClientTyped /\ TabCallsFit /\ ChangesHold /\ WritesShowTheirUser /\ ChangesHappenOnce
      /\ "write" \in Slots
  BY DEF ClientInv, Slots
<1>3. f \in TabForms /\ form \in [Tabs -> TabForms] /\ view[t] \in Int /\ user \in Users /\ keys \in Nat
  BY <1>1, <1>2 DEF ClientTyped, Sessions
<1>4. /\ f.change \in Nat /\ f.intent \in Nat /\ key \in Nat
      /\ f.intent = f.change => key = f.key
  BY <1>3 DEF TabForms, KeyFor
<1>5. named \in TabCalls /\ named.op = "write"
  BY NoCallFits DEF TabCalls, WriteOps
<1> HIDE DEF f, key, user, named
<1>6. shows \in TabCalls /\ shows.op = "write" /\ shows.csrf = view[t] /\ shows.shown = user
  BY <1>3, <1>5 DEF TabCalls
<1> HIDE DEF shows
<1>7. /\ c \in TabCalls /\ c.op = "write" /\ c.csrf = view[t] /\ c.shown = user
      /\ c.intent = f.change /\ c.key = key
  BY <1>4, <1>6 DEF TabCalls
<1> HIDE DEF c
<1>8. g \in TabForms /\ g.change = f.change /\ g.intent = f.change /\ g.key = key
  BY <1>4 DEF TabForms
<1> HIDE DEF g
<1>9. PICK new \in TabCalls :
        /\ call' = [call EXCEPT ![t]["write"] = new]
        /\ new.op = "write" /\ new.csrf = view[t] /\ new.shown = user /\ new.intent = f.change
        /\ new.key = key /\ new.status = "none" /\ new.stage = "sent"
  <2>1. PICK d \in TabCalls : d = c
    BY <1>7
  <2> QED
    BY <1>1, <1>2, <1>7, <2>1, TabSends
<1>10. /\ TabCallsFit' /\ call' \in [Tabs -> [Slots -> TabCalls]]
       /\ \A v \in Tabs, r \in Slots :
            call'[v][r] = IF v = t /\ r = "write" THEN new ELSE call[v][r]
  BY <1>1, <1>2, <1>9, CallsStillFit DEF Reads, user
<1>11. /\ form' \in [Tabs -> TabForms] /\ form'[t] = g /\ form[t] = f
       /\ \A v \in Tabs : v # t => form'[v] = form[v]
  BY <1>1, <1>3, <1>8 DEF f
<1>12. ClientTyped'
  BY <1>1, <1>2, <1>3, <1>4, <1>10, <1>11 DEF ClientTyped, Sessions
<1>13. ChangesHold'
  <2>1. /\ call'[t]["write"].intent = f.change /\ call'[t]["write"].key = key
        /\ \A v \in Tabs : v # t => call'[v]["write"] = call[v]["write"]
    BY <1>2, <1>9, <1>10
  <2>2. /\ Used(t)' \subseteq Used(t)
        /\ \A v \in Tabs : v # t => Used(v)' = Used(v)
    BY <1>8, <1>11, <2>1 DEF Used
  <2>3. /\ \A x, k : KeyGiven(t, x, k)' => x = f.change /\ k = key
        /\ \A v \in Tabs : v # t => \A x, k : KeyGiven(v, x, k)' = KeyGiven(v, x, k)
    BY <1>8, <1>11, <2>1 DEF KeyGiven
  <2>4. /\ \A v \in Tabs : Used(v)' \subseteq 1 .. changes
        /\ \A v, u \in Tabs : v # u => Used(v)' \intersect Used(u)' = {}
        /\ \A i \in DOMAIN performed : performed[i].intent \in 1 .. changes
    BY <1>2, <2>2 DEF ChangesHold
  <2>5. \A v \in Tabs : form'[v].change \notin {0, form'[v].intent} =>
          /\ form'[v].change # call'[v]["write"].intent
          /\ \A i \in DOMAIN performed : performed[i].intent # form'[v].change
    BY <1>2, <1>8, <1>11, <2>1 DEF ChangesHold
  <2>6. \A v \in Tabs, x, j, k \in Nat : KeyGiven(v, x, j)' /\ KeyGiven(v, x, k)' => j = k
    BY <1>2, <2>3 DEF ChangesHold
  <2>7. \A i \in DOMAIN performed :
          performed[i].intent = f.change => <<performed[i].user, key>> \in recorded
    <3>1. CASE f.intent = f.change
      <4>1. KeyGiven(t, f.change, key)
        BY <1>1, <1>4, <1>11, <3>1 DEF KeyGiven
      <4> QED
        BY <1>2, <1>4, <4>1 DEF ChangesHold
    <3>2. CASE f.intent # f.change
      BY <1>1, <1>2, <1>11, <3>2 DEF ChangesHold
    <3> QED
      BY <3>1, <3>2
  <2>8. \A v \in Tabs, x, k \in Nat : KeyGiven(v, x, k)' =>
          \A i \in DOMAIN performed : performed[i].intent = x => <<performed[i].user, k>> \in recorded
    <3> SUFFICES ASSUME NEW v \in Tabs, NEW x \in Nat, NEW k \in Nat, KeyGiven(v, x, k)',
                        NEW i \in DOMAIN performed, performed[i].intent = x
                 PROVE  <<performed[i].user, k>> \in recorded
      OBVIOUS
    <3>1. CASE v = t
      BY <2>3, <2>7, <3>1
    <3>2. CASE v # t
      BY <1>2, <2>3, <3>2 DEF ChangesHold
    <3> QED
      BY <3>1, <3>2
  <2> QED
    BY <1>1, <2>4, <2>5, <2>6, <2>8 DEF ChangesHold
<1>14. WritesShowTheirUser' /\ ChangesHappenOnce'
  BY <1>1, <1>2 DEF WritesShowTheirUser, Performed, ChangesHappenOnce
<1> QED
  BY <1>10, <1>12, <1>13, <1>14 DEF ClientInv

LEMMA ClientServeWriteKeeps == ASSUME ClientInv, NEW t \in Tabs, ServeWrite(t) PROVE ClientInv'
<1> DEFINE c == call[t]["write"]
           u == holder[c.cookie]
           entry == [user |-> u, intent |-> c.intent, shown |-> c.shown]
<1>1. /\ c.op \in WriteOps /\ c.stage = "sent" /\ c.cookie \in live
      /\ c.op \in Reads \/ c.csrf = c.cookie
      /\ recorded' = recorded \union {<<u, c.key>>}
      /\ performed' = IF <<u, c.key>> \in recorded THEN performed ELSE Append(performed, entry)
      /\ Answers(t, "write", "ok", 0)
      /\ UNCHANGED <<cookie, holder, live, view, form, changes, keys>>
  BY DEF ServeWrite, Guarded, Valid
<1>2. /\ ClientTyped /\ TabCallsFit /\ ChangesHold /\ WritesShowTheirUser /\ ChangesHappenOnce
      /\ "write" \in Slots
  BY DEF ClientInv, Slots
<1>3. c \in TabCalls /\ TabCallFits("write", c) /\ c.op # "none" /\ c.op \notin Reads \union {"login"}
  BY <1>1, <1>2 DEF ClientTyped, TabCallsFit, WriteOps, Reads
<1>4. /\ c.cookie \in Sessions /\ u \in Users /\ c.shown = u
      /\ c.intent \in Nat \ {0} /\ c.key \in Nat
  <2>1. c.csrf = c.cookie /\ c.cookie \in Sessions
    BY <1>1, <1>2, <1>3 DEF ClientTyped
  <2>2. u \in Users
    BY <1>2, <2>1 DEF ClientTyped, Sessions
  <2> QED
    BY <1>1, <1>3, <2>1, <2>2 DEF TabCallFits, TabCalls
<1>5. /\ KeyGiven(t, c.intent, c.key) /\ c.intent \in Used(t)
  BY <1>4 DEF KeyGiven, Used
<1>6. PICK new \in TabCalls :
        /\ call' = [call EXCEPT ![t]["write"] = new]
        /\ new.op = c.op /\ new.intent = c.intent /\ new.key = c.key
        /\ new.stage = "answered" /\ new.status = "ok"
  BY <1>1, <1>2, TabAnswers
<1> HIDE DEF c, u
<1>7. /\ TabCallsFit' /\ call' \in [Tabs -> [Slots -> TabCalls]]
      /\ \A v \in Tabs, r \in Slots :
           call'[v][r] = IF v = t /\ r = "write" THEN new ELSE call[v][r]
  BY <1>1, <1>2, <1>3, <1>4, <1>6, CallsStillFit
<1>8. \A v \in Tabs : /\ call'[v]["write"].intent = call[v]["write"].intent
                      /\ call'[v]["write"].key = call[v]["write"].key
  BY <1>2, <1>6, <1>7 DEF c
<1>9. /\ \A v \in Tabs : Used(v)' = Used(v)
      /\ \A v \in Tabs : \A x, k : KeyGiven(v, x, k)' = KeyGiven(v, x, k)
  BY <1>1, <1>8 DEF Used, KeyGiven
<1>10. entry \in [user : Users, intent : Nat, shown : Users \union {"none", "nobody"}]
  BY <1>4
<1>11. entry.user = u /\ entry.intent = c.intent /\ entry.shown = u
  BY <1>4
<1> HIDE DEF entry
<1>12. /\ performed' \in Seq([user : Users, intent : Nat, shown : Users \union {"none", "nobody"}])
       /\ ChangesHappenOnce' /\ WritesShowTheirUser'
       /\ \A i \in DOMAIN performed' :
            \/ i \in DOMAIN performed /\ performed'[i] = performed[i]
            \/ performed'[i] = entry
  <2>1. performed \in Seq([user : Users, intent : Nat, shown : Users \union {"none", "nobody"}])
    BY <1>2 DEF ClientTyped
  <2>2. \A i \in DOMAIN performed : performed[i].intent = c.intent /\ performed[i].user = u
          => <<u, c.key>> \in recorded
    BY <1>2, <1>4, <1>5 DEF ChangesHold
  <2>3. CASE <<u, c.key>> \in recorded
    BY <1>1, <1>2, <2>1, <2>3 DEF WritesShowTheirUser, Performed, ChangesHappenOnce
  <2>4. CASE <<u, c.key>> \notin recorded
    <3>1. performed' = Append(performed, entry) /\ Len(performed) \in Nat
      BY <1>1, <2>1, <2>4
    <3>2. /\ performed' \in Seq([user : Users, intent : Nat, shown : Users \union {"none", "nobody"}])
          /\ DOMAIN performed' = DOMAIN performed \union {Len(performed) + 1}
          /\ Len(performed) + 1 \notin DOMAIN performed
      BY <1>10, <2>1, <3>1
    <3>3. /\ performed'[Len(performed) + 1] = entry
          /\ \A i \in DOMAIN performed : performed'[i] = performed[i]
      BY <2>1, <3>1
    <3>4. WritesShowTheirUser'
      BY <1>2, <1>11, <3>2, <3>3 DEF WritesShowTheirUser, Performed
    <3>5. ChangesHappenOnce'
      BY <1>2, <1>11, <2>2, <2>4, <3>2, <3>3 DEF ChangesHappenOnce
    <3> QED
      BY <3>2, <3>3, <3>4, <3>5
  <2> QED
    BY <2>3, <2>4
<1>13. ClientTyped'
  BY <1>1, <1>2, <1>7, <1>12 DEF ClientTyped, Sessions
<1>14. ChangesHold'
  <2>1. /\ \A v \in Tabs : Used(v)' \subseteq 1 .. changes
        /\ \A v, w \in Tabs : v # w => Used(v)' \intersect Used(w)' = {}
    BY <1>2, <1>9 DEF ChangesHold
  <2>2. \A i \in DOMAIN performed' : performed'[i].intent \in 1 .. changes
    BY <1>2, <1>5, <1>11, <1>12 DEF ChangesHold
  <2>3. \A v \in Tabs : form[v].change \notin {0, form[v].intent} => form[v].change # c.intent
    <3> SUFFICES ASSUME NEW v \in Tabs, form[v].change \notin {0, form[v].intent}
                 PROVE  form[v].change # c.intent
      OBVIOUS
    <3>1. CASE v = t
      BY <1>2, <3>1 DEF ChangesHold, c
    <3>2. CASE v # t
      <4>1. form[v].change \in Used(v)
        BY DEF Used
      <4> QED
        BY <1>2, <1>5, <3>2, <4>1 DEF ChangesHold
    <3> QED
      BY <3>1, <3>2
  <2>4. \A v \in Tabs : form'[v].change \notin {0, form'[v].intent} =>
          /\ form'[v].change # call'[v]["write"].intent
          /\ \A i \in DOMAIN performed' : performed'[i].intent # form'[v].change
    BY <1>1, <1>2, <1>8, <1>11, <1>12, <2>3 DEF ChangesHold
  <2>5. \A v \in Tabs, x, j, k \in Nat : KeyGiven(v, x, j)' /\ KeyGiven(v, x, k)' => j = k
    BY <1>2, <1>9 DEF ChangesHold
  <2>6. \A v \in Tabs, k \in Nat : KeyGiven(v, c.intent, k) => k = c.key
    <3> SUFFICES ASSUME NEW v \in Tabs, NEW k \in Nat, KeyGiven(v, c.intent, k) PROVE k = c.key
      OBVIOUS
    <3>1. c.intent \in Used(v)
      BY DEF KeyGiven, Used
    <3>2. v = t
      BY <1>2, <1>5, <3>1 DEF ChangesHold
    <3> QED
      BY <1>2, <1>4, <1>5, <3>2 DEF ChangesHold
  <2>7. \A v \in Tabs, x, k \in Nat : KeyGiven(v, x, k)' =>
          \A i \in DOMAIN performed' :
            performed'[i].intent = x => <<performed'[i].user, k>> \in recorded'
    <3> SUFFICES ASSUME NEW v \in Tabs, NEW x \in Nat, NEW k \in Nat, KeyGiven(v, x, k),
                        NEW i \in DOMAIN performed', performed'[i].intent = x
                 PROVE  <<performed'[i].user, k>> \in recorded'
      BY <1>9
    <3>1. CASE i \in DOMAIN performed /\ performed'[i] = performed[i]
      BY <1>1, <1>2, <3>1 DEF ChangesHold
    <3>2. CASE performed'[i] = entry
      BY <1>1, <1>11, <2>6, <3>2
    <3> QED
      BY <1>12, <3>1, <3>2
  <2> QED
    BY <1>1, <2>1, <2>2, <2>4, <2>5, <2>7 DEF ChangesHold
<1> QED
  BY <1>7, <1>12, <1>13, <1>14 DEF ClientInv

\* A session ends, or nothing happens.
LEMMA EndSessionKeeps ==
  ASSUME ClientInv, live' \subseteq live,
         UNCHANGED <<cookie, holder, view, call, form, changes, keys, recorded, performed>>
  PROVE  ClientInv'
<1>1. ClientTyped'
  BY DEF ClientInv, ClientTyped, Sessions
<1>2. TabCallsFit'
  BY DEF ClientInv, TabCallsFit, TabCallFits, Sessions
<1>3. ChangesHold'
  BY ChangesForgotten DEF ClientInv
<1>4. WritesShowTheirUser' /\ ChangesHappenOnce'
  BY DEF ClientInv, WritesShowTheirUser, Performed, ChangesHappenOnce
<1> QED
  BY <1>1, <1>2, <1>3, <1>4 DEF ClientInv

LEMMA ClientStep == ClientInv /\ [ClientNext]_clientVars => ClientInv'
<1> SUFFICES ASSUME ClientInv, [ClientNext]_clientVars PROVE ClientInv'
  OBVIOUS
<1>1. CASE EndSession \/ UNCHANGED clientVars
  <2>1. /\ live' \subseteq live
        /\ UNCHANGED <<cookie, holder, view, call, form, changes, keys, recorded, performed>>
    BY <1>1 DEF EndSession, clientVars
  <2> QED
    BY <2>1, EndSessionKeeps
<1>2. ASSUME NEW t \in Tabs, ServeLogin(t) \/ ServeLogout(t) \/ ServeWrite(t) PROVE ClientInv'
  BY <1>2, TabServeLoginKeeps, ServeLogoutKeeps, ClientServeWriteKeeps
<1>3. ASSUME NEW t \in Tabs, NEW s \in Slots,
             Unguarded(t, s) \/ ServeSession(t, s) \/ Fails(t, s) \/ Arrive(t, s)
      PROVE  ClientInv'
  BY <1>3, UnguardedKeeps, ServeSessionKeeps, FailsKeeps, ArriveKeeps
<1>4. ASSUME NEW t \in Tabs, FirstCheck(t) \/ Revalidated(t) \/ Revalidate(t) PROVE ClientInv'
  BY <1>4, FirstCheckKeeps, RevalidatedKeeps, RevalidateKeeps
<1>5. ASSUME NEW t \in Tabs,
             Login(t) \/ LoggedIn(t) \/ Logout(t) \/ LoggedOut(t)
               \/ LogoutRefreshed(t)
      PROVE  ClientInv'
  BY <1>5, TabLoginKeeps, LoggedInKeeps, LogoutKeeps, LoggedOutKeeps, LogoutRefreshedKeeps
<1>6. ASSUME NEW t \in Tabs, Edit(t) \/ Submit(t) \/ Written(t) \/ Freshened(t) PROVE ClientInv'
  BY <1>6, EditKeeps, SubmitKeeps, WrittenKeeps, FreshenedKeeps
<1> QED
  BY <1>1, <1>2, <1>3, <1>4, <1>5, <1>6 DEF ClientNext

\* The invariant of the client that its theorems rest on.
THEOREM ClientInvariant == ClientSpec => []ClientInv
  BY ClientStarts, ClientStep, PTL DEF ClientSpec

(* Every write takes effect for the user its tab showed when it was sent,  *)
(* in any number of tabs and sessions (hooks.tsx useWrite, session.tsx     *)
(* freshCsrfToken).                                                        *)
THEOREM ClientWritesShowTheirUser == ClientSpec => []WritesShowTheirUser
<1>1. ClientInv => WritesShowTheirUser
  BY DEF ClientInv
<1> QED
  BY <1>1, ClientInvariant, PTL

(* A change takes effect at most once for each user, however often it is   *)
(* submitted and whatever is lost (hooks.tsx useIntentKey).                *)
THEOREM ClientChangesHappenOnce == ClientSpec => []ChangesHappenOnce
<1>1. ClientInv => ChangesHappenOnce
  BY DEF ClientInv
<1> QED
  BY <1>1, ClientInvariant, PTL
=============================================================================
