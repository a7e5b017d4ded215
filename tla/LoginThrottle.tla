--------------------------- MODULE LoginThrottle ---------------------------
(***************************************************************************)
(* The in-process login throttle,                                          *)
(*   apps/api/src/modules/auth/login-throttle.ts,                          *)
(* as AuthService.login drives it: begin() before the user is read and the *)
(* password verified, then exactly one of fail(), succeed(), release().    *)
(* The API is one Node process, so every call is atomic; what interleaves  *)
(* is the sign-ins in flight between the two calls.                        *)
(*                                                                         *)
(* `ticket` is what the sign-ins hold: the tickets that are open.  The     *)
(* code's own counters are inFlight and globalInFlight.                    *)
(***************************************************************************)
EXTENDS Integers, Sequences, FiniteSets, Functions

CONSTANTS
    Attempts,               \* sign-ins that may be in flight
    Accounts,               \* account keys (digests of normalized emails)
    NoTicket,               \* nobody's account
    MaxFailuresPerAccount, AccountWindow,
    MaxFailuresGlobal, GlobalWindow,
    MaxTrackedAccounts,
    TicksPerSecond,         \* clock ticks in a second of Retry-After
    MaxTime                 \* bound of the model: the clock stops here

ASSUME ThrottleSettings ==
    /\ {MaxFailuresPerAccount, MaxFailuresGlobal, MaxTrackedAccounts} \subseteq Nat \ {0}
    /\ {AccountWindow, GlobalWindow, TicksPerSecond} \subseteq Nat \ {0}
    /\ MaxTime \in Nat /\ NoTicket \notin Accounts

VARIABLES
    time,
    tracked,        \* the keys of the `accounts` map, oldest first
    failures,       \* failures[a]: timestamps kept for account a
    inFlight,       \* inFlight[a]
    globalFailures,
    globalInFlight,
    ticket,         \* ticket[p]: the account whose ticket sign-in p holds
    rejected,       \* history: rejected[a]: when a's credentials were refused
                    \* since its last success or eviction
    allRejected     \* history: when anybody's were

codeVars == <<tracked, failures, inFlight, globalFailures, globalInFlight>>
throttleVars == <<time, codeVars, ticket, rejected, allRejected>>

ThrottleInit ==
    /\ time = 0
    /\ tracked = <<>>
    /\ failures = [a \in Accounts |-> <<>>]
    /\ inFlight = [a \in Accounts |-> 0]
    /\ globalFailures = <<>>
    /\ globalInFlight = 0
    /\ ticket = [p \in Attempts |-> NoTicket]
    /\ rejected = [a \in Accounts |-> <<>>]
    /\ allRejected = <<>>

-----------------------------------------------------------------------------
Tracked(a) == a \in Range(tracked)
OpenTickets == {p \in Attempts : ticket[p] /= NoTicket}
OpenOf(a) == {p \in Attempts : ticket[p] = a}

(* The entries at the positions that are kept, in their order.             *)
Filtered(entries, kept) ==
    [k \in 1 .. Cardinality(kept) |->
        entries[CHOOSE i \in kept : Cardinality({j \in kept : j <= i}) = k]]

(* recent(): the timestamps still inside the window.                       *)
Recent(timestamps, now, window) ==
    Filtered(timestamps, {i \in DOMAIN timestamps : timestamps[i] > now - window})

\* Fault: attempts in flight do not count.
WaitIgnoringInFlight(timestamps, flying, max, window, now) ==
    LET excess == Len(timestamps) - max IN
    IF excess < 0 THEN 0 ELSE 1

\* Fault: waits for the failure before the one that has to leave the window.
WaitOneTooFew(timestamps, flying, max, window, now) ==
    LET excess == Len(timestamps) + flying - max IN
    CASE excess < 0 -> 0
      [] excess >= Len(timestamps) -> 1
      [] OTHER -> LET left == timestamps[excess + 1] + window - now
                  IN  IF left < TicksPerSecond THEN 1 ELSE left \div TicksPerSecond

(* waitSeconds(): whole seconds until one more attempt fits, 0 now.        *)
WaitSeconds(timestamps, flying, max, window, now) ==
    LET excess == Len(timestamps) + flying - max IN
    CASE excess < 0 -> 0
      [] excess >= Len(timestamps) -> 1
      [] OTHER -> LET left == timestamps[excess + 1] + window - now
                      seconds == (left + TicksPerSecond - 1) \div TicksPerSecond
                  IN  IF seconds < 1 THEN 1 ELSE seconds

GlobalWait(fs, now) ==
    WaitSeconds(fs, globalInFlight, MaxFailuresGlobal, GlobalWindow, now)
AccountWait(fs, n, now) ==
    WaitSeconds(fs, n, MaxFailuresPerAccount, AccountWindow, now)

(* What begin() would do for account a: how long it would make it wait.    *)
Wait(a, now) ==
    LET g == GlobalWait(Recent(globalFailures, now, GlobalWindow), now)
        w == IF Tracked(a)
             THEN AccountWait(Recent(failures[a], now, AccountWindow), inFlight[a], now)
             ELSE 0
    IN  IF g > w THEN g ELSE w

(* begin(a) is refused: only the windows have been pruned.                 *)
Refused(a) ==
    /\ Wait(a, time) > 0
    /\ globalFailures' = Recent(globalFailures, time, GlobalWindow)
    /\ failures' = IF Tracked(a)
                   THEN [failures EXCEPT ![a] = Recent(@, time, AccountWindow)]
                   ELSE failures
    /\ UNCHANGED <<time, tracked, inFlight, globalInFlight, ticket, rejected, allRejected>>

(* begin(a) hands sign-in p a ticket for an account already tracked.       *)
Allowed(p, a) ==
    /\ Wait(a, time) = 0 /\ Tracked(a)
    /\ ticket[p] = NoTicket
    /\ globalFailures' = Recent(globalFailures, time, GlobalWindow)
    /\ failures' = [failures EXCEPT ![a] = Recent(@, time, AccountWindow)]
    /\ inFlight' = [inFlight EXCEPT ![a] = @ + 1]
    /\ globalInFlight' = globalInFlight + 1
    /\ ticket' = [ticket EXCEPT ![p] = a]
    /\ UNCHANGED <<time, tracked, rejected, allRejected>>

(* prune(): forgets the accounts with nothing left in their window.        *)
Full(keys) == Len(keys) >= MaxTrackedAccounts
Pruned(fs) ==
    Filtered(tracked,
             {i \in DOMAIN tracked : fs[tracked[i]] /= <<>> \/ inFlight[tracked[i]] /= 0})

(* The oldest idle entry makes room; with none, the map stays full.        *)
EvictOldestIdle(keys) ==
    LET idle == {i \in DOMAIN keys : inFlight[keys[i]] = 0} IN
    IF idle = {} THEN keys
    ELSE Filtered(keys, DOMAIN keys \ {CHOOSE i \in idle : \A j \in idle : i <= j})

\* What track() makes of the failures, of the keys it keeps, and of the room for one.
FailuresAt(now) ==
    [b \in Accounts |-> IF Full(tracked) THEN Recent(failures[b], now, AccountWindow)
                        ELSE failures[b]]
KeysKept(now) == IF Full(tracked) THEN Pruned(FailuresAt(now)) ELSE tracked
KeysLeft(now) == IF Full(KeysKept(now)) THEN EvictOldestIdle(KeysKept(now)) ELSE KeysKept(now)

(* begin(a) for an account not tracked: track(), then the ticket -- or a   *)
(* refusal when every tracked account has an attempt in flight.            *)
Track(p, a) ==
    LET kept == Range(KeysKept(time))
        left == Range(KeysLeft(time))
    IN
    /\ Wait(a, time) = 0 /\ ~Tracked(a)
    /\ ticket[p] = NoTicket
    /\ globalFailures' = Recent(globalFailures, time, GlobalWindow)
    /\ failures' = [b \in Accounts |-> IF b \in left THEN FailuresAt(time)[b] ELSE <<>>]
    /\ rejected' = [b \in Accounts |-> IF b \in kept \ left THEN <<>> ELSE rejected[b]]
    /\ \/ /\ ~Full(KeysLeft(time))
          /\ tracked' = Append(KeysLeft(time), a)
          /\ inFlight' = [b \in Accounts |->
                 IF b = a THEN 1 ELSE IF b \in left THEN inFlight[b] ELSE 0]
          /\ globalInFlight' = globalInFlight + 1
          /\ ticket' = [ticket EXCEPT ![p] = a]
       \/ /\ Full(KeysLeft(time))
          /\ tracked' = KeysLeft(time)
          /\ UNCHANGED <<inFlight, globalInFlight, ticket>>
    /\ UNCHANGED <<time, allRejected>>

begin(p, a) == Refused(a) \/ Allowed(p, a) \/ Track(p, a)

Floor0(n) == IF n < 0 THEN 0 ELSE n

(* close(): the ticket is returned, once; the account's entry may be gone. *)
close(p, a) ==
    /\ ticket[p] = a
    /\ ticket' = [ticket EXCEPT ![p] = NoTicket]
    /\ globalInFlight' = Floor0(globalInFlight - 1)
    /\ inFlight' = IF Tracked(a) THEN [inFlight EXCEPT ![a] = Floor0(@ - 1)] ELSE inFlight
    /\ UNCHANGED <<time, tracked>>

(* fail(): wrong password, unknown or disabled account.                    *)
fail(p, a) ==
    /\ close(p, a)
    /\ failures' = IF Tracked(a) THEN [failures EXCEPT ![a] = Append(@, time)] ELSE failures
    /\ globalFailures' = IF Tracked(a) THEN Append(globalFailures, time) ELSE globalFailures
    /\ rejected' = [rejected EXCEPT ![a] = Append(@, time)]
    /\ allRejected' = Append(allRejected, time)

(* succeed(): the account's failures are cleared, the global ones stay.    *)
succeed(p, a) ==
    /\ close(p, a)
    /\ failures' = IF Tracked(a) THEN [failures EXCEPT ![a] = <<>>] ELSE failures
    /\ rejected' = [rejected EXCEPT ![a] = <<>>]
    /\ UNCHANGED <<globalFailures, allRejected>>

(* release(): the user could not be read or the password not verified.     *)
release(p, a) ==
    /\ close(p, a)
    /\ UNCHANGED <<failures, globalFailures, rejected, allRejected>>

Elapse ==
    /\ time < MaxTime
    /\ time' = time + 1
    /\ UNCHANGED <<codeVars, ticket, rejected, allRejected>>

ThrottleNext ==
    \/ Elapse
    \/ \E p \in Attempts, a \in Accounts :
          begin(p, a) \/ fail(p, a) \/ succeed(p, a) \/ release(p, a)

ThrottleSpec == ThrottleInit /\ [][ThrottleNext]_throttleVars

-----------------------------------------------------------------------------
Timestamps == Seq(Nat)
InWindow(timestamps, window) ==
    Cardinality({i \in DOMAIN timestamps : timestamps[i] + window > time})

ThrottleTypeOK ==
    /\ time \in Nat
    /\ tracked \in Seq(Accounts)
    /\ failures \in [Accounts -> Timestamps]
    /\ inFlight \in [Accounts -> Nat]
    /\ globalFailures \in Timestamps
    /\ globalInFlight \in Nat
    /\ ticket \in [Attempts -> Accounts \union {NoTicket}]
    /\ rejected \in [Accounts -> Timestamps]
    /\ allRejected \in Timestamps

(* "Parallel requests cannot overshoot" a budget: refused checks of the    *)
(* window and checks in progress never exceed it together, neither for one *)
(* account nor for all; the global budget also bounds what eviction makes  *)
(* an account's own entry forget.                                          *)
BudgetsHold ==
    /\ \A a \in Accounts :
         InWindow(rejected[a], AccountWindow) + Cardinality(OpenOf(a)) <= MaxFailuresPerAccount
    /\ InWindow(allRejected, GlobalWindow) + Cardinality(OpenTickets) <= MaxFailuresGlobal

(* The Retry-After of a refusal suffices: with no sign-in in flight, an    *)
(* account that waits that long is admitted by both budgets.               *)
RetryAfterSuffices ==
    \A a \in Accounts :
        (globalInFlight = 0 /\ Wait(a, time) > 0)
            => Wait(a, time + Wait(a, time) * TicksPerSecond) = 0
=============================================================================
