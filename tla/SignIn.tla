------------------------------- MODULE SignIn -------------------------------
(***************************************************************************)
(* Sign-in, sessions and account recovery for one user:                    *)
(*   apps/api/src/modules/auth/auth.service.ts, session.service.ts,        *)
(*   auth.guard.ts (all in the API process) and                            *)
(*   apps/api/src/cli/admin-recovery-core.ts (another process).            *)
(*                                                                         *)
(* A login reads the user, spends a while verifying the password and then  *)
(* opens a session; an administrator may change the account in between.    *)
(* Each $transaction is one step: its statements lock the user's row (or   *)
(* its foreign key) and the sessions they touch.  What is not in one       *)
(* transaction interleaves, the two SELECTs behind `include: {user: true}` *)
(* included.  A session is named by the login that opens it.               *)
(***************************************************************************)
EXTENDS Integers

CONSTANTS
    Logins, Requests, Commands,
    SessionTtl, IdleTimeout, LastSeenWriteInterval,
    MaxClock                    \* bound of the model: the clock stops here

ASSUME SettingsAssumption ==
    /\ {SessionTtl, IdleTimeout} \subseteq Nat \ {0}
    /\ {LastSeenWriteInterval, MaxClock} \subseteq Nat

VARIABLES
    clock,
    user,           \* the users row: enabled, password (a version), sessionEpoch
    session,        \* the auth_sessions rows, by login
    login, command, request,
    changes,        \* history: administrative changes made to the account
    ended,          \* history: sessions whose end somebody was told of
    activity        \* history: activity[s]: when s was last used by the application

vars == <<clock, user, session, login, command, request, changes, ended, activity>>

Times == 0 .. MaxClock
Kinds == {"disable", "enable", "password", "revoke"}
User == [enabled : BOOLEAN, password : Nat, sessionEpoch : Nat]
\* `boundEpoch` is the epoch in the session's CSRF digest.
Session == [boundEpoch : Nat, expiresAt : Nat, lastSeenAt : Times, revoked : BOOLEAN]

Opened == DOMAIN session
Idle == [stage |-> "idle"]
Revoked(s) == [session[s] EXCEPT !.revoked = TRUE]

Init ==
    /\ clock = 0
    /\ user = [enabled |-> TRUE, password |-> 0, sessionEpoch |-> 0]
    /\ session = [s \in {} |-> 0]
    /\ login = [l \in Logins |-> Idle]
    /\ command = [c \in Commands |-> Idle]
    /\ request = [r \in Requests |-> Idle]
    /\ changes = 0
    /\ ended = {}
    /\ activity = [l \in Logins |-> 0]

-----------------------------------------------------------------------------
(* AuthService.login.                                                      *)

(* The user is read; `since` is history.                                   *)
ReadForLogin(l) ==
    /\ login[l].stage = "idle"
    /\ login' = [login EXCEPT ![l] = [stage |-> "verify", seen |-> user, since |-> changes]]
    /\ UNCHANGED <<clock, user, session, command, request, changes, ended, activity>>

(* The password matches the hash that was read and the account was not     *)
(* disabled; open() samples its clock at once.                             *)
Verify(l) ==
    /\ login[l].stage = "verify"
    /\ login[l].seen.enabled
    /\ login' = [login EXCEPT ![l] = [stage |-> "open", seen |-> login[l].seen,
                                      since |-> login[l].since, now |-> clock]]
    /\ UNCHANGED <<clock, user, session, command, request, changes, ended, activity>>

Reject(l) ==
    /\ login[l].stage = "verify"
    /\ login' = [login EXCEPT ![l] = Idle]
    /\ UNCHANGED <<clock, user, session, command, request, changes, ended, activity>>

NewSession(l) == [boundEpoch |-> login[l].seen.sessionEpoch,
                  expiresAt |-> login[l].now + SessionTtl,
                  lastSeenAt |-> login[l].now,
                  revoked |-> FALSE]

\* Fault: the sessions the browser presented stay alive.
OpenWithoutRotation(l, presented) ==
    [s \in Opened \cup {l} |-> IF s = l THEN NewSession(l) ELSE session[s]]

(* The rows after open()'s transaction: the presented sessions are revoked *)
(* and a fresh one is inserted.                                            *)
WithSession(l, presented) ==
    [s \in Opened \cup {l} |->
        IF s = l THEN NewSession(l)
        ELSE IF s \in presented THEN Revoked(s) ELSE session[s]]

Open(l) ==
    /\ login[l].stage = "open"
    /\ \E presented \in SUBSET Opened :
          /\ session' = WithSession(l, presented)
          /\ ended' = ended \cup presented
    /\ activity' = [activity EXCEPT ![l] = login[l].now]
    /\ login' = [login EXCEPT ![l] = [stage |-> "opened", since |-> login[l].since]]
    /\ UNCHANGED <<clock, user, command, request, changes>>

-----------------------------------------------------------------------------
(* SessionService.authenticate and the guard.                              *)

(* What a request may rely on: the session is open, nobody was told it     *)
(* ended, and the account is as its login verified it.                     *)
Good(s) == s \in Opened /\ s \notin ended /\ login[s].since = changes

ReadSession(r, s) ==
    /\ request[r].stage = "idle"
    /\ s \in Opened
    /\ request' = [request EXCEPT ![r] = [stage |-> "user", session |-> s,
                                          row |-> session[s], good |-> Good(s)]]
    /\ UNCHANGED <<clock, user, session, login, command, changes, ended, activity>>

ReadUser(r) ==
    /\ request[r].stage = "user"
    /\ request' = [request EXCEPT ![r] = [stage |-> "check", session |-> request[r].session,
                                          row |-> request[r].row, good |-> request[r].good,
                                          enabled |-> user.enabled,
                                          epoch |-> user.sessionEpoch]]
    /\ UNCHANGED <<clock, user, session, login, command, changes, ended, activity>>

\* Fault: the CSRF binding to the epoch is not verified.
UsableIgnoringEpoch(row, enabled, epoch) ==
    /\ ~row.revoked
    /\ row.expiresAt > clock
    /\ clock - row.lastSeenAt <= IdleTimeout
    /\ enabled

Usable(row, enabled, epoch) ==
    /\ ~row.revoked
    /\ row.expiresAt > clock
    /\ clock - row.lastSeenAt <= IdleTimeout
    /\ enabled
    /\ row.boundEpoch = epoch

(* "plain": a safe request without the application's header; "app" and     *)
(* "logout" pass the guard's checks for activity.                          *)
Purposes == {"plain", "app", "logout"}

\* Fault: any request that presents the cookie keeps the session alive.
AnyRequestIsActivity(purpose) == TRUE
CountsAsActivity(purpose) == purpose /= "plain"

(* The handler runs: only the logout's changes the session.                *)
Handle(r, purpose) ==
    IF purpose = "logout" THEN [stage |-> "logout", session |-> request[r].session]
    ELSE Idle

(* The verdict; recordActivity() samples its clock right after it, and     *)
(* writes only when the last write is old enough.                          *)
Accept(r, purpose) ==
    LET s == request[r].session
        writes == /\ CountsAsActivity(purpose)
                  /\ clock - request[r].row.lastSeenAt >= LastSeenWriteInterval
    IN
    /\ request[r].stage = "check"
    /\ Usable(request[r].row, request[r].enabled, request[r].epoch)
    /\ request' = [request EXCEPT ![r] =
          IF writes THEN [stage |-> "record", session |-> s, purpose |-> purpose, now |-> clock]
          ELSE Handle(r, purpose)]
    /\ activity' = IF purpose /= "plain" THEN [activity EXCEPT ![s] = clock] ELSE activity
    /\ UNCHANGED <<clock, user, session, login, command, changes, ended>>

(* The session is unusable, or the CSRF token the request carries is.      *)
Refuse(r) ==
    /\ request[r].stage = "check"
    /\ request' = [request EXCEPT ![r] = Idle]
    /\ UNCHANGED <<clock, user, session, login, command, changes, ended, activity>>

RecordActivity(r) ==
    LET s == request[r].session IN
    /\ request[r].stage = "record"
    /\ session' = IF session[s].revoked THEN session
                  ELSE [session EXCEPT ![s].lastSeenAt = request[r].now]
    /\ request' = [request EXCEPT ![r] = Handle(r, request[r].purpose)]
    /\ UNCHANGED <<clock, user, login, command, changes, ended, activity>>

(* SessionService.revoke.                                                  *)
Logout(r) ==
    LET s == request[r].session IN
    /\ request[r].stage = "logout"
    /\ session' = [session EXCEPT ![s] = Revoked(s)]
    /\ ended' = ended \cup {s}
    /\ request' = [request EXCEPT ![r] = Idle]
    /\ UNCHANGED <<clock, user, login, command, changes, activity>>

-----------------------------------------------------------------------------
(* The recovery commands.  Each reads the user, samples its clock, and     *)
(* then runs one transaction.                                              *)

NothingToDo(kind) ==
    \/ kind = "disable" /\ ~user.enabled
    \/ kind = "enable" /\ user.enabled

StartCommand(c, kind) ==
    /\ command[c].stage = "idle"
    /\ command' = [command EXCEPT ![c] =
          IF NothingToDo(kind) THEN [stage |-> "done"]
          ELSE [stage |-> "run", kind |-> kind, now |-> clock]]
    /\ UNCHANGED <<clock, user, session, login, request, changes, ended, activity>>

\* Fault: a new password does not bump the epoch.
ChangedWithoutEpochOnPassword(kind) ==
    [enabled |-> IF kind \in {"disable", "enable"} THEN kind = "enable" ELSE user.enabled,
     password |-> IF kind = "password" THEN user.password + 1 ELSE user.password,
     sessionEpoch |-> IF kind = "password" THEN user.sessionEpoch ELSE user.sessionEpoch + 1]

Changed(kind) ==
    [enabled |-> IF kind \in {"disable", "enable"} THEN kind = "enable" ELSE user.enabled,
     password |-> IF kind = "password" THEN user.password + 1 ELSE user.password,
     sessionEpoch |-> user.sessionEpoch + 1]

(* revokeActiveSessions().                                                 *)
RevokeActive(now) ==
    [s \in Opened |-> IF session[s].expiresAt > now THEN Revoked(s) ELSE session[s]]

RunCommand(c) ==
    /\ command[c].stage = "run"
    /\ ~NothingToDo(command[c].kind)
    /\ user' = Changed(command[c].kind)
    /\ session' = RevokeActive(command[c].now)
    /\ changes' = changes + 1
    /\ ended' = ended \cup Opened
    /\ command' = [command EXCEPT ![c] = [stage |-> "done"]]
    /\ UNCHANGED <<clock, login, request, activity>>

(* Disabled, or enabled, concurrently: the conditional update matches no   *)
(* row.                                                                    *)
CommandFindsItDone(c) ==
    /\ command[c].stage = "run"
    /\ NothingToDo(command[c].kind)
    /\ command' = [command EXCEPT ![c] = [stage |-> "done"]]
    /\ UNCHANGED <<clock, user, session, login, request, changes, ended, activity>>

Tick ==
    /\ clock < MaxClock
    /\ clock' = clock + 1
    /\ UNCHANGED <<user, session, login, command, request, changes, ended, activity>>

LoginStep(l) == ReadForLogin(l) \/ Verify(l) \/ Reject(l) \/ Open(l)
RequestStep(r) ==
    \/ \E s \in Logins : ReadSession(r, s)
    \/ ReadUser(r) \/ Refuse(r) \/ RecordActivity(r) \/ Logout(r)
    \/ \E purpose \in Purposes : Accept(r, purpose)
CommandStep(c) ==
    \/ \E kind \in Kinds : StartCommand(c, kind)
    \/ RunCommand(c) \/ CommandFindsItDone(c)

Next ==
    \/ Tick
    \/ \E l \in Logins : LoginStep(l)
    \/ \E r \in Requests : RequestStep(r)
    \/ \E c \in Commands : CommandStep(c)

Spec == Init /\ [][Next]_vars

-----------------------------------------------------------------------------
TypeOK ==
    /\ clock \in Times
    /\ user \in User
    /\ Opened \subseteq Logins /\ session \in [Opened -> Session]
    /\ \A l \in Logins : login[l].stage \in {"idle", "verify", "open", "opened"}
    /\ \A c \in Commands : command[c].stage \in {"idle", "run", "done"}
    /\ \A r \in Requests : request[r].stage \in
          {"idle", "user", "check", "record", "logout"}
    /\ changes \in Nat
    /\ ended \subseteq Logins
    /\ activity \in [Logins -> Times]

(* No request is accepted for a session that had ended when the request    *)
(* arrived -- by logout, by rotation at a later sign-in, or by a change to *)
(* the account -- not even one opened, after the change, by a login that   *)
(* had read the account before it.                                         *)
EndedSessionsStayOut ==
    [][\A r \in Requests, purpose \in Purposes : Accept(r, purpose) => request[r].good]_vars

(* A change to the account leaves no usable session behind, whatever the   *)
(* logins in flight: every session opened from what was read before it is  *)
(* bound to an older epoch.                                                *)
EpochOutdatesSessions ==
    \A s \in Opened : session[s].boundEpoch = user.sessionEpoch => login[s].since = changes

(* The row of every session whose end was announced -- by logout, by the   *)
(* rotation of a sign-in, by a recovery command -- is revoked or expired:  *)
(* no later write of its row (activity being recorded) brings it back.     *)
ChangesRevokeRows ==
    \A s \in ended : session[s].revoked \/ session[s].expiresAt <= clock

(* A request is accepted only before the session expires and within the    *)
(* idle timeout of a use by the application; a plain load by another page  *)
(* extends neither.                                                        *)
AcceptedInTime ==
    [][\A r \in Requests, purpose \in Purposes : Accept(r, purpose) =>
          LET s == request[r].session IN
          /\ clock < session[s].expiresAt
          /\ clock - activity[s] <= IdleTimeout]_vars
=============================================================================
