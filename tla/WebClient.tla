------------------------------ MODULE WebClient ------------------------------
(***************************************************************************)
(* The web client in one browser: its tabs each keep a view of the session *)
(* (app/auth/session.tsx) and send the writes of their forms               *)
(* (app/directory/hooks.tsx); they share one cookie, which every answer    *)
(* may set, and the API (auth.guard.ts, session.service.ts).               *)
(*                                                                         *)
(* The requests of the tabs overtake each other, and so do their answers;  *)
(* any may be lost.  A session is a number that stands for its token, its  *)
(* CSRF token and its view; 0 is none.                                     *)
(***************************************************************************)
EXTENDS Integers, Sequences, FiniteSets

CONSTANTS
  Tabs, Users,
  Writers,           \* the tabs that have a form
  Focusing,          \* the tabs that regain focus
  MaxSessions, MaxChecks, MaxChanges, MaxKeys    \* bounds of the model

ASSUME ClientBoundsAssumption ==
  /\ {MaxSessions, MaxChecks, MaxChanges, MaxKeys} \subseteq Nat
  /\ Writers \subseteq Tabs /\ Focusing \subseteq Tabs

VARIABLES
  cookie,            \* the browser's session cookie
  holder,            \* whose the sessions opened so far are
  live,              \* the sessions the API accepts
  view,              \* [Tabs -> the session each shows, Checking or SignedOut]
  call,              \* [Tabs -> [Slots -> what each has under way]]
  form,              \* [Tabs -> the change its form holds, and useIntentKey's ref]
  changes, keys, checks,    \* how many there have been so far
  recorded,          \* the idempotency records: <<user, key>>
  performed          \* history: the writes that took effect

clientVars == <<cookie, holder, live, view, call, form, changes, keys, checks, recorded, performed>>

Checking == -1
SignedOut == 0
Sessions == 1 .. Len(holder)
Authenticated(t) == view[t] \in Sessions

\* A tab has one call of each of these under way.
Slots == {"check", "sign", "write"}
Reads == {"first", "revalidate", "fresh", "logoutFresh"}    \* getSession
Logouts == {"logout", "logoutRetry"}
WriteOps == {"write", "retry"}

NoCall == [op |-> "none", stage |-> "none", cookie |-> 0, csrf |-> 0, user |-> "none", intent |-> 0,
           key |-> 0, shown |-> "none", status |-> "none", session |-> 0]
NoForm == [change |-> 0, intent |-> 0, key |-> 0]

\* The API accepts the cookie the request carries.
Valid(c) == c.cookie \in live

\* What tab t sends: the browser adds the cookie of the moment.
Sends(t, slot, c) ==
  call' = [call EXCEPT ![t][slot] = [c EXCEPT !.stage = "sent", !.cookie = cookie, !.status = "none",
                                              !.session = 0]]

Settles(t, slot) == call' = [call EXCEPT ![t][slot] = NoCall]

\* A user has signed in in a tab with a form, and the others have just been opened.
ClientInit ==
  /\ \E first \in Writers, u \in Users :
       /\ holder = <<u>>
       /\ view = [t \in Tabs |-> IF t = first THEN 1 ELSE Checking]
       /\ call = [t \in Tabs |-> [s \in Slots |->
                   IF t # first /\ s = "check"
                   THEN [NoCall EXCEPT !.op = "first", !.stage = "sent", !.cookie = 1] ELSE NoCall]]
  /\ cookie = 1
  /\ live = {1}
  /\ form = [t \in Tabs |-> NoForm]
  /\ changes = 0 /\ keys = 0 /\ checks = 0
  /\ recorded = {}
  /\ performed = <<>>

----------------------------------------------------------------------------
(* The API.                                                                *)

\* Of what the call carried, only whether it had a cookie matters to its answer.
Answers(t, s, status, session) ==
  LET c == call[t][s] IN
  call' = [call EXCEPT ![t][s] = [c EXCEPT !.stage = "answered", !.status = status,
                                           !.session = session, !.csrf = 0, !.user = "none",
                                           !.cookie = IF status = "401" /\ c.cookie # 0 THEN 1 ELSE 0]]

\* POST /auth/login: a new session; the one whose cookie came with it is revoked.
ServeLogin(t) ==
  LET c == call[t]["sign"] IN
  /\ c.op = "login" /\ c.stage = "sent"
  /\ Len(holder) < MaxSessions
  /\ holder' = Append(holder, c.user)
  /\ live' = (live \ {c.cookie}) \union {Len(holder) + 1}
  /\ Answers(t, "sign", "ok", Len(holder) + 1)
  /\ UNCHANGED <<cookie, view, form, changes, keys, checks, recorded, performed>>

\* AuthGuard: 401 without a usable cookie, 403 without its CSRF token.
Unguarded(t, s) ==
  LET c == call[t][s] IN
  /\ c.stage = "sent" /\ c.op # "login"
  /\ \/ ~Valid(c) /\ Answers(t, s, "401", 0)
     \/ Valid(c) /\ c.op \notin Reads /\ c.csrf # c.cookie /\ Answers(t, s, "csrf", 0)
  /\ UNCHANGED <<cookie, holder, live, view, form, changes, keys, checks, recorded, performed>>

Guarded(c) == c.stage = "sent" /\ Valid(c) /\ (c.op \in Reads \/ c.csrf = c.cookie)

ServeSession(t, s) ==
  LET c == call[t][s] IN
  /\ c.op \in Reads /\ Guarded(c)
  /\ Answers(t, s, "ok", c.cookie)
  /\ UNCHANGED <<cookie, holder, live, view, form, changes, keys, checks, recorded, performed>>

ServeLogout(t) ==
  LET c == call[t]["sign"] IN
  /\ c.op \in Logouts /\ Guarded(c)
  /\ live' = live \ {c.cookie}
  /\ Answers(t, "sign", "ok", 0)
  /\ UNCHANGED <<cookie, holder, view, form, changes, keys, checks, recorded, performed>>

\* The write executor: the write is performed, or replayed if its user has
\* written under its key.
ServeWrite(t) ==
  LET c == call[t]["write"]
      u == holder[c.cookie]
  IN
  /\ c.op \in WriteOps /\ Guarded(c)
  /\ recorded' = recorded \union {<<u, c.key>>}
  /\ performed' = IF <<u, c.key>> \in recorded THEN performed
                  ELSE Append(performed, [user |-> u, intent |-> c.intent, shown |-> c.shown])
  /\ Answers(t, "write", "ok", 0)
  /\ UNCHANGED <<cookie, holder, live, view, form, changes, keys, checks>>

\* A session expires, idles out or is revoked elsewhere.
EndSession ==
  /\ \E s \in live : live' = live \ {s}
  /\ UNCHANGED <<cookie, holder, view, call, form, changes, keys, checks, recorded, performed>>

----------------------------------------------------------------------------
(* The browser.                                                            *)

\* The request or its answer is lost, or the API refuses it for another reason
\* (a conflict, wrong credentials): to the tab it has failed.
Fails(t, s) ==
  /\ call[t][s].stage \in {"sent", "answered"}
  /\ call' = [call EXCEPT ![t][s] = [@ EXCEPT !.stage = "arrived", !.status = "failed",
                                              !.session = 0, !.csrf = 0, !.user = "none",
                                              !.cookie = 0]]
  /\ UNCHANGED <<cookie, holder, live, view, form, changes, keys, checks, recorded, performed>>

\* A login sets the cookie, a logout clears it, and so does a 401 to a request
\* that carried one.
SetsCookie(c) ==
  \/ c.op \in {"login"} \union Logouts /\ c.status = "ok"
  \/ c.status = "401" /\ c.cookie # 0

\* The browser applies what the answer says of the cookie before the tab reads it.
Arrive(t, s) ==
  LET c == call[t][s] IN
  /\ c.stage = "answered" /\ SetsCookie(c)
  /\ cookie' = c.session
  /\ call' = [call EXCEPT ![t][s] = [@ EXCEPT !.stage = "arrived", !.cookie = 0]]
  /\ UNCHANGED <<holder, live, view, form, changes, keys, checks, recorded, performed>>

HasArrived(c) == c.stage = "arrived" \/ (c.stage = "answered" /\ ~SetsCookie(c))

Arrived(t, s, op) == HasArrived(call[t][s]) /\ call[t][s].op = op

\* The tab shows v; a tab that is signed out keeps no form.
Shows(t, v) ==
  /\ view' = [view EXCEPT ![t] = v]
  /\ form' = [form EXCEPT ![t] = IF v = SignedOut THEN NoForm ELSE @]

Keeps == UNCHANGED <<view, form>>

----------------------------------------------------------------------------
(* session.tsx.                                                            *)

\* The first getSession of a tab has been answered.
FirstCheck(t) ==
  LET c == call[t]["check"] IN
  /\ Arrived(t, "check", "first")
  /\ Shows(t, IF c.status = "ok" THEN c.session ELSE SignedOut)
  /\ Settles(t, "check")
  /\ UNCHANGED <<cookie, holder, live, changes, keys, checks, recorded, performed>>

\* The tab regains focus, or its session's expiry has come.
Revalidate(t) ==
  /\ Authenticated(t) /\ call[t]["check"] = NoCall
  /\ checks < MaxChecks
  /\ checks' = checks + 1
  /\ Sends(t, "check", [NoCall EXCEPT !.op = "revalidate"])
  /\ UNCHANGED <<cookie, holder, live, view, form, changes, keys, recorded, performed>>

Revalidated(t) ==
  LET c == call[t]["check"] IN
  /\ Arrived(t, "check", "revalidate")
  /\ CASE c.status = "ok" /\ Authenticated(t) -> Shows(t, c.session)
       [] c.status = "401" -> Shows(t, SignedOut)
       [] OTHER -> Keeps
  /\ Settles(t, "check")
  /\ UNCHANGED <<cookie, holder, live, changes, keys, checks, recorded, performed>>

Login(t) ==
  /\ view[t] = SignedOut /\ call[t]["sign"] = NoCall
  /\ \E u \in Users : Sends(t, "sign", [NoCall EXCEPT !.op = "login", !.user = u])
  /\ UNCHANGED <<cookie, holder, live, view, form, changes, keys, checks, recorded, performed>>

LoggedIn(t) ==
  LET c == call[t]["sign"] IN
  /\ Arrived(t, "sign", "login")
  /\ IF c.status = "ok" THEN Shows(t, c.session) ELSE Keeps
  /\ Settles(t, "sign")
  /\ UNCHANGED <<cookie, holder, live, changes, keys, checks, recorded, performed>>

Logout(t) ==
  /\ Authenticated(t) /\ call[t]["sign"] = NoCall
  /\ Sends(t, "sign", [NoCall EXCEPT !.op = "logout", !.csrf = view[t]])
  /\ UNCHANGED <<cookie, holder, live, view, form, changes, keys, checks, recorded, performed>>

\* A stale CSRF token is read again, once; the view is not touched.
LoggedOut(t) ==
  LET c == call[t]["sign"] IN
  /\ c.op \in Logouts /\ HasArrived(c)
  /\ IF c.op = "logout" /\ c.status = "csrf"
     THEN Sends(t, "sign", [NoCall EXCEPT !.op = "logoutFresh"]) /\ Keeps
     ELSE /\ Settles(t, "sign")
          /\ IF c.status \in {"ok", "401"} THEN Shows(t, SignedOut) ELSE Keeps
  /\ UNCHANGED <<cookie, holder, live, changes, keys, checks, recorded, performed>>

LogoutRefreshed(t) ==
  LET c == call[t]["sign"] IN
  /\ Arrived(t, "sign", "logoutFresh")
  /\ CASE c.status = "ok" ->
            Sends(t, "sign", [NoCall EXCEPT !.op = "logoutRetry", !.csrf = c.session]) /\ Keeps
       [] c.status = "401" -> Settles(t, "sign") /\ Shows(t, SignedOut)
       [] OTHER -> Settles(t, "sign") /\ Keeps
  /\ UNCHANGED <<cookie, holder, live, changes, keys, checks, recorded, performed>>

----------------------------------------------------------------------------
(* hooks.tsx.                                                              *)

\* (mutant) The session that was read is used, but not shown.
ShowsFreshUnseen(t, session) == Keeps

\* freshCsrfToken shows the session it has read, whatever the tab showed.
ShowsFresh(t, session) == Shows(t, session)

\* (mutant) A new key for each submission.
KeyForEach(f) == keys + 1

\* useIntentKey.keyFor: the key of the ref while the change is the one it was for.
KeyFor(f) == IF f.intent = f.change THEN f.key ELSE keys + 1

\* The operator types another change.
Edit(t) ==
  /\ Authenticated(t) /\ call[t]["write"] = NoCall
  /\ changes < MaxChanges
  /\ changes' = changes + 1
  /\ form' = [form EXCEPT ![t].change = changes + 1]
  /\ UNCHANGED <<cookie, holder, live, view, call, keys, checks, recorded, performed>>

\* The operator submits it, perhaps again; not while a submission is pending.
Submit(t) ==
  LET key == KeyFor(form[t]) IN
  /\ Authenticated(t) /\ call[t]["write"] = NoCall
  /\ form[t].change # 0
  /\ key <= MaxKeys
  /\ keys' = IF key > keys THEN key ELSE keys
  /\ form' = [form EXCEPT ![t] = [change |-> @.change, intent |-> @.change, key |-> key]]
  /\ Sends(t, "write", [NoCall EXCEPT !.op = "write", !.csrf = view[t], !.shown = holder[view[t]],
                                      !.intent = form[t].change, !.key = key])
  /\ UNCHANGED <<cookie, holder, live, view, changes, checks, recorded, performed>>

\* A 401 ends the local session, unless it answers the retry; a rejected CSRF
\* token is read again, once.
Written(t) ==
  LET c == call[t]["write"] IN
  /\ c.op \in WriteOps /\ HasArrived(c)
  /\ CASE c.op = "write" /\ c.status = "csrf" ->
            Sends(t, "write", [c EXCEPT !.op = "fresh"]) /\ Keeps
       [] c.op = "write" /\ c.status = "401" -> Settles(t, "write") /\ Shows(t, SignedOut)
       [] c.status = "ok" ->
            /\ Settles(t, "write")
            /\ form' = [form EXCEPT ![t] = IF @.key = c.key THEN NoForm ELSE @]
            /\ UNCHANGED view
       [] OTHER -> Settles(t, "write") /\ Keeps
  /\ UNCHANGED <<cookie, holder, live, changes, keys, checks, recorded, performed>>

Freshened(t) ==
  LET c == call[t]["write"] IN
  /\ Arrived(t, "write", "fresh")
  /\ CASE c.status = "ok" ->
            /\ ShowsFresh(t, c.session)
            /\ Sends(t, "write", [c EXCEPT !.op = "retry", !.csrf = c.session,
                                     !.shown = IF view'[t] > 0 THEN holder[view'[t]] ELSE "nobody"])
       [] c.status = "401" -> Settles(t, "write") /\ Shows(t, SignedOut)
       [] OTHER -> Settles(t, "write") /\ Keeps
  /\ UNCHANGED <<cookie, holder, live, changes, keys, checks, recorded, performed>>

----------------------------------------------------------------------------
ClientNext ==
  \/ EndSession
  \/ \E t \in Tabs :
       \/ ServeLogin(t) \/ ServeLogout(t) \/ ServeWrite(t)
       \/ \E s \in Slots : Unguarded(t, s) \/ ServeSession(t, s) \/ Fails(t, s) \/ Arrive(t, s)
       \/ FirstCheck(t) \/ Revalidated(t)
       \/ t \in Focusing /\ Revalidate(t)
       \/ Login(t) \/ LoggedIn(t) \/ Logout(t) \/ LoggedOut(t) \/ LogoutRefreshed(t)
       \/ t \in Writers /\ (Edit(t) \/ Submit(t) \/ Written(t) \/ Freshened(t))

ClientSpec == ClientInit /\ [][ClientNext]_clientVars

----------------------------------------------------------------------------
(* Properties.                                                             *)

Performed == {performed[i] : i \in DOMAIN performed}

\* A write takes effect for the user its tab showed as signed in when it was
\* sent, whatever has been signed in or out in other tabs since, and whichever
\* answers came late (hooks.tsx useWrite, session.tsx freshCsrfToken).
WritesShowTheirUser == \A w \in Performed : w.user = w.shown

\* A change that is submitted again after a lost answer, and sent again after its
\* CSRF token was read again, takes effect at most once for each user
\* (hooks.tsx useIntentKey, useWrite).
ChangesHappenOnce ==
  \A i, j \in DOMAIN performed :
    performed[i].user = performed[j].user /\ performed[i].intent = performed[j].intent => i = j
=============================================================================
