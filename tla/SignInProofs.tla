---------------------------- MODULE SignInProofs ----------------------------
(***************************************************************************)
(* Proofs about SignIn, for any number of logins, requests and commands    *)
(* and any timeouts, about the HTTP pipeline in front of it, and in the    *)
(* last part about LoginThrottle.                                          *)
(*                                                                         *)
(* The argument is the epoch: a login copies it together with the account  *)
(* it verifies, its session is bound to the copy, and every change of the  *)
(* account moves it.  So a session opened from an outdated account carries *)
(* an outdated epoch, and a request, which reads its session before its    *)
(* user, sees a revoked row, an expired one, or a later epoch.             *)
(***************************************************************************)
EXTENDS RequestPipeline, LoginThrottle, SequenceTheorems, FiniteSetTheorems, TLAPS

(* The rows, and the clock against which they are written.                 *)
Rows ==
    /\ clock \in Times
    /\ user \in User /\ changes \in Nat /\ user.sessionEpoch = changes
    /\ Opened \subseteq Logins /\ session \in [Opened -> Session]
    /\ activity \in [Logins -> Times] /\ \A s \in Logins : activity[s] <= clock

(* A login in flight holds an account and the epoch it had.                *)
LoginsKnow ==
    /\ login = [l \in Logins |-> login[l]]
    /\ \A l \in Logins :
        /\ login[l].stage \in {"idle", "verify", "open", "opened"}
        /\ login[l].stage \in {"verify", "open"} =>
              /\ login[l].seen \in User
              /\ login[l].since \in Nat /\ login[l].since <= changes
              /\ login[l].seen.sessionEpoch = login[l].since
        /\ login[l].stage = "open" => login[l].now \in Times /\ login[l].now <= clock

(* A session is bound to the epoch its login read.                         *)
SessionsBound ==
    \A s \in Opened :
        /\ login[s].stage = "opened"
        /\ login[s].since = session[s].boundEpoch
        /\ session[s].boundEpoch <= changes
        /\ session[s].lastSeenAt <= activity[s]

EndsAreReal ==
    /\ ended \subseteq Opened
    /\ \A s \in ended : session[s].revoked \/ session[s].expiresAt <= clock

(* A request that started with a session no longer good holds a row, and   *)
(* once it has read the user an epoch, that show it.                       *)
RequestsKnow ==
    /\ request = [r \in Requests |-> request[r]]
    /\ \A r \in Requests :
        /\ request[r].stage \in {"idle", "user", "check", "record", "logout"}
        /\ request[r].stage /= "idle" => request[r].session \in Opened
        /\ request[r].stage \in {"user", "check"} =>
              /\ request[r].row \in Session
              /\ request[r].row.boundEpoch = session[request[r].session].boundEpoch
              /\ request[r].row.expiresAt = session[request[r].session].expiresAt
              /\ request[r].row.lastSeenAt <= activity[request[r].session]
              /\ request[r].good \in BOOLEAN
        /\ (request[r].stage = "user" /\ ~request[r].good) =>
              \/ request[r].row.revoked \/ request[r].row.expiresAt <= clock
              \/ request[r].row.boundEpoch < changes
        /\ request[r].stage = "check" => request[r].epoch \in Nat
        /\ (request[r].stage = "check" /\ ~request[r].good) =>
              \/ request[r].row.revoked \/ request[r].row.expiresAt <= clock
              \/ request[r].row.boundEpoch < request[r].epoch
        /\ request[r].stage = "record" =>
              /\ request[r].purpose \in Purposes
              /\ request[r].now \in Times
              /\ request[r].now <= activity[request[r].session]

CommandsKnow ==
    /\ command = [c \in Commands |-> command[c]]
    /\ \A c \in Commands :
        /\ command[c].stage \in {"idle", "run", "done"}
        /\ command[c].stage = "run" =>
              command[c].kind \in Kinds /\ command[c].now \in Times /\ command[c].now <= clock

IInv ==
    Rows /\ LoginsKnow /\ SessionsBound /\ EndsAreReal /\ RequestsKnow /\ CommandsKnow

-----------------------------------------------------------------------------
(* The initial states satisfy the invariant.                               *)
LEMMA InitInv == Init => IInv
<1> SUFFICES ASSUME Init PROVE IInv
  OBVIOUS
<1> USE SettingsAssumption DEF Init, Idle, Opened
<1>1. Rows
  BY DEF Rows, Times, User, Session
<1>2. LoginsKnow
  BY DEF LoginsKnow
<1>3. SessionsBound /\ EndsAreReal
  BY DEF SessionsBound, EndsAreReal
<1>4. RequestsKnow /\ CommandsKnow
  BY DEF RequestsKnow, CommandsKnow
<1> QED
  BY <1>1, <1>2, <1>3, <1>4 DEF IInv

(* Tick preserves the invariant.                                    *)
LEMMA TickInv ==
    ASSUME IInv, Tick
    PROVE  IInv'
<1> USE SettingsAssumption DEF Tick, Times
<1>1. Rows'
  BY DEF IInv, CommandsKnow, LoginsKnow, Opened, RequestsKnow, Rows, SessionsBound
<1>2. LoginsKnow'
  BY DEF IInv, LoginsKnow, Opened, Rows
<1>3. SessionsBound'
  BY DEF IInv, LoginsKnow, Opened, RequestsKnow, Rows, SessionsBound
<1>4. EndsAreReal'
  <2>1. /\ \A s \in Opened : session[s].expiresAt \in Nat
        /\ clock \in Nat /\ clock' = clock + 1
    BY DEF IInv, Rows, Session
  <2> QED
    BY <2>1 DEF IInv, EndsAreReal, Opened
<1>5. RequestsKnow'
  <2>1. /\ \A r \in Requests : request[r].stage \in {"user", "check"} =>
                                request[r].row.expiresAt \in Nat
        /\ clock \in Nat /\ clock' = clock + 1
    BY DEF IInv, RequestsKnow, Rows, Session
  <2> QED
    BY <2>1 DEF IInv, RequestsKnow, Opened
<1>6. CommandsKnow'
  BY DEF IInv, CommandsKnow, Opened, Rows
<1> QED
  BY <1>1, <1>2, <1>3, <1>4, <1>5, <1>6 DEF IInv

(* ReadForLogin preserves the invariant.                                    *)
LEMMA ReadForLoginInv ==
    ASSUME IInv, NEW l \in Logins, ReadForLogin(l)
    PROVE  IInv'
<1> USE SettingsAssumption DEF ReadForLogin, User
<1>1. Rows'
  BY DEF IInv, CommandsKnow, LoginsKnow, Opened, RequestsKnow, Rows, SessionsBound
<1>2. LoginsKnow'
  BY DEF IInv, LoginsKnow, Opened, Rows
<1>3. SessionsBound'
  BY DEF IInv, LoginsKnow, Opened, RequestsKnow, Rows, SessionsBound
<1>4. EndsAreReal'
  BY DEF IInv, CommandsKnow, EndsAreReal, LoginsKnow, Opened, RequestsKnow, Rows, SessionsBound
<1>5. RequestsKnow'
  BY DEF IInv, EndsAreReal, LoginsKnow, Opened, RequestsKnow, Rows, SessionsBound
<1>6. CommandsKnow'
  BY DEF IInv, CommandsKnow, Opened, Rows
<1> QED
  BY <1>1, <1>2, <1>3, <1>4, <1>5, <1>6 DEF IInv

(* Verify preserves the invariant.                                    *)
LEMMA VerifyInv ==
    ASSUME IInv, NEW l \in Logins, Verify(l)
    PROVE  IInv'
<1> USE SettingsAssumption DEF Verify, Times
<1>1. Rows'
  BY DEF IInv, CommandsKnow, LoginsKnow, Opened, RequestsKnow, Rows, SessionsBound
<1>2. LoginsKnow'
  BY DEF IInv, LoginsKnow, Opened, Rows
<1>3. SessionsBound'
  BY DEF IInv, LoginsKnow, Opened, RequestsKnow, Rows, SessionsBound
<1>4. EndsAreReal'
  BY DEF IInv, CommandsKnow, EndsAreReal, LoginsKnow, Opened, RequestsKnow, Rows, SessionsBound
<1>5. RequestsKnow'
  BY DEF IInv, EndsAreReal, LoginsKnow, Opened, RequestsKnow, Rows, SessionsBound
<1>6. CommandsKnow'
  BY DEF IInv, CommandsKnow, Opened, Rows
<1> QED
  BY <1>1, <1>2, <1>3, <1>4, <1>5, <1>6 DEF IInv

(* Reject preserves the invariant.                                    *)
LEMMA RejectInv ==
    ASSUME IInv, NEW l \in Logins, Reject(l)
    PROVE  IInv'
<1> USE SettingsAssumption DEF Reject, Idle
<1>1. Rows'
  BY DEF IInv, CommandsKnow, LoginsKnow, Opened, RequestsKnow, Rows, SessionsBound
<1>2. LoginsKnow'
  BY DEF IInv, LoginsKnow, Opened, Rows
<1>3. SessionsBound'
  BY DEF IInv, LoginsKnow, Opened, RequestsKnow, Rows, SessionsBound
<1>4. EndsAreReal'
  BY DEF IInv, CommandsKnow, EndsAreReal, LoginsKnow, Opened, RequestsKnow, Rows, SessionsBound
<1>5. RequestsKnow'
  BY DEF IInv, EndsAreReal, LoginsKnow, Opened, RequestsKnow, Rows, SessionsBound
<1>6. CommandsKnow'
  BY DEF IInv, CommandsKnow, Opened, Rows
<1> QED
  BY <1>1, <1>2, <1>3, <1>4, <1>5, <1>6 DEF IInv

(* Open preserves the invariant.                                    *)
LEMMA OpenInv ==
    ASSUME IInv, NEW l \in Logins, Open(l)
    PROVE  IInv'
<1> USE SettingsAssumption DEF Open, NewSession, Revoked, WithSession, Session, Times, User
<1>a. PICK presented \in SUBSET Opened :
          session' = WithSession(l, presented) /\ ended' = ended \cup presented
  OBVIOUS
<1>b. /\ login[l].seen \in User /\ login[l].since \in Nat /\ login[l].since <= changes
      /\ login[l].seen.sessionEpoch = login[l].since
      /\ login[l].now \in Times /\ login[l].now <= clock
  BY DEF IInv, LoginsKnow
<1>c. l \notin Opened
  BY DEF IInv, SessionsBound
<1>d. NewSession(l) \in Session
  BY <1>b
<1>e. /\ Opened' = Opened \cup {l}
      /\ session'[l] = NewSession(l)
      /\ \A s \in Opened : session'[s] = IF s \in presented THEN Revoked(s) ELSE session[s]
  BY <1>a, <1>c DEF Opened
<1>f. session \in [Opened -> Session]
  BY DEF IInv, Rows
<1>g. \A s \in Opened : /\ session'[s] \in Session
                        /\ session'[s].boundEpoch = session[s].boundEpoch
                        /\ session'[s].expiresAt = session[s].expiresAt
                        /\ session'[s].lastSeenAt = session[s].lastSeenAt
                        /\ (session[s].revoked \/ s \in presented) => session'[s].revoked
  BY <1>e, <1>f
<1>h. /\ session'[l].boundEpoch = login[l].since
      /\ session'[l].lastSeenAt = login[l].now /\ activity'[l] = login[l].now
  BY <1>b, <1>e DEF IInv, Rows
<1>1. Rows'
  <2>1. session' = [s \in Opened' |-> session'[s]]
    BY <1>a, <1>e
  <2>2. session' \in [Opened' -> Session]
    BY <1>d, <1>e, <1>g, <2>1
  <2> QED
    BY <1>b, <1>e, <2>2 DEF IInv, Rows
<1>2. LoginsKnow'
  BY DEF IInv, LoginsKnow, Opened, Rows
<1>3. SessionsBound'
  <2> SUFFICES ASSUME NEW s \in Opened'
               PROVE  /\ login'[s].stage = "opened"
                      /\ login'[s].since = session'[s].boundEpoch
                      /\ session'[s].boundEpoch <= changes
                      /\ session'[s].lastSeenAt <= activity'[s]
    BY DEF SessionsBound
  <2>1. CASE s = l
    BY <1>b, <1>d, <1>h, <2>1 DEF IInv, LoginsKnow, Rows
  <2>2. CASE s \in Opened
    BY <1>c, <1>e, <1>g, <2>2 DEF IInv, SessionsBound, LoginsKnow, Rows
  <2> QED
    BY <1>e, <2>1, <2>2
<1>4. EndsAreReal'
  <2> SUFFICES ASSUME NEW s \in ended'
               PROVE  s \in Opened' /\ (session'[s].revoked \/ session'[s].expiresAt <= clock)
    BY DEF EndsAreReal
  <2>1. s \in Opened /\ (s \in presented \/ session[s].revoked \/ session[s].expiresAt <= clock)
    BY <1>a DEF IInv, EndsAreReal
  <2> QED
    BY <1>e, <1>g, <2>1
<1>5. RequestsKnow'
  <2>1. \A r \in Requests : request[r].stage /= "idle" =>
          /\ request[r].session \in Opened'
          /\ session'[request[r].session].boundEpoch = session[request[r].session].boundEpoch
          /\ session'[request[r].session].expiresAt = session[request[r].session].expiresAt
          /\ activity'[request[r].session] = activity[request[r].session]
    BY <1>c, <1>e, <1>g DEF IInv, RequestsKnow, Rows
  <2>2. UNCHANGED <<request, clock, changes>>
    OBVIOUS
  <2> HIDE DEF Open, NewSession, Revoked, WithSession
  <2> QED
    BY <2>1, <2>2 DEF IInv, RequestsKnow, Opened
<1>6. CommandsKnow'
  BY DEF IInv, CommandsKnow, Opened, Rows
<1> QED
  BY <1>1, <1>2, <1>3, <1>4, <1>5, <1>6 DEF IInv

(* ReadSession preserves the invariant.                                    *)
LEMMA ReadSessionInv ==
    ASSUME IInv, NEW r \in Requests, NEW s \in Logins, ReadSession(r, s)
    PROVE  IInv'
<1> USE SettingsAssumption DEF ReadSession, Opened, Session, Times, Good
<1>1. Rows'
  BY DEF IInv, CommandsKnow, LoginsKnow, Opened, RequestsKnow, Rows, SessionsBound
<1>2. LoginsKnow'
  BY DEF IInv, LoginsKnow, Opened, Rows
<1>3. SessionsBound'
  BY DEF IInv, LoginsKnow, Opened, RequestsKnow, Rows, SessionsBound
<1>4. EndsAreReal'
  BY DEF IInv, CommandsKnow, EndsAreReal, LoginsKnow, Opened, RequestsKnow, Rows, SessionsBound
<1>5. RequestsKnow'
  <2>1. /\ s \in Opened /\ session[s] \in Session
        /\ session[s].lastSeenAt <= activity[s]
        /\ login[s].since = session[s].boundEpoch /\ session[s].boundEpoch <= changes
        /\ Good(s) \in BOOLEAN
    BY DEF IInv, Rows, SessionsBound
  <2>2. ~Good(s) => \/ session[s].revoked \/ session[s].expiresAt <= clock
                    \/ session[s].boundEpoch < changes
    BY <2>1 DEF IInv, EndsAreReal, Rows
  <2>3. request' = [request EXCEPT ![r] = [stage |-> "user", session |-> s,
                                           row |-> session[s], good |-> Good(s)]]
    OBVIOUS
  <2> HIDE DEF ReadSession, Good
  <2>4. UNCHANGED <<clock, session, changes, activity>>
    BY DEF ReadSession
  <2> QED
    BY <2>1, <2>2, <2>3, <2>4 DEF IInv, RequestsKnow
<1>6. CommandsKnow'
  BY DEF IInv, CommandsKnow, Opened, Rows
<1> QED
  BY <1>1, <1>2, <1>3, <1>4, <1>5, <1>6 DEF IInv

(* ReadUser preserves the invariant.                                    *)
LEMMA ReadUserInv ==
    ASSUME IInv, NEW r \in Requests, ReadUser(r)
    PROVE  IInv'
<1> USE SettingsAssumption DEF ReadUser, User, Session, Times
<1>1. Rows'
  BY DEF IInv, CommandsKnow, LoginsKnow, Opened, RequestsKnow, Rows, SessionsBound
<1>2. LoginsKnow'
  BY DEF IInv, LoginsKnow, Opened, Rows
<1>3. SessionsBound'
  BY DEF IInv, LoginsKnow, Opened, RequestsKnow, Rows, SessionsBound
<1>4. EndsAreReal'
  BY DEF IInv, CommandsKnow, EndsAreReal, LoginsKnow, Opened, RequestsKnow, Rows, SessionsBound
<1>5. RequestsKnow'
  BY DEF IInv, EndsAreReal, LoginsKnow, Opened, RequestsKnow, Rows, SessionsBound
<1>6. CommandsKnow'
  BY DEF IInv, CommandsKnow, Opened, Rows
<1> QED
  BY <1>1, <1>2, <1>3, <1>4, <1>5, <1>6 DEF IInv

(* Refuse preserves the invariant.                                    *)
LEMMA RefuseInv ==
    ASSUME IInv, NEW r \in Requests, Refuse(r)
    PROVE  IInv'
<1> USE SettingsAssumption DEF Refuse, Idle
<1>1. Rows'
  BY DEF IInv, CommandsKnow, LoginsKnow, Opened, RequestsKnow, Rows, SessionsBound
<1>2. LoginsKnow'
  BY DEF IInv, LoginsKnow, Opened, Rows
<1>3. SessionsBound'
  BY DEF IInv, LoginsKnow, Opened, RequestsKnow, Rows, SessionsBound
<1>4. EndsAreReal'
  BY DEF IInv, CommandsKnow, EndsAreReal, LoginsKnow, Opened, RequestsKnow, Rows, SessionsBound
<1>5. RequestsKnow'
  BY DEF IInv, EndsAreReal, LoginsKnow, Opened, RequestsKnow, Rows, SessionsBound
<1>6. CommandsKnow'
  BY DEF IInv, CommandsKnow, Opened, Rows
<1> QED
  BY <1>1, <1>2, <1>3, <1>4, <1>5, <1>6 DEF IInv

(* RecordActivity preserves the invariant.                                    *)
LEMMA RecordActivityInv ==
    ASSUME IInv, NEW r \in Requests, RecordActivity(r)
    PROVE  IInv'
<1> USE SettingsAssumption DEF RecordActivity, Handle, Idle, Session, Times, Opened, Purposes
<1> DEFINE s == request[r].session
<1>a. s \in Opened /\ session[s] \in Session /\ s \in Logins
  BY DEF IInv, RequestsKnow, Rows
<1>b. request[r].now \in Times /\ request[r].now <= activity[s]
  BY DEF IInv, RequestsKnow
<1>c. /\ Opened' = Opened /\ \A x \in Opened : x /= s => session'[x] = session[x]
      /\ session'[s] \in Session
      /\ session'[s].boundEpoch = session[s].boundEpoch
      /\ session'[s].expiresAt = session[s].expiresAt
      /\ session'[s].revoked = session[s].revoked
      /\ session'[s].lastSeenAt \in {session[s].lastSeenAt, request[r].now}
      /\ session' = [x \in Opened |-> session'[x]]
  BY <1>a, <1>b DEF IInv, Rows
<1>1. Rows'
  BY <1>a, <1>c DEF IInv, Rows
<1>2. LoginsKnow'
  BY DEF IInv, LoginsKnow, Opened, Rows
<1>3. SessionsBound'
  <2> SUFFICES ASSUME NEW x \in Opened
               PROVE  /\ login[x].stage = "opened"
                      /\ login[x].since = session'[x].boundEpoch
                      /\ session'[x].boundEpoch <= changes
                      /\ session'[x].lastSeenAt <= activity[x]
    BY <1>c DEF SessionsBound
  <2>1. CASE x = s
    BY <1>a, <1>b, <1>c, <2>1 DEF IInv, SessionsBound
  <2>2. CASE x /= s
    BY <1>c, <2>2 DEF IInv, SessionsBound
  <2> QED
    BY <2>1, <2>2
<1>4. EndsAreReal'
  BY DEF IInv, CommandsKnow, EndsAreReal, LoginsKnow, Opened, RequestsKnow, Rows, SessionsBound
<1>5. RequestsKnow'
  BY DEF IInv, EndsAreReal, LoginsKnow, Opened, RequestsKnow, Rows, SessionsBound
<1>6. CommandsKnow'
  BY DEF IInv, CommandsKnow, Opened, Rows
<1> QED
  BY <1>1, <1>2, <1>3, <1>4, <1>5, <1>6 DEF IInv

(* Logout preserves the invariant.                                    *)
LEMMA LogoutInv ==
    ASSUME IInv, NEW r \in Requests, Logout(r)
    PROVE  IInv'
<1> USE SettingsAssumption DEF Logout, Revoked, Idle, Session, Times, Opened
<1> DEFINE s == request[r].session
<1>a. s \in Opened /\ session[s] \in Session /\ s \in Logins
  BY DEF IInv, RequestsKnow, Rows
<1>c. /\ Opened' = Opened /\ \A x \in Opened : x /= s => session'[x] = session[x]
      /\ session'[s] \in Session
      /\ session'[s].boundEpoch = session[s].boundEpoch
      /\ session'[s].expiresAt = session[s].expiresAt
      /\ session'[s].revoked
      /\ session'[s].lastSeenAt = session[s].lastSeenAt
      /\ session' = [x \in Opened |-> session'[x]]
  BY <1>a DEF IInv, Rows
<1>1. Rows'
  BY <1>a, <1>c DEF IInv, Rows
<1>2. LoginsKnow'
  BY DEF IInv, LoginsKnow, Opened, Rows
<1>3. SessionsBound'
  <2> SUFFICES ASSUME NEW x \in Opened
               PROVE  /\ login[x].stage = "opened"
                      /\ login[x].since = session'[x].boundEpoch
                      /\ session'[x].boundEpoch <= changes
                      /\ session'[x].lastSeenAt <= activity[x]
    BY <1>c DEF SessionsBound
  <2>1. CASE x = s
    BY <1>a, <1>c, <2>1 DEF IInv, SessionsBound
  <2>2. CASE x /= s
    BY <1>c, <2>2 DEF IInv, SessionsBound
  <2> QED
    BY <2>1, <2>2
<1>4. EndsAreReal'
  BY DEF IInv, CommandsKnow, EndsAreReal, LoginsKnow, Opened, RequestsKnow, Rows, SessionsBound
<1>5. RequestsKnow'
  BY DEF IInv, EndsAreReal, LoginsKnow, Opened, RequestsKnow, Rows, SessionsBound
<1>6. CommandsKnow'
  BY DEF IInv, CommandsKnow, Opened, Rows
<1> QED
  BY <1>1, <1>2, <1>3, <1>4, <1>5, <1>6 DEF IInv

(* Accept preserves the invariant.                                    *)
LEMMA AcceptInv ==
    ASSUME IInv, NEW r \in Requests, NEW p \in Purposes, Accept(r, p)
    PROVE  IInv'
<1> USE SettingsAssumption DEF Accept, Handle, Idle, Times, Session, Purposes, Usable, CountsAsActivity, Opened
<1>1. Rows'
  BY DEF IInv, CommandsKnow, LoginsKnow, Opened, RequestsKnow, Rows, SessionsBound
<1>2. LoginsKnow'
  BY DEF IInv, LoginsKnow, Opened, Rows
<1>3. SessionsBound'
  <2>1. \A s \in Logins : activity[s] <= activity'[s] /\ activity[s] \in Times
                          /\ activity'[s] \in Times
    BY DEF IInv, Rows
  <2>2. \A s \in Opened : s \in Logins /\ session[s] \in Session
    BY DEF IInv, Rows
  <2> QED
    BY <2>1, <2>2 DEF IInv, SessionsBound
<1>4. EndsAreReal'
  BY DEF IInv, CommandsKnow, EndsAreReal, LoginsKnow, Opened, RequestsKnow, Rows, SessionsBound
<1>5. RequestsKnow'
  BY DEF IInv, EndsAreReal, LoginsKnow, Opened, RequestsKnow, Rows, SessionsBound
<1>6. CommandsKnow'
  BY DEF IInv, CommandsKnow, Opened, Rows
<1> QED
  BY <1>1, <1>2, <1>3, <1>4, <1>5, <1>6 DEF IInv

(* StartCommand preserves the invariant.                                    *)
LEMMA StartCommandInv ==
    ASSUME IInv, NEW c \in Commands, NEW k \in Kinds, StartCommand(c, k)
    PROVE  IInv'
<1> USE SettingsAssumption DEF StartCommand, Idle, Times, NothingToDo, Kinds
<1>1. Rows'
  BY DEF IInv, CommandsKnow, LoginsKnow, Opened, RequestsKnow, Rows, SessionsBound
<1>2. LoginsKnow'
  BY DEF IInv, LoginsKnow, Opened, Rows
<1>3. SessionsBound'
  BY DEF IInv, LoginsKnow, Opened, RequestsKnow, Rows, SessionsBound
<1>4. EndsAreReal'
  BY DEF IInv, CommandsKnow, EndsAreReal, LoginsKnow, Opened, RequestsKnow, Rows, SessionsBound
<1>5. RequestsKnow'
  BY DEF IInv, EndsAreReal, LoginsKnow, Opened, RequestsKnow, Rows, SessionsBound
<1>6. CommandsKnow'
  BY DEF IInv, CommandsKnow, Opened, Rows
<1> QED
  BY <1>1, <1>2, <1>3, <1>4, <1>5, <1>6 DEF IInv

(* RunCommand preserves the invariant.                                    *)
LEMMA RunCommandInv ==
    ASSUME IInv, NEW c \in Commands, RunCommand(c)
    PROVE  IInv'
<1> USE SettingsAssumption DEF RunCommand, Changed, RevokeActive, Revoked, User, Session, Times, Opened, Kinds
<1>a. /\ command[c].now \in Times /\ command[c].now <= clock
      /\ clock \in Times /\ user \in User /\ changes \in Nat
      /\ session \in [Opened -> Session]
  BY DEF IInv, CommandsKnow, Rows
<1>b. /\ session' = [s \in Opened |->
             IF session[s].expiresAt > command[c].now THEN Revoked(s) ELSE session[s]]
      /\ changes' = changes + 1 /\ ended' = ended \cup Opened
      /\ UNCHANGED <<clock, login, request, activity>>
  OBVIOUS
<1> DEFINE enabled == IF command[c].kind \in {"disable", "enable"}
                      THEN command[c].kind = "enable" ELSE user.enabled
<1>c. user' \in User /\ user'.sessionEpoch = user.sessionEpoch + 1
  <2>1. enabled \in BOOLEAN
    BY <1>a
  <2>2. user' = [enabled |-> enabled,
                 password |-> IF command[c].kind = "password" THEN user.password + 1
                              ELSE user.password,
                 sessionEpoch |-> user.sessionEpoch + 1]
    OBVIOUS
  <2> HIDE DEF enabled
  <2> QED
    BY <1>a, <2>1, <2>2
<1>d. /\ DOMAIN session' = Opened
      /\ \A s \in Opened :
            /\ session'[s] \in Session
            /\ session'[s].boundEpoch = session[s].boundEpoch
            /\ session'[s].expiresAt = session[s].expiresAt
            /\ session'[s].lastSeenAt = session[s].lastSeenAt
            /\ session[s].revoked => session'[s].revoked
            /\ session[s].expiresAt > command[c].now => session'[s].revoked
            /\ session[s].boundEpoch \in Nat /\ session[s].expiresAt \in Nat
  <2> SUFFICES ASSUME NEW s \in Opened
               PROVE  /\ session'[s] \in Session
                      /\ session'[s].boundEpoch = session[s].boundEpoch
                      /\ session'[s].expiresAt = session[s].expiresAt
                      /\ session'[s].lastSeenAt = session[s].lastSeenAt
                      /\ session[s].revoked => session'[s].revoked
                      /\ session[s].expiresAt > command[c].now => session'[s].revoked
                      /\ session[s].boundEpoch \in Nat /\ session[s].expiresAt \in Nat
    BY <1>b
  <2>1. session'[s] = IF session[s].expiresAt > command[c].now THEN Revoked(s)
                     ELSE session[s]
    BY <1>b
  <2>2. session[s] \in Session
    BY <1>a
  <2> QED
    BY <2>1, <2>2
<1>1. Rows'
  <2>1. session' \in [Opened -> Session]
    BY <1>b, <1>d
  <2> QED
    BY <1>a, <1>b, <1>c, <1>d, <2>1 DEF IInv, Rows
<1>2. LoginsKnow'
  BY DEF IInv, LoginsKnow, Opened, Rows
<1>3. SessionsBound'
  <2> SUFFICES ASSUME NEW s \in Opened
               PROVE  /\ login[s].stage = "opened"
                      /\ login[s].since = session'[s].boundEpoch
                      /\ session'[s].boundEpoch <= changes'
                      /\ session'[s].lastSeenAt <= activity[s]
    BY <1>b, <1>d DEF SessionsBound
  <2>1. /\ login[s].stage = "opened" /\ login[s].since = session[s].boundEpoch
        /\ session[s].boundEpoch <= changes /\ session[s].lastSeenAt <= activity[s]
        /\ session[s].boundEpoch \in Nat
    BY <1>a DEF IInv, SessionsBound
  <2>2. /\ session'[s].boundEpoch = session[s].boundEpoch
        /\ session'[s].lastSeenAt = session[s].lastSeenAt
        /\ changes' = changes + 1 /\ changes \in Nat
    BY <1>a, <1>b, <1>d
  <2> QED
    BY <2>1, <2>2
<1>4. EndsAreReal'
  <2> SUFFICES ASSUME NEW s \in Opened
               PROVE  session'[s].revoked \/ session'[s].expiresAt <= clock
    BY <1>b, <1>d DEF IInv, EndsAreReal, Opened
  <2>1. session[s].expiresAt > command[c].now \/ session[s].expiresAt <= clock
    BY <1>a, <1>d DEF Times
  <2> QED
    BY <1>d, <2>1
<1>5. RequestsKnow'
  BY DEF IInv, EndsAreReal, LoginsKnow, Opened, RequestsKnow, Rows, SessionsBound
<1>6. CommandsKnow'
  BY DEF IInv, CommandsKnow, Opened, Rows
<1> QED
  BY <1>1, <1>2, <1>3, <1>4, <1>5, <1>6 DEF IInv

(* CommandFindsItDone preserves the invariant.                                    *)
LEMMA CommandFindsItDoneInv ==
    ASSUME IInv, NEW c \in Commands, CommandFindsItDone(c)
    PROVE  IInv'
<1> USE SettingsAssumption DEF CommandFindsItDone, Idle
<1>1. Rows'
  BY DEF IInv, CommandsKnow, LoginsKnow, Opened, RequestsKnow, Rows, SessionsBound
<1>2. LoginsKnow'
  BY DEF IInv, LoginsKnow, Opened, Rows
<1>3. SessionsBound'
  BY DEF IInv, LoginsKnow, Opened, RequestsKnow, Rows, SessionsBound
<1>4. EndsAreReal'
  BY DEF IInv, CommandsKnow, EndsAreReal, LoginsKnow, Opened, RequestsKnow, Rows, SessionsBound
<1>5. RequestsKnow'
  BY DEF IInv, EndsAreReal, LoginsKnow, Opened, RequestsKnow, Rows, SessionsBound
<1>6. CommandsKnow'
  BY DEF IInv, CommandsKnow, Opened, Rows
<1> QED
  BY <1>1, <1>2, <1>3, <1>4, <1>5, <1>6 DEF IInv

(* A step that changes nothing preserves the invariant.                    *)
LEMMA StutterInv ==
    ASSUME IInv, UNCHANGED vars
    PROVE  IInv'
  BY DEF vars, IInv, Rows, LoginsKnow, SessionsBound, EndsAreReal, RequestsKnow,
         CommandsKnow, Opened

(* The invariant is inductive.                                             *)
LEMMA StepInv == IInv /\ [Next]_vars => IInv'
<1> SUFFICES ASSUME IInv, [Next]_vars PROVE IInv'
  OBVIOUS
<1>1. CASE Tick
  BY <1>1, TickInv
<1>2. ASSUME NEW l \in Logins, LoginStep(l) PROVE IInv'
  BY <1>2, ReadForLoginInv, VerifyInv, RejectInv, OpenInv DEF LoginStep
<1>3. ASSUME NEW r \in Requests, RequestStep(r) PROVE IInv'
  BY <1>3, ReadSessionInv, ReadUserInv, RefuseInv, RecordActivityInv, LogoutInv, AcceptInv
     DEF RequestStep
<1>4. ASSUME NEW c \in Commands, CommandStep(c) PROVE IInv'
  BY <1>4, StartCommandInv, RunCommandInv, CommandFindsItDoneInv DEF CommandStep
<1>5. CASE UNCHANGED vars
  BY <1>5, StutterInv
<1> QED
  BY <1>1, <1>2, <1>3, <1>4, <1>5 DEF Next

(* The invariant holds in every reachable state.                           *)
THEOREM Invariant == Spec => []IInv
  BY InitInv, StepInv, PTL DEF Spec

(* Variables keep their types.                                             *)
THEOREM TypeCorrect == Spec => []TypeOK
<1>1. IInv => TypeOK
  BY DEF IInv, Rows, LoginsKnow, EndsAreReal, RequestsKnow, CommandsKnow, TypeOK
<1> QED
  BY <1>1, Invariant, PTL

(* A change of the account outdates every session opened from what was     *)
(* read before it, and whatever the logins in flight, none is left usable. *)
THEOREM EpochOutdates == Spec => []EpochOutdatesSessions
<1>1. IInv => EpochOutdatesSessions
  BY DEF IInv, Rows, SessionsBound, EpochOutdatesSessions
<1> QED
  BY <1>1, Invariant, PTL

(* A session whose end was announced has a revoked or an expired row.      *)
THEOREM EndsRevokeRows == Spec => []ChangesRevokeRows
<1>1. IInv => ChangesRevokeRows
  BY DEF IInv, EndsAreReal, ChangesRevokeRows
<1> QED
  BY <1>1, Invariant, PTL

(* The verdict on a request sees what ended before the request arrived.    *)
LEMMA VerdictIsSound ==
    ASSUME IInv, NEW r \in Requests, NEW purpose \in Purposes, Accept(r, purpose)
    PROVE  /\ request[r].good
           /\ clock < session[request[r].session].expiresAt
           /\ clock - activity[request[r].session] <= IdleTimeout
<1> DEFINE s == request[r].session
<1>1. /\ request[r].stage = "check"
      /\ Usable(request[r].row, request[r].enabled, request[r].epoch)
  BY DEF Accept
<1>2. /\ request[r].row \in Session /\ s \in Opened
      /\ request[r].row.expiresAt = session[s].expiresAt
      /\ request[r].row.lastSeenAt <= activity[s]
      /\ request[r].epoch \in Nat
      /\ ~request[r].good => \/ request[r].row.revoked \/ request[r].row.expiresAt <= clock
                             \/ request[r].row.boundEpoch < request[r].epoch
  BY <1>1 DEF IInv, RequestsKnow
<1>3. clock \in Int /\ activity[s] \in Int /\ IdleTimeout \in Int
  BY <1>2, SettingsAssumption DEF IInv, Rows, Times
<1> QED
  BY <1>1, <1>2, <1>3 DEF Usable, Session, Times

(* No request is accepted for a session that had ended when it arrived.    *)
THEOREM EndedStayOut == Spec => EndedSessionsStayOut
<1>1. IInv /\ [Next]_vars => [\A r \in Requests, purpose \in Purposes :
                                 Accept(r, purpose) => request[r].good]_vars
  BY VerdictIsSound
<1> QED
  BY <1>1, Invariant, PTL DEF Spec, EndedSessionsStayOut

(* No request is accepted for a session past its expiry or its idle        *)
(* timeout.                                                                *)
THEOREM AcceptsInTime == Spec => AcceptedInTime
<1>1. IInv /\ [Next]_vars =>
        [\A r \in Requests, purpose \in Purposes : Accept(r, purpose) =>
            LET s == request[r].session IN
            /\ clock < session[s].expiresAt
            /\ clock - activity[s] <= IdleTimeout]_vars
  BY VerdictIsSound
<1> QED
  BY <1>1, Invariant, PTL DEF Spec, AcceptedInTime
-----------------------------------------------------------------------------
(* The HTTP pipeline implements SignIn: what it asks of the session store  *)
(* is what a request of SignIn does, in its order.                         *)

(* An HTTP request on its way belongs to a request of SignIn.              *)
CallKnows ==
    \/ call \in [stage : {"received", "guard", "lookup", "handle"}, request : Requested,
                 by : Requests]
    \/ call.stage \in {"none", "answered"}

(* Every step of the pipeline is a step of SignIn or leaves it alone.      *)
LEMMA PipelineStep ==
    ASSUME Opened \subseteq Logins, CallKnows, [PipelineNext]_pipelineVars
    PROVE  [Next]_vars /\ CallKnows'
<1>1. CASE call = NoCall /\ Next /\ UNCHANGED call
  BY <1>1 DEF CallKnows
<1>2. ASSUME NEW r \in Requests, Arrive(r) PROVE UNCHANGED vars /\ CallKnows'
  BY <1>2 DEF Arrive, CallKnows
<1>3. CASE Receive
  <2> DEFINE q == call.request
             status == FirstRefusal(<<PolicyStatus(q), ParserStatus(q), RouteStatus(q)>>)
             stage == IF Routes[q.op].public THEN "handle" ELSE "guard"
  <2>1. /\ call.stage = "received" /\ UNCHANGED vars
        /\ call' = IF status /= Pass THEN Answered(status, FALSE)
                   ELSE [call EXCEPT !.stage = stage]
    BY <1>3 DEF Receive
  <2>2. CASE status /= Pass
    BY <2>1, <2>2 DEF Answered, CallKnows
  <2>3. CASE status = Pass
    <3>1. stage \in {"handle", "guard"}
      OBVIOUS
    <3>2. call' = [call EXCEPT !.stage = stage] /\ call.stage = "received"
      BY <2>1, <2>3
    <3> HIDE DEF stage
    <3> QED
      BY <2>1, <3>1, <3>2 DEF CallKnows
  <2> QED
    BY <2>2, <2>3
<1>4. CASE NoCookie
  BY <1>4 DEF NoCookie, Answered, CallKnows, NoCall
<1>5. CASE LookUpSession
  <2>1. call.by \in Requests /\ CallKnows'
    BY <1>5 DEF LookUpSession, CallKnows, NoCall
  <2>2. PICK s \in Logins : ReadSession(call.by, s)
    BY <1>5 DEF LookUpSession
  <2> QED
    BY <2>1, <2>2 DEF Next, RequestStep
<1>6. CASE LookUpUser
  BY <1>6 DEF LookUpUser, CallKnows, NoCall, Next, RequestStep
<1>7. CASE Admit
  <2>1. call.by \in Requests /\ CallKnows'
    BY <1>7 DEF Admit, CallKnows, NoCall
  <2>2. PurposeOf(call.request) \in Purposes
    BY DEF PurposeOf, Purposes
  <2> QED
    BY <1>7, <2>1, <2>2 DEF Admit, Next, RequestStep
<1>8. CASE TurnAway
  BY <1>8 DEF TurnAway, Answered, CallKnows, NoCall, Next, RequestStep
<1>9. CASE Attend
  BY <1>9 DEF Attend, CallKnows, NoCall, Next, RequestStep
<1>10. CASE RefuseInHandler \/ RefuseInService \/ Succeed
  BY <1>10 DEF RefuseInHandler, RefuseInService, Succeed, Handled, Answered, CallKnows, NoCall
<1>11. CASE call.stage = "lookup" /\ (\E c \in Commands : RunCommand(c)) /\ UNCHANGED call
  BY <1>11 DEF CallKnows, Next, CommandStep
<1>12. CASE UNCHANGED pipelineVars
  BY <1>12 DEF pipelineVars, CallKnows
<1> QED
  BY <1>1, <1>2, <1>3, <1>4, <1>5, <1>6, <1>7, <1>8, <1>9, <1>10, <1>11, <1>12
     DEF PipelineNext

(* Sessions and commands behave under the HTTP pipeline as SignIn says.    *)
THEOREM PipelineImplementsSignIn == PipelineSpec => Spec
<1>1. PipelineInit => Init /\ IInv /\ CallKnows
  BY InitInv DEF PipelineInit, CallKnows, NoCall
<1>2. IInv /\ CallKnows /\ [PipelineNext]_pipelineVars => [Next]_vars /\ IInv' /\ CallKnows'
  BY PipelineStep, StepInv DEF IInv, Rows
<1> QED
  BY <1>1, <1>2, PTL DEF PipelineSpec, Spec

(* So under it, too, a change of the account outdates every session opened *)
(* before, an ended session stays out, and idle and absolute limits hold.  *)
THEOREM PipelineKeepsSessionsSound ==
    PipelineSpec => []EpochOutdatesSessions /\ EndedSessionsStayOut /\ AcceptedInTime
  BY PipelineImplementsSignIn, EpochOutdates, EndedStayOut, AcceptsInTime

-----------------------------------------------------------------------------
(***************************************************************************)
(* What the pipeline answers.                                              *)
(*                                                                         *)
(* The tables are compared kind of row by kind of row: a row matches when  *)
(* the contract declares what the handler may answer and the client sends  *)
(* what the handler expects.  A request keeps what arrived, and while it   *)
(* is on its way only a revocation changes the session it presents.        *)
(***************************************************************************)

(* The operation declares whatever its handler may answer.                 *)
Declares(spec, handler) ==
    /\ handler.code = spec.success
    /\ ~handler.public => 401 \in spec.errors
    /\ handler.path => spec.path /\ 404 \in spec.errors
    /\ handler.body => 422 \in spec.errors
    /\ handler.write => spec.keyed /\ 409 \in spec.errors /\ handler.target = spec.target
    /\ handler.write /\ spec.target /= None => {412, 428} \subseteq spec.errors
    /\ handler.refusals \subseteq spec.errors

(* What the client sends is what the handler of the operation expects.     *)
Suits(spec, handler, sent) ==
    /\ handler.body => sent.body = spec.body
    /\ handler.write => sent.key /\ sent.ifMatch = spec.target
    /\ handler.public \/ sent.csrf \/ Safe(spec.method)
    /\ sent.awaits => handler.etag

(* Three rows about one operation, and three tables about the same ones.   *)
Matches(spec, handler, sent) ==
    {400, 403} \subseteq spec.errors /\ Declares(spec, handler) /\ Suits(spec, handler, sent)
Corresponds(o, r, w) ==
    /\ DOMAIN r = DOMAIN o /\ DOMAIN w = DOMAIN o
    /\ \A op \in DOMAIN o : Matches(o[op], r[op], w[op])

(* The rows of a table of one specification.                               *)
LEMMA EachIs ==
  ASSUME NEW S, NEW value
  PROVE  DOMAIN Each(S, value) = S /\ \A op \in S : Each(S, value)[op] = value
  BY DEF Each

(* The rows of two tables in one: where both have one, the first's.        *)
LEMMA JointIs ==
  ASSUME NEW f, NEW g
  PROVE  /\ DOMAIN Joint(f, g) = DOMAIN f \cup DOMAIN g
         /\ \A op \in DOMAIN f : Joint(f, g)[op] = f[op]
         /\ \A op \in DOMAIN g \ DOMAIN f : Joint(f, g)[op] = g[op]
  BY DEF Joint

(* What two tables in one say of an operation.                             *)
LEMMA Looked ==
  ASSUME NEW f, NEW g, NEW op
  PROVE  /\ op \in DOMAIN (f ++ g) <=> op \in DOMAIN f \/ op \in DOMAIN g
         /\ op \in DOMAIN f => (f ++ g)[op] = f[op]
         /\ op \notin DOMAIN f /\ op \in DOMAIN g => (f ++ g)[op] = g[op]
<1> DEFINE both == f ++ g
<1>1. /\ DOMAIN both = DOMAIN f \cup DOMAIN g
      /\ \A x \in DOMAIN f : both[x] = f[x]
      /\ \A x \in DOMAIN g \ DOMAIN f : both[x] = g[x]
  BY JointIs DEF ++
<1> HIDE DEF both
<1>2. /\ op \in DOMAIN both <=> op \in DOMAIN f \/ op \in DOMAIN g
      /\ op \in DOMAIN f => both[op] = f[op]
      /\ op \notin DOMAIN f /\ op \in DOMAIN g => both[op] = g[op]
  BY <1>1
<1> QED
  BY <1>2 DEF both

(* What a table of one specification says of an operation.                 *)
LEMMA LookedEach ==
  ASSUME NEW S, NEW value, NEW op
  PROVE  /\ op \in DOMAIN Each(S, value) <=> op \in S
         /\ op \in S => Each(S, value)[op] = value
  BY EachIs

(* Tables that correspond do so together.                                  *)
LEMMA Joined ==
  ASSUME NEW o, NEW r, NEW w, NEW p, NEW s, NEW v, Corresponds(o, r, w), Corresponds(p, s, v)
  PROVE  Corresponds(o ++ p, r ++ s, w ++ v)
<1> DEFINE op1 == o ++ p  rs == r ++ s  wv == w ++ v  D == DOMAIN o \cup DOMAIN p
<1>1. /\ DOMAIN r = DOMAIN o /\ DOMAIN w = DOMAIN o /\ DOMAIN s = DOMAIN p /\ DOMAIN v = DOMAIN p
      /\ \A op \in DOMAIN o : Matches(o[op], r[op], w[op])
      /\ \A op \in DOMAIN p : Matches(p[op], s[op], v[op])
  BY DEF Corresponds
<1>2. /\ DOMAIN op1 = D
      /\ \A op \in DOMAIN o : op1[op] = o[op]
      /\ \A op \in DOMAIN p \ DOMAIN o : op1[op] = p[op]
  BY JointIs DEF ++
<1>3. /\ DOMAIN rs = DOMAIN r \cup DOMAIN s
      /\ \A op \in DOMAIN r : rs[op] = r[op]
      /\ \A op \in DOMAIN s \ DOMAIN r : rs[op] = s[op]
  BY JointIs DEF ++
<1>4. /\ DOMAIN wv = DOMAIN w \cup DOMAIN v
      /\ \A op \in DOMAIN w : wv[op] = w[op]
      /\ \A op \in DOMAIN v \ DOMAIN w : wv[op] = v[op]
  BY JointIs DEF ++
<1> HIDE DEF op1, rs, wv
<1>5. DOMAIN rs = D /\ DOMAIN wv = D
  BY <1>1, <1>3, <1>4
<1>6. ASSUME NEW op \in D PROVE Matches(op1[op], rs[op], wv[op])
  <2>1. CASE op \in DOMAIN o
    BY <1>1, <1>2, <1>3, <1>4, <2>1
  <2>2. CASE op \in DOMAIN p \ DOMAIN o
    BY <1>1, <1>2, <1>3, <1>4, <2>2
  <2> QED
    BY <2>1, <2>2
<1>7. Corresponds(op1, rs, wv)
  BY <1>2, <1>5, <1>6 DEF Corresponds
<1> QED
  BY <1>7 DEF op1, rs, wv

(* The rows of the reads.                                                  *)
LEMMA ReadsMatch ==
  /\ Matches(Listing, Paged, Fetched) /\ Matches(Reading, PagedUnder, Fetched)
  /\ Matches(Reading, Shown, Fetched) /\ Matches(Reading, ShownVersioned, Awaiting(Fetched))
  BY DEF Matches, Declares, Suits, Listing, Reading, Getting, ReadErrors, Paged, PagedUnder, Shown,
         ShownVersioned, Fetched, Awaiting, Safe

(* The rows of the writes that need no ETag.                               *)
LEMMA CreatesMatch ==
  /\ Matches(Creating, Versioned(Inserted), Awaiting(Written))
  /\ Matches(Creating, Inserted, Written)
  /\ Matches(Appending, Appended, Written)
  /\ Matches(Rechecking, Rechecked, Written)
  BY DEF Matches, Declares, Suits, Creating, Appending, Rechecking, Listing, Getting, ReadErrors,
         ConditionalErrors, Inserted, Appended, Rechecked, Versioned, Shown, Fetched, Written,
         Awaiting, Safe

(* The rows of the writes that present the ETag of a record.               *)
LEMMA ChangesMatch ==
  ASSUME NEW t
  PROVE  /\ Matches(AppendingTo(t), AppendedTo(t), WrittenTo(t))
         /\ Matches(AppendingTo(t), Versioned(AppendedTo(t)), Awaiting(WrittenTo(t)))
         /\ Matches(Commanding(t), Commanded(t), Awaiting(WrittenTo(t)))
         /\ Matches(Patching(t), Commanded(t), Awaiting(WrittenTo(t)))
         /\ Matches(Deleting(t), Deleted(t), Removed(t))
<1>1. Matches(AppendingTo(t), AppendedTo(t), WrittenTo(t))
  BY DEF Matches, Declares, Suits, AppendingTo, Rechecking, Appending, Creating, Listing,
         Getting, ReadErrors, ConditionalErrors, AppendedTo, Appended, Shown,
         WrittenTo, Written, Fetched, Safe
<1>2. Matches(AppendingTo(t), Versioned(AppendedTo(t)), Awaiting(WrittenTo(t)))
  BY DEF Matches, Declares, Suits, AppendingTo, Rechecking, Appending, Creating, Listing,
         Getting, ReadErrors, ConditionalErrors, Versioned, AppendedTo, Appended, Shown,
         Awaiting, WrittenTo, Written, Fetched, Safe
<1>3. Matches(Commanding(t), Commanded(t), Awaiting(WrittenTo(t)))
  BY DEF Matches, Declares, Suits, Commanding, AppendingTo, Rechecking, Appending, Creating,
         Listing, Getting, ReadErrors, ConditionalErrors, Commanded, Versioned, AppendedTo,
         Appended, Shown, Awaiting, WrittenTo, Written, Fetched, Safe
<1>4. Matches(Patching(t), Commanded(t), Awaiting(WrittenTo(t)))
  BY DEF Matches, Declares, Suits, Patching, Commanding, AppendingTo, Rechecking, Appending,
         Creating, Listing, Getting, ReadErrors, ConditionalErrors, Commanded, Versioned,
         AppendedTo, Appended, Shown, Awaiting, WrittenTo, Written, Fetched, Safe
<1>5. Matches(Deleting(t), Deleted(t), Removed(t))
  BY DEF Matches, Declares, Suits, Deleting, Commanding, AppendingTo, Rechecking, Appending,
         Creating, Listing, Getting, ReadErrors, ConditionalErrors, Deleted, AppendedTo,
         Appended, Shown, Removed, WrittenTo, Written, Fetched, Safe
<1> QED
  BY <1>1, <1>2, <1>3, <1>4, <1>5

(* Operations with the same rows.                                          *)
LEMMA EachCorresponds ==
  ASSUME NEW S, NEW a, NEW b, NEW c, Matches(a, b, c)
  PROVE  Corresponds(Each(S, a), Each(S, b), Each(S, c))
  BY EachIs DEF Corresponds

(* The operations of a record of the directory, and its commands.          *)
LEMMA RecordsCorrespond ==
  ASSUME NEW list, NEW create, NEW get, NEW patch, NEW delete, NEW commands, NEW t
  PROVE  Corresponds(Records(list, create, get, patch, delete, t) ++ Each(commands, Commanding(t)),
                     RecordHandlers(list, create, get, patch, delete, t)
                       ++ Each(commands, Commanded(t)),
                     RecordCalls(list, create, get, patch, delete, t)
                       ++ Each(commands, Awaiting(WrittenTo(t))))
<1>1. Corresponds(Each({list}, Listing), Each({list}, Paged), Each({list}, Fetched))
  BY EachCorresponds, ReadsMatch
<1>2. Corresponds(Each({create}, Creating), Each({create}, Versioned(Inserted)),
                  Each({create}, Awaiting(Written)))
  BY EachCorresponds, CreatesMatch
<1>3. Corresponds(Each({get}, Reading), Each({get}, ShownVersioned),
                  Each({get}, Awaiting(Fetched)))
  BY EachCorresponds, ReadsMatch
<1>4. /\ Corresponds(Each({patch}, Patching(t)), Each({patch}, Commanded(t)),
                     Each({patch}, Awaiting(WrittenTo(t))))
      /\ Corresponds(Each({delete}, Deleting(t)), Each({delete}, Deleted(t)),
                     Each({delete}, Removed(t)))
      /\ Corresponds(Each(commands, Commanding(t)), Each(commands, Commanded(t)),
                     Each(commands, Awaiting(WrittenTo(t))))
  BY EachCorresponds, ChangesMatch
<1> QED
  BY <1>1, <1>2, <1>3, <1>4, Joined DEF Records, RecordHandlers, RecordCalls

(* The operations of a record kept under its case.                         *)
LEMMA ChildrenCorrespond ==
  ASSUME NEW list, NEW create, NEW get, NEW patch, NEW commands, NEW t
  PROVE  Corresponds(Children(list, create, get, patch, commands, t),
                     ChildHandlers(list, create, get, patch, commands, t),
                     ChildCalls(list, create, get, patch, commands, t))
<1>1. /\ Corresponds(Each({list}, Reading), Each({list}, PagedUnder), Each({list}, Fetched))
      /\ Corresponds(Each({get}, Reading), Each({get}, ShownVersioned),
                     Each({get}, Awaiting(Fetched)))
  BY EachCorresponds, ReadsMatch
<1>2. Corresponds(Each({create}, AppendingTo("CaseRecord")),
                  Each({create}, Versioned(AppendedTo("CaseRecord"))),
                  Each({create}, Awaiting(WrittenTo("CaseRecord"))))
  BY EachCorresponds, ChangesMatch
<1>3. /\ Corresponds(Each({patch}, Patching(t)), Each({patch}, Commanded(t)),
                     Each({patch}, Awaiting(WrittenTo(t))))
      /\ Corresponds(Each(commands, Commanding(t)), Each(commands, Commanded(t)),
                     Each(commands, Awaiting(WrittenTo(t))))
  BY EachCorresponds, ChangesMatch
<1> QED
  BY <1>1, <1>2, <1>3, Joined DEF Children, ChildHandlers, ChildCalls

(* The tables, component by component: the records and the children.       *)
LEMMA FamiliesCorrespond ==
  /\ Corresponds(AgencyRecords ++ AgencyCommands, AgencyHandlers, AgencyCalls)
  /\ Corresponds(OwnerRecords ++ OwnerCommands, OwnerHandlers, OwnerCalls)
  /\ Corresponds(LegalSubjectRecords ++ LegalSubjectCommands, LegalSubjectHandlers,
                 LegalSubjectCalls)
  /\ Corresponds(SignerRecords ++ SignerCommands, SignerHandlers, SignerCalls)
  /\ Corresponds(RouteRecords ++ RouteCommands, RouteHandlers, RouteCalls)
  /\ Corresponds(MandateRecords ++ MandateCommands, MandateHandlers, MandateCalls)
  /\ Corresponds(CaseRecords ++ CaseCommands, CaseHandlers, CaseCalls)
  /\ Corresponds(ReportedItemOperations, ReportedItemHandlers, ReportedItemCalls)
  /\ Corresponds(CaseWorkOperations, CaseWorkHandlers, CaseWorkCalls)
  /\ Corresponds(UseMappingOperations, UseMappingHandlers, UseMappingCalls)
<1>1. Corresponds(AgencyRecords ++ AgencyCommands, AgencyHandlers, AgencyCalls)
  BY RecordsCorrespond DEF AgencyRecords, AgencyCommands, AgencyHandlers, AgencyCalls
<1>2. Corresponds(OwnerRecords ++ OwnerCommands, OwnerHandlers, OwnerCalls)
  BY RecordsCorrespond DEF OwnerRecords, OwnerCommands, OwnerHandlers, OwnerCalls
<1>3. Corresponds(LegalSubjectRecords ++ LegalSubjectCommands, LegalSubjectHandlers,
                  LegalSubjectCalls)
  BY RecordsCorrespond
     DEF LegalSubjectRecords, LegalSubjectCommands, LegalSubjectHandlers, LegalSubjectCalls
<1>4. Corresponds(SignerRecords ++ SignerCommands, SignerHandlers, SignerCalls)
  BY RecordsCorrespond DEF SignerRecords, SignerCommands, SignerHandlers, SignerCalls
<1>5. Corresponds(RouteRecords ++ RouteCommands, RouteHandlers, RouteCalls)
  BY RecordsCorrespond DEF RouteRecords, RouteCommands, RouteHandlers, RouteCalls
<1>6. Corresponds(MandateRecords ++ MandateCommands, MandateHandlers, MandateCalls)
  BY RecordsCorrespond DEF MandateRecords, MandateCommands, MandateHandlers, MandateCalls
<1>7. Corresponds(CaseRecords ++ CaseCommands, CaseHandlers, CaseCalls)
  BY RecordsCorrespond DEF CaseRecords, CaseCommands, CaseHandlers, CaseCalls
<1>8. Corresponds(ReportedItemOperations, ReportedItemHandlers, ReportedItemCalls)
  BY ChildrenCorrespond DEF ReportedItemOperations, ReportedItemHandlers, ReportedItemCalls
<1>9. Corresponds(CaseWorkOperations, CaseWorkHandlers, CaseWorkCalls)
  BY ChildrenCorrespond DEF CaseWorkOperations, CaseWorkHandlers, CaseWorkCalls
<1>10. Corresponds(UseMappingOperations, UseMappingHandlers, UseMappingCalls)
  BY ChildrenCorrespond DEF UseMappingOperations, UseMappingHandlers, UseMappingCalls
<1> QED
  BY <1>1, <1>2, <1>3, <1>4, <1>5, <1>6, <1>7, <1>8, <1>9, <1>10

(* The rows of the operations that differ from their kind in one thing.    *)
LEMMA OddRowsMatch ==
  /\ Matches([Appending EXCEPT !.success = 200], [Appended EXCEPT !.code = 200], Written)
  /\ Matches(Reading, [PagedUnder EXCEPT !.refusals = @ \cup {409, 422}], Fetched)
  /\ Matches([Rechecking EXCEPT !.success = 200], [Rechecked EXCEPT !.code = 200], Written)
<1>1. Matches([Appending EXCEPT !.success = 200], [Appended EXCEPT !.code = 200], Written)
  BY DEF Matches, Declares, Suits, Appending, Creating, Listing, Getting, ReadErrors, Appended,
         Shown, Fetched, Written, Safe
<1>2. Matches(Reading, [PagedUnder EXCEPT !.refusals = @ \cup {409, 422}], Fetched)
  BY DEF Matches, Declares, Suits, Reading, Getting, ReadErrors, PagedUnder, Paged, Shown,
         Fetched, Safe
<1>3. Matches([Rechecking EXCEPT !.success = 200], [Rechecked EXCEPT !.code = 200], Written)
  BY DEF Matches, Declares, Suits, Rechecking, Appending, Creating, Listing, Getting, ReadErrors,
         ConditionalErrors, Rechecked, Appended, Shown, Fetched, Written, Safe
<1> QED
  BY <1>1, <1>2, <1>3

(* Owner subjects, sources, and the versions, coverages, signers and       *)
(* events of a mandate.                                                    *)
LEMMA RepresentationCorresponds ==
  /\ Corresponds(OwnerSubjectOperations, OwnerSubjectHandlers, OwnerSubjectCalls)
  /\ Corresponds(SourceOperations, SourceHandlers, SourceCalls)
  /\ Corresponds(MandateVersionOperations, VersionsOfMandateHandlers ++ MandateVersionHandlers,
                 MandateVersionCalls)
  /\ Corresponds(CoverageOperations, CoveragesOfVersionHandlers ++ CoverageHandlers,
                 CoverageCalls)
  /\ Corresponds(CoverageSignerOperations, SignersOfCoverageHandlers ++ CoverageSignerHandlers,
                 CoverageSignerCalls)
  /\ Corresponds(AuthorityEventOperations, AuthorityEventHandlers, AuthorityEventCalls)
<1>1. Corresponds(OwnerSubjectOperations, OwnerSubjectHandlers, OwnerSubjectCalls)
  BY EachCorresponds, Joined, ReadsMatch, ChangesMatch
     DEF OwnerSubjectOperations, OwnerSubjectHandlers, OwnerSubjectCalls
<1>2. Corresponds(SourceOperations, SourceHandlers, SourceCalls)
  BY EachCorresponds, Joined, ReadsMatch, CreatesMatch
     DEF SourceOperations, SourceHandlers, SourceCalls
<1>3. Corresponds(MandateVersionOperations, VersionsOfMandateHandlers ++ MandateVersionHandlers,
                  MandateVersionCalls)
  BY EachCorresponds, Joined, ReadsMatch, ChangesMatch
     DEF MandateVersionOperations, VersionsOfMandateHandlers, MandateVersionHandlers,
         MandateVersionCalls
<1>4. Corresponds(CoverageOperations, CoveragesOfVersionHandlers ++ CoverageHandlers,
                  CoverageCalls)
  BY EachCorresponds, Joined, ReadsMatch, ChangesMatch
     DEF CoverageOperations, CoveragesOfVersionHandlers, CoverageHandlers, CoverageCalls
<1>5. Corresponds(CoverageSignerOperations,
                  SignersOfCoverageHandlers ++ CoverageSignerHandlers, CoverageSignerCalls)
  BY EachCorresponds, Joined, ReadsMatch, ChangesMatch
     DEF CoverageSignerOperations, SignersOfCoverageHandlers, CoverageSignerHandlers,
         CoverageSignerCalls
<1>6. Corresponds(AuthorityEventOperations, AuthorityEventHandlers, AuthorityEventCalls)
  BY EachCorresponds, Joined, ReadsMatch, ChangesMatch
     DEF AuthorityEventOperations, AuthorityEventHandlers, AuthorityEventCalls
<1> QED
  BY <1>1, <1>2, <1>3, <1>4, <1>5, <1>6

(* What belongs to a case and its production.                              *)
LEMMA CasePartsCorrespond ==
  /\ Corresponds(CaseSourceOperations, CaseSourceHandlers, CaseSourceCalls)
  /\ Corresponds(SelectionOperations, SelectionHandlers, SelectionCalls)
  /\ Corresponds(ContextOperations, ContextHandlers, ContextCalls)
  /\ Corresponds(PromptOperations, PromptHandlers, PromptCalls)
  /\ Corresponds(CandidateOperations, CandidateHandlers, CandidateCalls)
  /\ Corresponds(ValidationOperations, ValidationHandlers, ValidationCalls)
  /\ Corresponds(AssessmentOperations, AssessmentHandlers, AssessmentCalls)
  /\ Corresponds(ReadinessOperations, ReadinessHandlers, ReadinessCalls)
  /\ Corresponds(FactOperations, FactHandlers, FactCalls)
  /\ Corresponds(CorrespondenceOperations,
                 CorrespondenceHandlers ++ CaseCorrespondenceHandlers, CorrespondenceCalls)
<1>1. Corresponds(CaseSourceOperations, CaseSourceHandlers, CaseSourceCalls)
  BY EachCorresponds, Joined, ReadsMatch, ChangesMatch
     DEF CaseSourceOperations, CaseSourceHandlers, CaseSourceCalls
<1>2. Corresponds(SelectionOperations, SelectionHandlers, SelectionCalls)
  BY EachCorresponds, Joined, ReadsMatch, ChangesMatch
     DEF SelectionOperations, SelectionHandlers, SelectionCalls
<1>3. Corresponds(ContextOperations, ContextHandlers, ContextCalls)
  BY EachCorresponds, OddRowsMatch DEF ContextOperations, ContextHandlers, ContextCalls
<1>4. Corresponds(PromptOperations, PromptHandlers, PromptCalls)
  BY EachCorresponds, Joined, ReadsMatch, CreatesMatch
     DEF PromptOperations, PromptHandlers, PromptCalls
<1>5. Corresponds(CandidateOperations, CandidateHandlers, CandidateCalls)
  BY EachCorresponds, Joined, ReadsMatch, CreatesMatch, OddRowsMatch
     DEF CandidateOperations, CandidateHandlers, CandidateCalls
<1>6. Corresponds(ValidationOperations, ValidationHandlers, ValidationCalls)
  BY EachCorresponds, Joined, ReadsMatch, CreatesMatch
     DEF ValidationOperations, ValidationHandlers, ValidationCalls
<1>7. Corresponds(AssessmentOperations, AssessmentHandlers, AssessmentCalls)
  BY EachCorresponds, Joined, ReadsMatch, CreatesMatch
     DEF AssessmentOperations, AssessmentHandlers, AssessmentCalls
<1>8. Corresponds(ReadinessOperations, ReadinessHandlers, ReadinessCalls)
  BY EachCorresponds, Joined, ReadsMatch, OddRowsMatch
     DEF ReadinessOperations, ReadinessHandlers, ReadinessCalls
<1>9. Corresponds(FactOperations, FactHandlers, FactCalls)
  BY EachCorresponds, Joined, ReadsMatch, ChangesMatch
     DEF FactOperations, FactHandlers, FactCalls
<1>10. Corresponds(CorrespondenceOperations,
                   CorrespondenceHandlers ++ CaseCorrespondenceHandlers, CorrespondenceCalls)
  BY EachCorresponds, Joined, ReadsMatch, CreatesMatch, ChangesMatch
     DEF CorrespondenceOperations, CorrespondenceHandlers, CaseCorrespondenceHandlers,
         CorrespondenceCalls
<1> QED
  BY <1>1, <1>2, <1>3, <1>4, <1>5, <1>6, <1>7, <1>8, <1>9, <1>10

(* Three tables of which not every operation has a handler, nor every      *)
(* handler a caller.                                                       *)
Fits(o, r, w) ==
    /\ DOMAIN w \subseteq DOMAIN r /\ DOMAIN r \subseteq DOMAIN o
    /\ \A op \in DOMAIN o : /\ {400, 403} \subseteq o[op].errors
                            /\ op \notin DOMAIN r => 404 \in o[op].errors
    /\ \A op \in DOMAIN r : Declares(o[op], r[op])
    /\ \A op \in DOMAIN w : Suits(o[op], r[op], w[op])

(* They fit together with tables that correspond.                          *)
LEMMA JoinedFits ==
  ASSUME NEW o, NEW r, NEW w, NEW p, NEW s, NEW v, Corresponds(o, r, w), Fits(p, s, v)
  PROVE  Fits(o ++ p, r ++ s, w ++ v)
<1> DEFINE op1 == o ++ p  rs == r ++ s  wv == w ++ v
<1>1. /\ DOMAIN r = DOMAIN o /\ DOMAIN w = DOMAIN o
      /\ \A op \in DOMAIN o : Matches(o[op], r[op], w[op])
  BY DEF Corresponds
<1>2. /\ DOMAIN op1 = DOMAIN o \cup DOMAIN p
      /\ \A op \in DOMAIN o : op1[op] = o[op]
      /\ \A op \in DOMAIN p \ DOMAIN o : op1[op] = p[op]
  BY JointIs DEF ++
<1>3. /\ DOMAIN rs = DOMAIN r \cup DOMAIN s
      /\ \A op \in DOMAIN r : rs[op] = r[op]
      /\ \A op \in DOMAIN s \ DOMAIN r : rs[op] = s[op]
  BY JointIs DEF ++
<1>4. /\ DOMAIN wv = DOMAIN w \cup DOMAIN v
      /\ \A op \in DOMAIN w : wv[op] = w[op]
      /\ \A op \in DOMAIN v \ DOMAIN w : wv[op] = v[op]
  BY JointIs DEF ++
<1> HIDE DEF op1, rs, wv
<1>5. Fits(op1, rs, wv)
  <2>1. DOMAIN wv \subseteq DOMAIN rs /\ DOMAIN rs \subseteq DOMAIN op1
    BY <1>1, <1>2, <1>3, <1>4 DEF Fits
  <2>2. ASSUME NEW op \in DOMAIN op1
        PROVE  /\ {400, 403} \subseteq op1[op].errors
               /\ op \notin DOMAIN rs => 404 \in op1[op].errors
    BY <1>1, <1>2, <1>3 DEF Fits, Matches
  <2>3. ASSUME NEW op \in DOMAIN rs PROVE Declares(op1[op], rs[op])
    BY <1>1, <1>2, <1>3 DEF Fits, Matches
  <2>4. ASSUME NEW op \in DOMAIN wv PROVE Suits(op1[op], rs[op], wv[op])
    BY <1>1, <1>2, <1>3, <1>4 DEF Fits, Matches
  <2> QED
    BY <2>1, <2>2, <2>3, <2>4 DEF Fits
<1> QED
  BY <1>5 DEF op1, rs, wv

(* The rows of the operations of the session and the system.               *)
LEMMA SystemRowsFit ==
  /\ {400, 403, 404} \subseteq Listing.errors /\ {400, 403} \subseteq PublicErrors
  /\ Declares(Listing, Paged)
  /\ Declares([Listing EXCEPT !.errors = PublicErrors, !.session = FALSE],
              [Shown EXCEPT !.path = FALSE, !.public = TRUE, !.refusals = {}])
  /\ Suits([Listing EXCEPT !.errors = PublicErrors, !.session = FALSE],
           [Shown EXCEPT !.path = FALSE, !.public = TRUE, !.refusals = {}], Fetched)
  /\ Declares(Listing, [Shown EXCEPT !.path = FALSE, !.refusals = {}])
  /\ Suits(Listing, [Shown EXCEPT !.path = FALSE, !.refusals = {}], Fetched)
  /\ Declares([Listing EXCEPT !.method = "post", !.body = TRUE,
                              !.errors = PublicErrors, !.session = FALSE],
              [Shown EXCEPT !.path = FALSE, !.public = TRUE, !.appOnly = TRUE,
                            !.refusals = {400, 403, 429}])
  /\ Suits([Listing EXCEPT !.method = "post", !.body = TRUE,
                           !.errors = PublicErrors, !.session = FALSE],
           [Shown EXCEPT !.path = FALSE, !.public = TRUE, !.appOnly = TRUE,
                         !.refusals = {400, 403, 429}],
           [Fetched EXCEPT !.body = TRUE])
  /\ Declares([Listing EXCEPT !.method = "post", !.success = 204],
              [Shown EXCEPT !.path = FALSE, !.code = 204, !.refusals = {}])
  /\ Suits([Listing EXCEPT !.method = "post", !.success = 204],
           [Shown EXCEPT !.path = FALSE, !.code = 204, !.refusals = {}],
           [Fetched EXCEPT !.csrf = TRUE])
  BY DEF Declares, Suits, Listing, Getting, ReadErrors, PublicErrors, Shown, Paged, Fetched, Safe

(* getMeta has no handler; the web application calls neither it nor        *)
(* listAuditEvents.                                                        *)
LEMMA SystemFits ==
  Fits(AuditOperations ++ SystemOperations, AuditHandlers ++ HealthHandlers ++ AuthHandlers,
       SessionCalls)
<1> DEFINE o == AuditOperations ++ SystemOperations
           r == AuditHandlers ++ HealthHandlers ++ AuthHandlers
           w == SessionCalls
           healthO == [Listing EXCEPT !.errors = PublicErrors, !.session = FALSE]
           loginO == [Listing EXCEPT !.method = "post", !.body = TRUE,
                                     !.errors = PublicErrors, !.session = FALSE]
           logoutO == [Listing EXCEPT !.method = "post", !.success = 204]
           healthR == [Shown EXCEPT !.path = FALSE, !.public = TRUE, !.refusals = {}]
           loginR == [Shown EXCEPT !.path = FALSE, !.public = TRUE, !.appOnly = TRUE,
                                   !.refusals = {400, 403, 429}]
           sessionR == [Shown EXCEPT !.path = FALSE, !.refusals = {}]
           logoutR == [Shown EXCEPT !.path = FALSE, !.code = 204, !.refusals = {}]
           loginW == [Fetched EXCEPT !.body = TRUE]
           logoutW == [Fetched EXCEPT !.csrf = TRUE]
<1>0. /\ Declares(healthO, healthR) /\ Suits(healthO, healthR, Fetched)
      /\ Declares(loginO, loginR) /\ Suits(loginO, loginR, loginW)
      /\ Declares(Listing, sessionR) /\ Suits(Listing, sessionR, Fetched)
      /\ Declares(logoutO, logoutR) /\ Suits(logoutO, logoutR, logoutW)
      /\ Declares(Listing, Paged)
  BY SystemRowsFit
<1>1. /\ healthO.errors = PublicErrors /\ loginO.errors = PublicErrors
      /\ logoutO.errors = Listing.errors
  BY DEF Listing, Getting
<1>2. /\ o = Each({"listAuditEvents"}, Listing)
             ++ (Each({"getHealth"}, healthO) ++ Each({"getMeta", "getSession"}, Listing)
                 ++ Each({"login"}, loginO) ++ Each({"logout"}, logoutO))
      /\ r = Each({"listAuditEvents"}, Paged) ++ Each({"getHealth"}, healthR)
             ++ (Each({"login"}, loginR) ++ Each({"getSession"}, sessionR)
                 ++ Each({"logout"}, logoutR))
      /\ w = Each({"getSession", "getHealth"}, Fetched) ++ Each({"login"}, loginW)
             ++ Each({"logout"}, logoutW)
  BY DEF AuditOperations, SystemOperations, AuditHandlers, HealthHandlers, AuthHandlers,
         SessionCalls
<1> HIDE DEF o, r, w, healthO, loginO, logoutO, healthR, loginR, sessionR, logoutR, loginW,
             logoutW
<1>3. /\ \A op : op \in DOMAIN o <=> op \in {"listAuditEvents", "getHealth", "getMeta",
                                           "getSession", "login", "logout"}
      /\ o["listAuditEvents"] = Listing /\ o["getMeta"] = Listing /\ o["getSession"] = Listing
      /\ o["getHealth"] = healthO /\ o["login"] = loginO /\ o["logout"] = logoutO
  BY <1>2, Looked, LookedEach
<1>4. /\ \A op : op \in DOMAIN r <=> op \in {"listAuditEvents", "getHealth", "getSession",
                                           "login", "logout"}
      /\ r["listAuditEvents"] = Paged /\ r["getHealth"] = healthR /\ r["login"] = loginR
      /\ r["getSession"] = sessionR /\ r["logout"] = logoutR
  BY <1>2, Looked, LookedEach
<1>5. /\ \A op : op \in DOMAIN w <=> op \in {"getHealth", "getSession", "login", "logout"}
      /\ w["getHealth"] = Fetched /\ w["getSession"] = Fetched
      /\ w["login"] = loginW /\ w["logout"] = logoutW
  BY <1>2, Looked, LookedEach
<1>6. \A op \in DOMAIN o : /\ {400, 403} \subseteq o[op].errors
                           /\ op \notin DOMAIN r => 404 \in o[op].errors
  BY <1>1, <1>3, <1>4, SystemRowsFit
<1>7. \A op \in DOMAIN r : Declares(o[op], r[op])
  BY <1>0, <1>3, <1>4
<1>8. \A op \in DOMAIN w : Suits(o[op], r[op], w[op])
  BY <1>0, <1>3, <1>4, <1>5
<1>9. Fits(o, r, w)
  BY <1>3, <1>4, <1>5, <1>6, <1>7, <1>8 DEF Fits
<1> QED
  BY <1>9 DEF o, r, w

(* Contract, handlers and client agree on every operation.                 *)
LEMMA TablesFit == Fits(Operations, Routes, WebCalls)
<1> DEFINE o1 == (AgencyRecords ++ AgencyCommands) ++ (OwnerRecords ++ OwnerCommands)
                 ++ (LegalSubjectRecords ++ LegalSubjectCommands)
                 ++ (SignerRecords ++ SignerCommands) ++ OwnerSubjectOperations
                 ++ SourceOperations ++ (RouteRecords ++ RouteCommands)
                 ++ (MandateRecords ++ MandateCommands) ++ MandateVersionOperations
                 ++ CoverageOperations ++ CoverageSignerOperations
                 ++ AuthorityEventOperations
           r1 == AgencyHandlers ++ OwnerHandlers ++ LegalSubjectHandlers ++ SignerHandlers
                 ++ OwnerSubjectHandlers ++ SourceHandlers ++ RouteHandlers
                 ++ MandateHandlers ++ (VersionsOfMandateHandlers ++ MandateVersionHandlers)
                 ++ (CoveragesOfVersionHandlers ++ CoverageHandlers)
                 ++ (SignersOfCoverageHandlers ++ CoverageSignerHandlers)
                 ++ AuthorityEventHandlers
           w1 == AgencyCalls ++ OwnerCalls ++ LegalSubjectCalls ++ SignerCalls
                 ++ OwnerSubjectCalls ++ SourceCalls ++ RouteCalls ++ MandateCalls
                 ++ MandateVersionCalls ++ CoverageCalls ++ CoverageSignerCalls
                 ++ AuthorityEventCalls
           o2 == o1 ++ (CaseRecords ++ CaseCommands) ++ CaseSourceOperations
                 ++ SelectionOperations ++ ContextOperations ++ PromptOperations
                 ++ CandidateOperations ++ ValidationOperations ++ AssessmentOperations
                 ++ ReadinessOperations
           r2 == r1 ++ CaseHandlers ++ CaseSourceHandlers ++ SelectionHandlers
                 ++ ContextHandlers ++ PromptHandlers ++ CandidateHandlers
                 ++ ValidationHandlers ++ AssessmentHandlers ++ ReadinessHandlers
           w2 == w1 ++ CaseCalls ++ CaseSourceCalls ++ SelectionCalls ++ ContextCalls
                 ++ PromptCalls ++ CandidateCalls ++ ValidationCalls ++ AssessmentCalls
                 ++ ReadinessCalls
           o3 == o2 ++ ReportedItemOperations ++ CaseWorkOperations ++ UseMappingOperations
                 ++ FactOperations ++ CorrespondenceOperations
           r3 == r2 ++ ReportedItemHandlers ++ CaseWorkHandlers ++ UseMappingHandlers
                 ++ FactHandlers ++ (CorrespondenceHandlers ++ CaseCorrespondenceHandlers)
           w3 == w2 ++ ReportedItemCalls ++ CaseWorkCalls ++ UseMappingCalls ++ FactCalls
                 ++ CorrespondenceCalls
<1>1. Corresponds(o1, r1, w1)
  BY FamiliesCorrespond, RepresentationCorresponds, Joined
<1> HIDE DEF o1, r1, w1
<1>2. Corresponds(o2, r2, w2)
  BY <1>1, FamiliesCorrespond, CasePartsCorrespond, Joined
<1> HIDE DEF o2, r2, w2
<1>3. Corresponds(o3, r3, w3)
  BY <1>2, FamiliesCorrespond, CasePartsCorrespond, Joined
<1> HIDE DEF o3, r3, w3
<1>4. Fits(o3 ++ (AuditOperations ++ SystemOperations),
           r3 ++ (AuditHandlers ++ HealthHandlers ++ AuthHandlers), w3 ++ SessionCalls)
  BY <1>3, JoinedFits, SystemFits
<1> QED
  BY <1>4 DEF o1, r1, w1, o2, r2, w2, o3, r3, w3, Operations, Routes, WebCalls

(* What the rows and the history say of each other.                        *)
RowsTell ==
    /\ changes = 0 => user.enabled
    /\ IsFiniteSet(Opened)
    /\ \A s \in Opened : session[s].expiresAt > 0 /\ (session[s].revoked => s \in ended)
    /\ \A r \in Requests :
          request[r].stage \in {"user", "check"} /\ request[r].row.revoked =>
              request[r].session \in ended

(* A request is where its operation may be.                                *)
CallFits ==
    /\ call.stage \in {"guard", "lookup", "handle"} => call.request.op \in DOMAIN Routes
    /\ call.stage \in {"guard", "lookup"} => ~Routes[call.request.op].public

(* While a request is on its way there is one session, its clock stands at *)
(* 0, and only revocations change the account.                             *)
InFlight ==
    call.stage \in {"received", "guard", "lookup", "handle"} =>
        /\ clock = 0 /\ user.enabled
        /\ \A s, t \in Opened : s = t
        /\ \A c \in Commands : command[c].stage = "run" => command[c].kind = "revoke"
        /\ call.stage = "lookup" /\ request[call.by].stage = "check" =>
              LET seen == request[call.by] IN
              /\ seen.enabled
              /\ seen.row.boundEpoch /= seen.epoch => login[seen.session].since /= changes

(* What the web application sends.                                         *)
SentByTheWeb(q) ==
    /\ q.op \in DOMAIN WebCalls
    /\ q.origin = IfAny(~Safe(Operations[q.op].method), "allowed")
    /\ q.type = IfAny(WebCalls[q.op].body, "json") /\ q.body = IfAny(WebCalls[q.op].body, "valid")
    /\ q.app /\ q.cookie /\ q.csrf = WebCalls[q.op].csrf
    /\ q.path = "possible" /\ q.query = "declared"
    /\ WebCalls[q.op].key => q.key \in {"fresh", "answered"}
    /\ q.ifMatch \in {WebCalls[q.op].ifMatch, "stale"}
    /\ q.ifMatch = None <=> WebCalls[q.op].ifMatch = None

(* The first refusal is one of the statuses; without it all of them pass.  *)
LEMMA FirstRefusalIs ==
  ASSUME NEW statuses, DOMAIN statuses \subseteq 1 .. 5
  PROVE  /\ FirstRefusal(statuses) = Pass => \A i \in DOMAIN statuses : statuses[i] = Pass
         /\ FirstRefusal(statuses) /= Pass =>
               \E i \in DOMAIN statuses : /\ statuses[i] /= Pass
                                         /\ FirstRefusal(statuses) = statuses[i]
         /\ (\A i \in DOMAIN statuses : statuses[i] = Pass) => FirstRefusal(statuses) = Pass
<1> DEFINE refused == {i \in DOMAIN statuses : statuses[i] /= Pass}
           first == CHOOSE i \in refused : \A j \in refused : i <= j
<1>1. FirstRefusal(statuses) = IF refused = {} THEN Pass ELSE statuses[first]
  BY DEF FirstRefusal
<1>2. CASE refused = {}
  BY <1>1, <1>2
<1>3. CASE refused /= {}
  <2>1. \E i \in refused : \A j \in refused : i <= j
    <3>1. \A i \in refused : i \in {1, 2, 3, 4, 5}
      OBVIOUS
    <3> HIDE DEF refused
    <3> QED
      BY <1>3, <3>1
  <2>2. first \in refused
    BY <2>1
  <2> QED
    BY <1>1, <1>3, <2>2
<1> QED
  BY <1>2, <1>3

(* What arrives is about an operation of the contract, and what the web    *)
(* application sends is as it sends it.                                    *)
LEMMA RequestedIs ==
  ASSUME NEW q \in Requested
  PROVE  q.op \in DOMAIN Operations /\ (q.web => SentByTheWeb(q))
<1>1. ASSUME NEW op \in DOMAIN Operations, q \in {Asked(op)} \cup Departures(Asked(op))
      PROVE  q.op = op /\ ~q.web
  <2> DEFINE a == Asked(op)
  <2>1. "op" \in DOMAIN a /\ "web" \in DOMAIN a /\ a.op = op /\ ~a.web
    BY DEF Asked
  <2> HIDE DEF a
  <2>2. \/ q = a
        \/ \E o \in {None, "foreign"} : q = [a EXCEPT !.origin = o]
        \/ q = [a EXCEPT !.type = "other", !.body = "valid"]
        \/ \E b \in {"valid", "invalid", "malformed", "oversized"} :
              q = [a EXCEPT !.type = "json", !.body = b]
        \/ q = [a EXCEPT !.body = None, !.type = None]
        \/ q = [a EXCEPT !.app = FALSE] \/ q = [a EXCEPT !.cookie = FALSE]
        \/ q = [a EXCEPT !.csrf = FALSE]
        \/ q = [a EXCEPT !.path = "impossible"] \/ q = [a EXCEPT !.query = "undeclared"]
        \/ \E k \in {None, "malformed", "answered"} : q = [a EXCEPT !.key = k]
        \/ \E m \in {None, "stale"} : q = [a EXCEPT !.ifMatch = m]
    BY <1>1 DEF Departures, a
  <2> QED
    BY <2>1, <2>2
<1>2. ASSUME NEW op \in DOMAIN WebCalls, q \in FromTheWeb(op)
      PROVE  q.op = op /\ SentByTheWeb(q)
  <2>1. /\ q.op = op
        /\ q.origin = IfAny(~Safe(Operations[op].method), "allowed")
        /\ q.type = IfAny(WebCalls[op].body, "json") /\ q.body = IfAny(WebCalls[op].body, "valid")
        /\ q.app /\ q.cookie /\ q.csrf = WebCalls[op].csrf
        /\ q.path = "possible" /\ q.query = "declared"
    BY <1>2 DEF FromTheWeb, FromWeb
  <2>2. WebCalls[op].key => q.key \in {"fresh", "answered"}
    BY <1>2 DEF FromTheWeb, FromWeb, IfAny
  <2>3. /\ q.ifMatch \in {WebCalls[op].ifMatch, "stale"}
        /\ q.ifMatch = None <=> WebCalls[op].ifMatch = None
    BY <1>2 DEF FromTheWeb, FromWeb
  <2> QED
    BY <2>1, <2>2, <2>3 DEF SentByTheWeb
<1>3. DOMAIN WebCalls \subseteq DOMAIN Operations
  BY TablesFit DEF Fits
<1>4. \/ \E op \in DOMAIN Operations : q \in {Asked(op)} \cup Departures(Asked(op))
      \/ \E op \in DOMAIN WebCalls : q \in FromTheWeb(op)
  BY DEF Requested
<1> QED
  BY <1>1, <1>2, <1>3, <1>4

(* It holds at first, and every step of SignIn preserves it.               *)
LEMMA InitRowsTell == Init => RowsTell
<1> SUFFICES ASSUME Init PROVE RowsTell
  OBVIOUS
<1>1. Opened = {} /\ IsFiniteSet(Opened)
  BY FS_EmptySet DEF Init, Opened
<1> QED
  BY <1>1 DEF Init, RowsTell, Idle

(* Only what announces the end of a session revokes its row.               *)
LEMMA RowsTellStep ==
  ASSUME IInv, RowsTell, [Next]_vars
  PROVE  RowsTell'
<1>0. /\ request = [r \in Requests |-> request[r]]
      /\ session \in [Opened -> Session]
      /\ changes \in Nat /\ ended \subseteq Opened
      /\ \A r \in Requests : request[r].stage /= "idle" => request[r].session \in Opened
  BY DEF IInv, Rows, RequestsKnow, EndsAreReal
<1>1. ASSUME UNCHANGED <<user, session, request, changes, ended>> PROVE RowsTell'
  BY <1>1 DEF RowsTell, Opened
<1>2. ASSUME UNCHANGED <<user, session, changes, ended>>, NEW r \in Requests, NEW now,
             request' = [request EXCEPT ![r] = now],
             now.stage \in {"user", "check"} /\ now.row.revoked => now.session \in ended
      PROVE  RowsTell'
  <2>1. \A p \in Requests : request'[p] = IF p = r THEN now ELSE request[p]
    BY <1>0, <1>2
  <2> QED
    BY <1>2, <2>1 DEF RowsTell, Opened
<1>3. ASSUME NEW l \in Logins, Open(l) PROVE RowsTell'
  <2>1. PICK presented \in SUBSET Opened : /\ session' = WithSession(l, presented)
                                           /\ ended' = ended \cup presented
    BY <1>3 DEF Open
  <2>2. /\ Opened' = Opened \cup {l} /\ l \notin Opened
        /\ UNCHANGED <<user, request, changes>>
        /\ NewSession(l).expiresAt > 0 /\ ~NewSession(l).revoked
    <3>0. login[l].stage = "open"
      BY <1>3 DEF Open
    <3>1. l \notin Opened /\ login[l].now \in Nat
      BY <3>0, SettingsAssumption DEF IInv, SessionsBound, LoginsKnow, Times
    <3>2. Opened' = Opened \cup {l}
      BY <2>1 DEF WithSession, Opened
    <3>3. NewSession(l).expiresAt > 0 /\ ~NewSession(l).revoked
      BY <3>1, SettingsAssumption DEF NewSession
    <3> QED
      BY <1>3, <3>1, <3>2, <3>3 DEF Open
  <2>3. \A s \in Opened' : session'[s] = IF s = l THEN NewSession(l)
                                         ELSE IF s \in presented THEN Revoked(s) ELSE session[s]
    BY <2>1, <2>2 DEF WithSession
  <2>4. IsFiniteSet(Opened')
    BY <2>2, FS_AddElement DEF RowsTell
  <2>5. ASSUME NEW s \in Opened'
        PROVE  session'[s].expiresAt > 0 /\ (session'[s].revoked => s \in ended')
    <3>1. CASE s = l
      BY <2>2, <2>3, <3>1
    <3>2. CASE s \in Opened /\ s \in presented
      <4>1. session'[s] = Revoked(s) /\ session[s] \in Session /\ session[s].expiresAt > 0
        BY <1>0, <2>2, <2>3, <3>2 DEF RowsTell
      <4> QED
        BY <2>1, <3>2, <4>1 DEF Revoked, Session
    <3>3. CASE s \in Opened /\ s \notin presented
      BY <2>1, <2>2, <2>3, <3>3 DEF RowsTell
    <3> QED
      BY <2>2, <3>1, <3>2, <3>3
  <2> QED
    BY <2>1, <2>2, <2>4, <2>5 DEF RowsTell
<1>4. ASSUME NEW r \in Requests, RequestStep(r) PROVE RowsTell'
  <2>1. ASSUME NEW s \in Logins, ReadSession(r, s) PROVE RowsTell'
    BY <1>2, <2>1 DEF ReadSession, RowsTell
  <2>2. CASE ReadUser(r)
    BY <1>2, <2>2 DEF ReadUser, RowsTell
  <2>3. CASE Refuse(r)
    BY <1>2, <2>3 DEF Refuse, Idle
  <2>4. ASSUME NEW purpose \in Purposes, Accept(r, purpose) PROVE RowsTell'
    <3> DEFINE writes == /\ CountsAsActivity(purpose)
                         /\ clock - request[r].row.lastSeenAt >= LastSeenWriteInterval
               now == IF writes THEN [stage |-> "record", session |-> request[r].session,
                                      purpose |-> purpose, now |-> clock]
                      ELSE Handle(r, purpose)
    <3>1. request' = [request EXCEPT ![r] = now] /\ UNCHANGED <<user, session, changes, ended>>
      BY <2>4 DEF Accept
    <3>2. now.stage \notin {"user", "check"}
      BY DEF Handle, Idle
    <3> HIDE DEF now
    <3> QED
      BY <1>2, <3>1, <3>2
  <2>5. CASE RecordActivity(r)
    <3>1. /\ request' = [request EXCEPT ![r] = Handle(r, request[r].purpose)]
          /\ UNCHANGED <<user, changes, ended>>
          /\ session' = IF session[request[r].session].revoked THEN session
                        ELSE [session EXCEPT ![request[r].session].lastSeenAt = request[r].now]
      BY <2>5 DEF RecordActivity
    <3>2. Handle(r, request[r].purpose).stage \notin {"user", "check"}
      BY DEF Handle, Idle
    <3>3. \A p \in Requests : request'[p] = IF p = r THEN Handle(r, request[r].purpose)
                                            ELSE request[p]
      BY <1>0, <3>1
    <3>4. /\ Opened' = Opened
          /\ \A s \in Opened : /\ session'[s].expiresAt = session[s].expiresAt
                               /\ session'[s].revoked = session[s].revoked
      BY <1>0, <3>1 DEF Opened, Session
    <3> QED
      BY <3>1, <3>2, <3>3, <3>4 DEF RowsTell
  <2>6. CASE Logout(r)
    <3> DEFINE t == request[r].session
    <3>1. /\ request' = [request EXCEPT ![r] = Idle] /\ UNCHANGED <<user, changes>>
          /\ session' = [session EXCEPT ![t] = Revoked(t)] /\ ended' = ended \cup {t}
      BY <2>6 DEF Logout
    <3>2. \A p \in Requests : request'[p] = IF p = r THEN Idle ELSE request[p]
      BY <1>0, <3>1
    <3>3. /\ Opened' = Opened
          /\ \A s \in Opened : /\ session'[s].expiresAt = session[s].expiresAt
                               /\ s /= t => session'[s].revoked = session[s].revoked
      BY <1>0, <3>1 DEF Opened, Session, Revoked
    <3> QED
      BY <3>1, <3>2, <3>3 DEF RowsTell, Idle
  <2> QED
    BY <1>4, <2>1, <2>2, <2>3, <2>4, <2>5, <2>6 DEF RequestStep
<1>5. ASSUME NEW c \in Commands, RunCommand(c) PROVE RowsTell'
  <2>1. /\ changes' = changes + 1 /\ ended' = ended \cup Opened /\ UNCHANGED request
        /\ session' = RevokeActive(command[c].now)
    BY <1>5 DEF RunCommand
  <2>2. /\ Opened' = Opened
        /\ \A s \in Opened : session'[s].expiresAt = session[s].expiresAt
    BY <1>0, <2>1 DEF RevokeActive, Revoked, Opened, Session
  <2> QED
    BY <1>0, <2>1, <2>2 DEF RowsTell
<1>6. CASE Tick
  BY <1>1, <1>6 DEF Tick
<1>7. ASSUME NEW l \in Logins, ReadForLogin(l) \/ Verify(l) \/ Reject(l) PROVE RowsTell'
  BY <1>1, <1>7 DEF ReadForLogin, Verify, Reject
<1>8. ASSUME NEW c \in Commands,
             (\E kind \in Kinds : StartCommand(c, kind)) \/ CommandFindsItDone(c)
      PROVE  RowsTell'
  BY <1>1, <1>8 DEF StartCommand, CommandFindsItDone
<1>9. CASE UNCHANGED vars
  BY <1>1, <1>9 DEF vars
<1> QED
  BY <1>3, <1>4, <1>5, <1>6, <1>7, <1>8, <1>9 DEF Next, LoginStep, CommandStep

(* Whoever refuses a request answers with a status its operation declares. *)
LEMMA StatusesDeclared ==
  ASSUME NEW q, q.op \in DOMAIN Operations
  PROVE  /\ PolicyStatus(q) \in {Pass} \cup Declared(q).errors
         /\ ParserStatus(q) \in {Pass} \cup Declared(q).errors
         /\ RouteStatus(q) \in {Pass} \cup Declared(q).errors
         /\ RouteStatus(q) = Pass => q.op \in DOMAIN Routes
         /\ q.op \in DOMAIN Routes => HandlerStatus(q) \in {Pass} \cup Declared(q).errors
<1> DEFINE errors == Operations[q.op].errors
<1>1. /\ 400 \in errors /\ 403 \in errors
      /\ q.op \notin DOMAIN Routes => 404 \in errors
      /\ q.op \in DOMAIN Routes => Declares(Operations[q.op], Routes[q.op])
  BY TablesFit DEF Fits
<1>2. PolicyStatus(q) \in {Pass} \cup errors
  BY <1>1 DEF PolicyStatus
<1>3. ParserStatus(q) \in {Pass} \cup errors
  BY <1>1 DEF ParserStatus, OversizedStatus
<1>4. RouteStatus(q) \in {Pass} \cup errors /\ (RouteStatus(q) = Pass => q.op \in DOMAIN Routes)
  BY <1>1 DEF RouteStatus, Pass
<1>5. ASSUME q.op \in DOMAIN Routes PROVE HandlerStatus(q) \in {Pass} \cup errors
  <2> DEFINE statuses == <<PathStatus(q), QueryStatus(q), BodyStatus(q), WriteStatus(q),
                           PreconditionStatus(q)>>
  <2>1. Declares(Operations[q.op], Routes[q.op])
    BY <1>1, <1>5
  <2>2. PathStatus(q) \in {Pass} \cup errors
    BY <2>1 DEF PathStatus, Handler, Declared, Declares
  <2>3. QueryStatus(q) \in {Pass} \cup errors /\ BodyStatus(q) \in {Pass} \cup errors
    BY <1>1, <2>1 DEF QueryStatus, BodyStatus, Handler, Declares
  <2>4. WriteStatus(q) \in {Pass} \cup errors
    BY <1>1, <2>1 DEF WriteStatus, Handler, Declared, Declares
  <2>5. PreconditionStatus(q) \in {Pass} \cup errors
    BY <2>1, <1>1 DEF PreconditionStatus, Handler, Declared, Declares
  <2>6. \A i \in 1 .. 5 : statuses[i] \in {Pass} \cup errors
    BY <2>2, <2>3, <2>4, <2>5
  <2>7. DOMAIN statuses = 1 .. 5 /\ HandlerStatus(q) = FirstRefusal(statuses)
    BY DEF HandlerStatus
  <2> HIDE DEF statuses
  <2>8. HandlerStatus(q) = Pass \/ \E i \in DOMAIN statuses : HandlerStatus(q) = statuses[i]
    BY <2>7, FirstRefusalIs
  <2> QED
    BY <2>6, <2>7, <2>8
<1> QED
  BY <1>2, <1>3, <1>4, <1>5 DEF Declared

(* Nobody refuses a request of the web application for how it was made,    *)
(* unless its record has changed.                                          *)
LEMMA WebStatuses ==
  ASSUME NEW q, SentByTheWeb(q)
  PROVE  /\ PolicyStatus(q) = Pass /\ ParserStatus(q) = Pass /\ RouteStatus(q) = Pass
         /\ ~Routes[q.op].public => CsrfHolds(q)
         /\ HandlerStatus(q) = Pass \/ (HandlerStatus(q) = 412 /\ q.ifMatch = "stale")
<1>1. /\ q.op \in DOMAIN WebCalls /\ q.op \in DOMAIN Routes
      /\ Declares(Operations[q.op], Routes[q.op])
      /\ Suits(Operations[q.op], Routes[q.op], WebCalls[q.op])
  BY TablesFit DEF Fits, SentByTheWeb
<1>2. PolicyStatus(q) = Pass
  BY DEF PolicyStatus, OriginRefused, SentByTheWeb, IfAny, None
<1>3. ParserStatus(q) = Pass
  BY DEF ParserStatus, SentByTheWeb, IfAny, None
<1>4. RouteStatus(q) = Pass
  BY <1>1 DEF RouteStatus, SentByTheWeb
<1>5. ~Routes[q.op].public => CsrfHolds(q)
  BY <1>1 DEF CsrfHolds, SentByTheWeb, Suits
<1>6. HandlerStatus(q) = Pass \/ (HandlerStatus(q) = 412 /\ q.ifMatch = "stale")
  <2> DEFINE statuses == <<PathStatus(q), QueryStatus(q), BodyStatus(q), WriteStatus(q),
                           PreconditionStatus(q)>>
  <2>1. PathStatus(q) = Pass
    BY <1>1 DEF PathStatus, Handler, Declared, Declares, SentByTheWeb
  <2>2. QueryStatus(q) = Pass
    BY DEF QueryStatus, SentByTheWeb
  <2>3. BodyStatus(q) = Pass
    BY <1>1 DEF BodyStatus, Handler, Declared, Suits, SentByTheWeb
  <2>4. WriteStatus(q) = Pass
    BY <1>1 DEF WriteStatus, Handler, Declared, Declares, Suits, SentByTheWeb, None
  <2>5. PreconditionStatus(q) = Pass \/ (PreconditionStatus(q) = 412 /\ q.ifMatch = "stale")
    BY <1>1 DEF PreconditionStatus, Handler, Declared, Declares, Suits, SentByTheWeb
  <2>6. DOMAIN statuses = 1 .. 5 /\ HandlerStatus(q) = FirstRefusal(statuses)
    BY DEF HandlerStatus
  <2>7. \A i \in 1 .. 5 : \/ statuses[i] = Pass
                          \/ statuses[i] = 412 /\ q.ifMatch = "stale"
    BY <2>1, <2>2, <2>3, <2>4, <2>5
  <2> HIDE DEF statuses
  <2>8. HandlerStatus(q) = Pass \/ \E i \in DOMAIN statuses : HandlerStatus(q) = statuses[i]
    BY <2>6, FirstRefusalIs
  <2> QED
    BY <2>6, <2>7, <2>8
<1> QED
  BY <1>2, <1>3, <1>4, <1>5, <1>6

(* Only a request with a route gets past the middleware, and only one that *)
(* is not public meets the guard.                                          *)
LEMMA CallFitsStep ==
  ASSUME CallKnows, CallFits, [PipelineNext]_pipelineVars
  PROVE  CallFits'
<1>0. call.stage \notin {"none", "answered"} =>
        call \in [stage : {"received", "guard", "lookup", "handle"}, request : Requested,
                  by : Requests]
  BY DEF CallKnows
<1>1. CASE UNCHANGED call
  BY <1>1 DEF CallFits
<1>2. ASSUME NEW r \in Requests, Arrive(r) PROVE CallFits'
  BY <1>2 DEF Arrive, CallFits
<1>3. CASE Receive
  <2> DEFINE q == call.request
             statuses == <<PolicyStatus(q), ParserStatus(q), RouteStatus(q)>>
             stage == IF Routes[q.op].public THEN "handle" ELSE "guard"
  <2>1. /\ call.stage = "received"
        /\ call' = IF FirstRefusal(statuses) /= Pass THEN Answered(FirstRefusal(statuses), FALSE)
                   ELSE [call EXCEPT !.stage = stage]
    BY <1>3 DEF Receive
  <2>2. CASE FirstRefusal(statuses) /= Pass
    BY <2>1, <2>2 DEF Answered, CallFits
  <2>3. CASE FirstRefusal(statuses) = Pass
    <3>1. DOMAIN statuses = 1 .. 3 /\ statuses[3] = RouteStatus(q)
      OBVIOUS
    <3> HIDE DEF statuses
    <3>2. RouteStatus(q) = Pass
      BY <2>3, <3>1, FirstRefusalIs
    <3>3. q.op \in DOMAIN Routes
      BY <3>2 DEF RouteStatus, Pass
    <3>4. call'.request = q /\ call'.stage = stage
      BY <1>0, <2>1, <2>3
    <3> QED
      BY <3>3, <3>4 DEF CallFits
  <2> QED
    BY <2>2, <2>3
<1>4. CASE call'.stage = "answered"
  BY <1>4 DEF CallFits
<1>5. CASE LookUpSession
  <2>1. call.stage = "guard" /\ call'.stage = "lookup" /\ call'.request = call.request
    BY <1>0, <1>5 DEF LookUpSession
  <2> QED
    BY <2>1 DEF CallFits
<1>6. CASE Admit
  <2>1. call.stage = "lookup" /\ call'.stage = "handle" /\ call'.request = call.request
    BY <1>0, <1>6 DEF Admit
  <2> QED
    BY <2>1 DEF CallFits
<1>7. NoCookie \/ TurnAway \/ RefuseInHandler \/ RefuseInService \/ Succeed =>
        call'.stage = "answered"
  BY DEF NoCookie, TurnAway, RefuseInHandler, RefuseInService, Succeed, Answered
<1> QED
  BY <1>1, <1>2, <1>3, <1>4, <1>5, <1>6, <1>7
     DEF PipelineNext, pipelineVars, LookUpUser, Attend

(* What a request has read stays true of its session: a revocation in      *)
(* between moves the epoch.                                                *)
LEMMA InFlightStep ==
  ASSUME IInv, RowsTell, CallKnows, InFlight, [PipelineNext]_pipelineVars
  PROVE  InFlight'
<1>0. call.stage \notin {"none", "answered"} =>
        call \in [stage : {"received", "guard", "lookup", "handle"}, request : Requested,
                  by : Requests]
  BY DEF CallKnows
<1>a. /\ request = [r \in Requests |-> request[r]] /\ session \in [Opened -> Session]
       /\ changes \in Nat
  BY DEF IInv, Rows, RequestsKnow
<1>1. ASSUME NEW r \in Requests, Arrive(r) PROVE InFlight'
  <2>1. /\ clock = 0 /\ changes = 0 /\ Cardinality(Opened) = 1
        /\ \A c \in Commands : command[c].stage = "run" => command[c].kind = "revoke"
        /\ UNCHANGED vars /\ call'.stage = "received"
    BY <1>1 DEF Arrive, Quiet
  <2>2. \A s, t \in Opened : s = t
    <3>1. PICK x : Opened = {x}
      BY <2>1, FS_Singleton DEF RowsTell
    <3> QED
      BY <3>1
  <2> QED
    BY <2>1, <2>2 DEF InFlight, RowsTell, vars, Opened
<1>2. CASE call'.stage \in {"none", "answered"}
  BY <1>2 DEF InFlight
<1>3. ASSUME UNCHANGED <<clock, user, command>>, Opened' = Opened, call'.stage /= "lookup",
             call.stage \in {"received", "guard", "lookup", "handle"}
      PROVE  InFlight'
  BY <1>3 DEF InFlight
<1>4. CASE Receive
  <2>1. CASE call'.stage = "answered"
    BY <1>2, <2>1
  <2>2. CASE call'.stage /= "answered"
    <3>1. call' = [call EXCEPT !.stage = IF Routes[call.request.op].public THEN "handle"
                                         ELSE "guard"]
      BY <1>4, <2>2 DEF Receive, Answered
    <3>2. call'.stage \in {"guard", "handle"} /\ call.stage = "received" /\ UNCHANGED vars
      BY <1>0, <1>4, <3>1 DEF Receive
    <3> QED
      BY <1>3, <3>2 DEF vars, Opened
  <2> QED
    BY <2>1, <2>2
<1>5. CASE LookUpSession
  <2>1. /\ call.stage = "guard" /\ call'.stage = "lookup" /\ call'.by = call.by
        /\ call.by \in Requests
    BY <1>0, <1>5 DEF LookUpSession
  <2>2. PICK s \in Opened : ReadSession(call.by, s)
    BY <1>5 DEF LookUpSession
  <2>3. /\ UNCHANGED <<clock, user, session, login, command, changes, ended, activity>>
        /\ request'[call.by].stage = "user"
    BY <1>a, <2>1, <2>2 DEF ReadSession
  <2> QED
    BY <2>1, <2>3 DEF InFlight, Opened
<1>6. CASE LookUpUser
  <2> DEFINE r == call.by  s == request[r].session
  <2>1. /\ call.stage = "lookup" /\ r \in Requests /\ UNCHANGED call /\ ReadUser(r)
    BY <1>0, <1>6 DEF LookUpUser
  <2>2. /\ UNCHANGED <<clock, user, session, login, command, changes, ended, activity>>
        /\ request'[r].enabled = user.enabled /\ request'[r].epoch = user.sessionEpoch
        /\ request'[r].row = request[r].row /\ request'[r].session = s
        /\ request[r].stage = "user"
    BY <1>a, <2>1 DEF ReadUser
  <2>3. /\ request[r].row.boundEpoch = session[s].boundEpoch
        /\ login[s].since = session[s].boundEpoch /\ user.sessionEpoch = changes
    BY <2>1, <2>2 DEF IInv, RequestsKnow, SessionsBound, Rows
  <2> QED
    BY <2>1, <2>2, <2>3 DEF InFlight, Opened
<1>7. CASE Admit
  <2>1. call.stage = "lookup" /\ call'.stage = "handle"
    BY <1>0, <1>7 DEF Admit
  <2> QED
    BY <1>3, <1>7, <2>1 DEF Admit, Accept, Opened
<1>8. CASE Attend
  <2>1. call.stage = "handle" /\ call'.stage = "handle" /\ UNCHANGED <<clock, user, command>>
    BY <1>8 DEF Attend, RecordActivity, Logout
  <2>2. Opened' = Opened
    BY <1>a, <1>8 DEF Attend, RecordActivity, Logout, Opened
  <2> QED
    BY <1>3, <2>1, <2>2
<1>9. ASSUME call.stage = "lookup", NEW c \in Commands, RunCommand(c), UNCHANGED call
      PROVE  InFlight'
  <2> DEFINE r == call.by
  <2>1. /\ command[c].stage = "run" /\ command[c].kind = "revoke" /\ clock = 0 /\ user.enabled
        /\ \A s, t \in Opened : s = t
        /\ \A d \in Commands : command[d].stage = "run" => command[d].kind = "revoke"
    BY <1>9 DEF InFlight, RunCommand
  <2>2. /\ user' = Changed("revoke") /\ changes' = changes + 1
        /\ UNCHANGED <<clock, login, request>>
        /\ command' = [command EXCEPT ![c] = [stage |-> "done"]]
        /\ session' = RevokeActive(command[c].now)
    BY <1>9, <2>1 DEF RunCommand
  <2>3. user'.enabled /\ Opened' = Opened
    BY <2>1, <2>2 DEF Changed, RevokeActive, Opened
  <2>4. \A d \in Commands : command'[d].stage = "run" => command'[d].kind = "revoke"
    BY <2>1, <2>2 DEF IInv, CommandsKnow
  <2>5. ASSUME request[r].stage = "check"
        PROVE  request[r].enabled /\ login[request[r].session].since /= changes'
    <3>1. r \in Requests /\ request[r].session \in Opened /\ request[r].enabled
      BY <1>0, <1>9, <2>5 DEF IInv, RequestsKnow, InFlight
    <3>2. /\ login[request[r].session].since = session[request[r].session].boundEpoch
          /\ session[request[r].session].boundEpoch <= changes
          /\ session[request[r].session].boundEpoch \in Nat
      BY <1>a, <3>1 DEF IInv, SessionsBound, Session
    <3> QED
      BY <1>a, <2>2, <3>1, <3>2
  <2> QED
    BY <1>9, <2>1, <2>2, <2>3, <2>4, <2>5 DEF InFlight
<1>10. CASE UNCHANGED pipelineVars
  BY <1>10 DEF InFlight, pipelineVars, vars, Opened
<1>11. CASE call = NoCall /\ Next /\ UNCHANGED call
  BY <1>2, <1>11 DEF NoCall
<1>12. NoCookie \/ TurnAway \/ RefuseInHandler \/ RefuseInService \/ Succeed =>
         call'.stage = "answered"
  BY DEF NoCookie, TurnAway, RefuseInHandler, RefuseInService, Succeed, Answered
<1> QED
  BY <1>1, <1>2, <1>4, <1>5, <1>6, <1>7, <1>8, <1>9, <1>10, <1>11, <1>12 DEF PipelineNext

(* Every step that answers does so with a declared status.                 *)
LEMMA AnswersStep ==
  ASSUME CallKnows, CallFits, AnswersAreDeclared, [PipelineNext]_pipelineVars
  PROVE  AnswersAreDeclared'
<1> DEFINE q == call.request
           declared == {Declared(q).success} \cup Declared(q).errors
<1>0. call.stage \notin {"none", "answered"} => q.op \in DOMAIN Operations
  BY RequestedIs DEF CallKnows
<1>1. CASE call'.stage /= "answered"
  BY <1>1 DEF AnswersAreDeclared
<1>2. CASE UNCHANGED call
  BY <1>2 DEF AnswersAreDeclared
<1>3. ASSUME NEW status \in declared, NEW etag, call' = Answered(status, etag)
      PROVE  AnswersAreDeclared'
  BY <1>3 DEF AnswersAreDeclared, Answered, Declared
<1>4. CASE Receive
  <2> DEFINE statuses == <<PolicyStatus(q), ParserStatus(q), RouteStatus(q)>>
  <2>1. call.stage = "received"
        /\ call' = IF FirstRefusal(statuses) /= Pass THEN Answered(FirstRefusal(statuses), FALSE)
                   ELSE [call EXCEPT !.stage = IF Routes[q.op].public THEN "handle" ELSE "guard"]
    BY <1>4 DEF Receive
  <2>2. CASE FirstRefusal(statuses) = Pass
    <3>1. call' = [call EXCEPT !.stage = IF Routes[q.op].public THEN "handle" ELSE "guard"]
      BY <2>1, <2>2
    <3>2. call'.stage \in {"guard", "handle"}
      BY <2>1, <3>1 DEF CallKnows
    <3> QED
      BY <1>1, <3>2
  <2>3. CASE FirstRefusal(statuses) /= Pass
    <3>1. DOMAIN statuses = 1 .. 3 /\ \A i \in 1 .. 3 : statuses[i] \in {Pass} \cup declared
      BY <1>0, <2>1, StatusesDeclared
    <3> HIDE DEF statuses, declared
    <3>2. FirstRefusal(statuses) \in declared
      BY <2>3, <3>1, FirstRefusalIs
    <3> QED
      BY <1>3, <2>1, <2>3, <3>2
  <2> QED
    BY <2>2, <2>3
<1>5. ASSUME call.stage \in {"guard", "lookup"} PROVE {401, 403} \subseteq declared
  <2>1. q.op \in DOMAIN Routes /\ ~Routes[q.op].public
    BY <1>5 DEF CallFits
  <2> QED
    BY <1>0, <1>5, <2>1, TablesFit DEF Fits, Declares, Declared
<1>6. CASE NoCookie
  BY <1>3, <1>5, <1>6 DEF NoCookie
<1>7. CASE TurnAway
  <2>1. 401 \in declared /\ 403 \in declared
    BY <1>5, <1>7 DEF TurnAway
  <2> HIDE DEF declared
  <2> DEFINE status == IF Usable(request[call.by].row, request[call.by].enabled,
                                 request[call.by].epoch) THEN 403 ELSE 401
  <2>2. status \in declared /\ call' = Answered(status, FALSE)
    BY <1>7, <2>1 DEF TurnAway
  <2> HIDE DEF status
  <2> QED
    BY <1>3, <2>2
<1>8. ASSUME call.stage = "handle"
      PROVE  /\ HandlerStatus(q) \in {Pass} \cup declared
             /\ Handler(q).refusals \subseteq declared
             /\ Handler(q).write => 409 \in declared
             /\ Handler(q).code \in declared
  <2>1. q.op \in DOMAIN Routes
    BY <1>8 DEF CallFits
  <2> QED
    BY <1>0, <1>8, <2>1, StatusesDeclared, TablesFit DEF Fits, Declares, Declared, Handler
<1>9. CASE RefuseInHandler
  BY <1>3, <1>8, <1>9 DEF RefuseInHandler, Handled
<1>10. CASE RefuseInService
  <2>1. PICK status \in Handler(q).refusals \cup (IF Handler(q).write THEN {409} ELSE {}) :
          call' = Answered(status, FALSE)
    BY <1>10 DEF RefuseInService
  <2>2. call.stage = "handle"
    BY <1>10 DEF RefuseInService, Handled
  <2>3. Handler(q).refusals \subseteq declared /\ (Handler(q).write => 409 \in declared)
    BY <1>8, <2>2
  <2> HIDE DEF declared
  <2>4. status \in declared
    BY <2>1, <2>3
  <2> QED
    BY <1>3, <2>1, <2>4
<1>11. CASE Succeed
  BY <1>3, <1>8, <1>11 DEF Succeed, Handled
<1>12. ASSUME NEW r \in Requests, Arrive(r) PROVE call'.stage /= "answered"
  BY <1>12 DEF Arrive
<1>13. LookUpSession \/ Admit => call'.stage /= "answered"
  BY DEF LookUpSession, Admit, CallKnows
<1> QED
  BY <1>1, <1>2, <1>4, <1>6, <1>7, <1>9, <1>10, <1>11, <1>12, <1>13
     DEF PipelineNext, pipelineVars, LookUpUser, Attend

(* Every step that answers the web application does so as it understands.  *)
LEMMA UnderstoodStep ==
  ASSUME IInv, RowsTell, CallKnows, CallFits, InFlight, CallsAreUnderstood,
         [PipelineNext]_pipelineVars
  PROVE  CallsAreUnderstood'
<1> DEFINE q == call.request
           reasons == Handler(q).refusals \cup (IF Handler(q).write THEN {409} ELSE {})
<1>0. /\ call.stage \notin {"none", "answered"} => q \in Requested /\ call.by \in Requests
      /\ call.stage \notin {"none", "answered"} /\ q.web => SentByTheWeb(q)
  BY RequestedIs DEF CallKnows
<1>1. CASE call'.stage /= "answered"
  BY <1>1 DEF CallsAreUnderstood
<1>2. CASE UNCHANGED pipelineVars
  BY <1>2 DEF CallsAreUnderstood, pipelineVars, vars, Good, Opened
<1>3. ASSUME NEW status, NEW etag, call' = Answered(status, etag),
             q.web => \/ status = Declared(q).success /\ (WebCalls[q.op].awaits => etag)
                      \/ status = 401 /\ \A s \in Opened' : ~Good(s)'
                      \/ status = 412 /\ q.ifMatch = "stale"
                      \/ status \in reasons
      PROVE  CallsAreUnderstood'
  <2>1. call'.request = q /\ call'.status = status /\ call'.etag = etag
    BY <1>3 DEF Answered
  <2> QED
    BY <1>3, <2>1 DEF CallsAreUnderstood, Declared, Handler
<1>4. CASE Receive
  <2> DEFINE statuses == <<PolicyStatus(q), ParserStatus(q), RouteStatus(q)>>
  <2>1. /\ call.stage = "received"
        /\ call' = IF FirstRefusal(statuses) /= Pass THEN Answered(FirstRefusal(statuses), FALSE)
                   ELSE [call EXCEPT !.stage = IF Routes[q.op].public THEN "handle" ELSE "guard"]
    BY <1>4 DEF Receive
  <2>2. CASE ~q.web
    <3>1. CASE FirstRefusal(statuses) /= Pass
      BY <1>3, <2>1, <2>2, <3>1
    <3>2. CASE FirstRefusal(statuses) = Pass
      <4>1. call' = [call EXCEPT !.stage = IF Routes[q.op].public THEN "handle" ELSE "guard"]
        BY <2>1, <3>2
      <4> QED
        BY <1>1, <2>1, <4>1 DEF CallKnows
    <3> QED
      BY <3>1, <3>2
  <2>3. CASE q.web
    <3>1. DOMAIN statuses = 1 .. 3 /\ \A i \in 1 .. 3 : statuses[i] = Pass
      BY <1>0, <2>1, <2>3, WebStatuses
    <3> HIDE DEF statuses
    <3>2. FirstRefusal(statuses) = Pass
      BY <3>1, FirstRefusalIs
    <3>3. call' = [call EXCEPT !.stage = IF Routes[q.op].public THEN "handle" ELSE "guard"]
      BY <2>1, <3>2
    <3> QED
      BY <1>1, <2>1, <3>3 DEF CallKnows
  <2> QED
    BY <2>2, <2>3
<1>5. CASE NoCookie
  BY <1>0, <1>3, <1>5 DEF NoCookie, SentByTheWeb
<1>6. CASE TurnAway
  <2> DEFINE r == call.by  seen == request[r]  s == seen.session
             usable == Usable(seen.row, seen.enabled, seen.epoch)
  <2>1. /\ call.stage = "lookup" /\ seen.stage = "check" /\ Refuse(r)
        /\ ~usable \/ ~CsrfHolds(q)
        /\ call' = Answered(IF usable THEN 403 ELSE 401, FALSE)
    BY <1>6 DEF TurnAway
  <2>2. CASE ~q.web
    BY <1>3, <2>1, <2>2
  <2>3. CASE q.web
    <3>1. CsrfHolds(q)
      BY <1>0, <2>1, <2>3, WebStatuses DEF CallFits
    <3>2. ~usable /\ call' = Answered(401, FALSE)
      BY <2>1, <3>1
    <3>3. /\ r \in Requests /\ s \in Opened /\ seen.row \in Session
          /\ seen.row.expiresAt = session[s].expiresAt /\ session[s].expiresAt > 0
          /\ seen.row.revoked => s \in ended
          /\ seen.enabled /\ clock = 0 /\ IdleTimeout \in Nat
          /\ seen.row.boundEpoch /= seen.epoch => login[s].since /= changes
      BY <1>0, <2>1, SettingsAssumption DEF IInv, RequestsKnow, RowsTell, InFlight
    <3>4. ~Good(s)
      BY <3>2, <3>3 DEF Usable, Good, Session, Times
    <3>5. \A t \in Opened : ~Good(t)
      BY <2>1, <3>3, <3>4 DEF InFlight
    <3>6. \A t \in Opened' : ~Good(t)'
      BY <2>1, <3>5 DEF Refuse, Good, Opened
    <3> QED
      BY <1>3, <3>2, <3>6
  <2> QED
    BY <2>2, <2>3
<1>7. ASSUME call.stage = "handle", q.web
      PROVE  /\ HandlerStatus(q) = Pass \/ (HandlerStatus(q) = 412 /\ q.ifMatch = "stale")
             /\ Handler(q).code = Declared(q).success
             /\ WebCalls[q.op].awaits => Handler(q).etag
  BY <1>0, <1>7, WebStatuses, TablesFit DEF Fits, Declares, Suits, Declared, Handler, SentByTheWeb
<1>8. CASE RefuseInHandler
  BY <1>3, <1>7, <1>8 DEF RefuseInHandler, Handled
<1>9. CASE RefuseInService
  <2>1. PICK status \in reasons : call' = Answered(status, FALSE)
    BY <1>9 DEF RefuseInService
  <2> QED
    BY <1>3, <2>1
<1>10. CASE Succeed
  BY <1>3, <1>7, <1>10 DEF Succeed, Handled
<1>11. ASSUME NEW r \in Requests, Arrive(r) PROVE call'.stage /= "answered"
  BY <1>11 DEF Arrive
<1>12. LookUpSession \/ Admit => call'.stage /= "answered"
  BY DEF LookUpSession, Admit, CallKnows
<1>13. LookUpUser \/ Attend => call'.stage /= "answered"
  BY DEF LookUpUser, Attend
<1>14. CASE call = NoCall /\ Next /\ UNCHANGED call
  BY <1>1, <1>14 DEF NoCall
<1>15. CASE call.stage = "lookup" /\ (\E c \in Commands : RunCommand(c)) /\ UNCHANGED call
  BY <1>1, <1>15
<1> QED
  BY <1>1, <1>2, <1>4, <1>5, <1>6, <1>8, <1>9, <1>10, <1>11, <1>12, <1>13, <1>14, <1>15
     DEF PipelineNext

(* The inductive invariant of the pipeline.                                *)
PipelineInv ==
    /\ IInv /\ RowsTell /\ CallKnows /\ CallFits /\ InFlight
    /\ AnswersAreDeclared /\ CallsAreUnderstood

(* It holds in every reachable state of the pipeline.                      *)
THEOREM PipelineInvariant == PipelineSpec => []PipelineInv
<1>1. PipelineInit => PipelineInv
  BY InitInv, InitRowsTell DEF PipelineInit, PipelineInv, CallKnows, CallFits, InFlight, NoCall,
     AnswersAreDeclared, CallsAreUnderstood
<1>2. PipelineInv /\ [PipelineNext]_pipelineVars => PipelineInv'
  <2> SUFFICES ASSUME PipelineInv, [PipelineNext]_pipelineVars PROVE PipelineInv'
    OBVIOUS
  <2>1. [Next]_vars /\ CallKnows'
    BY PipelineStep DEF PipelineInv, IInv, Rows
  <2>2. IInv' /\ RowsTell'
    BY <2>1, StepInv, RowsTellStep DEF PipelineInv
  <2>3. CallFits' /\ InFlight' /\ AnswersAreDeclared' /\ CallsAreUnderstood'
    BY CallFitsStep, InFlightStep, AnswersStep, UnderstoodStep DEF PipelineInv
  <2> QED
    BY <2>1, <2>2, <2>3 DEF PipelineInv
<1> QED
  BY <1>1, <1>2, PTL DEF PipelineSpec

(* However a request departs from the contract, whoever answers it --      *)
(* middleware, parser, route, guard, executor or service -- does so with a *)
(* status its operation declares.                                          *)
THEOREM AnswersAreAlwaysDeclared == PipelineSpec => []AnswersAreDeclared
  BY PipelineInvariant, PTL DEF PipelineInv

(* No call of the web application is turned down for how it was made: only *)
(* an ended session, a changed record or the service refuses it.           *)
THEOREM CallsAreAlwaysUnderstood == PipelineSpec => []CallsAreUnderstood
  BY PipelineInvariant, PTL DEF PipelineInv

-----------------------------------------------------------------------------
(***************************************************************************)
(* The login throttle, for any number of sign-ins, accounts and tracked    *)
(* keys and any budgets and windows.                                       *)
(*                                                                         *)
(* The argument: what the throttle has forgotten of the refusals has left  *)
(* the window, because a list loses only what a window no longer holds, a  *)
(* key only what it has nothing of, and an evicted account is one with no  *)
(* ticket out.  So the lists count what the windows hold, and a ticket is  *)
(* handed out only while there is room for the refusal it may become.      *)
(***************************************************************************)
\* Timestamps in the order in which they were taken, none in the future.
Ascending(timestamps, now) ==
    /\ \A i \in DOMAIN timestamps : timestamps[i] <= now
    /\ \A i, j \in DOMAIN timestamps : i <= j => timestamps[i] <= timestamps[j]

\* The positions still inside the window, and how many they are.
InsideOf(timestamps, now, window) == {i \in DOMAIN timestamps : timestamps[i] > now - window}
Within(timestamps, window, now) == Cardinality(InsideOf(timestamps, now, window))

\* A list is what remains of a history of which only the past is gone.
KeptOf(kept, all, window, now) ==
    \E n \in 0 .. Len(all) :
        /\ Len(kept) = Len(all) - n
        /\ \A i \in 1 .. Len(kept) : kept[i] = all[n + i]
        /\ \A i \in 1 .. n : all[i] <= now - window

(* The counters count the tickets that are out.                            *)
TicketsCounted ==
    /\ IsFiniteSet(OpenTickets) /\ globalInFlight = Cardinality(OpenTickets)
    /\ \A a \in Accounts : IsFiniteSet(OpenOf(a)) /\ inFlight[a] = Cardinality(OpenOf(a))

(* What is not tracked has nothing to keep, and nothing under way.         *)
OthersEmpty ==
    \A a \in Accounts : ~Tracked(a) => failures[a] = <<>> /\ OpenOf(a) = {}

(* The lists hold what the windows still hold of the refusals.             *)
WindowsKept ==
    /\ Ascending(allRejected, time) /\ KeptOf(globalFailures, allRejected, GlobalWindow, time)
    /\ \A a \in Accounts :
        Ascending(rejected[a], time) /\ KeptOf(failures[a], rejected[a], AccountWindow, time)

TableBounded == Len(tracked) <= MaxTrackedAccounts

(* The budgets, of all and of each account.                                *)
BudgetsKept ==
    /\ Within(allRejected, GlobalWindow, time) + Cardinality(OpenTickets) <= MaxFailuresGlobal
    /\ \A a \in Accounts :
        Within(rejected[a], AccountWindow, time) + Cardinality(OpenOf(a)) <= MaxFailuresPerAccount

ThrottleInv ==
    ThrottleTypeOK /\ TicketsCounted /\ OthersEmpty /\ WindowsKept /\ TableBounded /\ BudgetsKept

-----------------------------------------------------------------------------
(* Filtered keeps what it is told to: the k-th position kept is the one    *)
(* with k positions kept up to it.                                         *)
RankIn(kept, i) == Cardinality({j \in kept : j <= i})

(* The ranks of a finite set number its members from 1.                    *)
LEMMA RanksCount ==
  ASSUME NEW kept \in SUBSET Nat, IsFiniteSet(kept)
  PROVE  /\ \A i \in kept : RankIn(kept, i) \in 1 .. Cardinality(kept)
         /\ \A i, j \in kept : RankIn(kept, i) = RankIn(kept, j) => i = j
         /\ \A k \in 1 .. Cardinality(kept) : \E i \in kept : RankIn(kept, i) = k
<1> DEFINE upTo(i) == {j \in kept : j <= i}
           n == Cardinality(kept)
           rank == [i \in kept |-> RankIn(kept, i)]
<1>0. n \in Nat
  BY FS_CardinalityType
<1>1. ASSUME NEW i \in kept PROVE IsFiniteSet(upTo(i)) /\ RankIn(kept, i) \in 1 .. n
  <2>1. IsFiniteSet(upTo(i)) /\ Cardinality(upTo(i)) <= n
    BY FS_Subset
  <2>2. Cardinality(upTo(i)) \in Nat /\ Cardinality(upTo(i)) # 0
    BY <2>1, FS_CardinalityType, FS_EmptySet
  <2> QED
    BY <1>0, <2>1, <2>2 DEF RankIn
<1>2. ASSUME NEW i \in kept, NEW j \in kept, i < j PROVE RankIn(kept, i) # RankIn(kept, j)
  <2> i \in Nat /\ j \in Nat /\ \A h \in kept : h \in Nat
    OBVIOUS
  <2>3. \A h \in kept : h <= i => h <= j
    BY <1>2
  <2>4. j \in upTo(j) /\ j \notin upTo(i)
    BY <1>2
  <2>1. upTo(i) \in SUBSET upTo(j) /\ upTo(i) # upTo(j)
    BY <2>3, <2>4
  <2>2. Cardinality(upTo(i)) # Cardinality(upTo(j))
    BY <2>1, <1>1, FS_Subset
  <2> QED
    BY <2>2 DEF RankIn
<1>3. \A i, j \in kept : RankIn(kept, i) = RankIn(kept, j) => i = j
  BY <1>2
<1>4. rank \in Injection(kept, 1 .. n)
  BY <1>1, <1>3 DEF Injection, IsInjective
<1>5. rank \in Surjection(kept, 1 .. n)
  <2>1. IsFiniteSet(1 .. n) /\ Cardinality(1 .. n) = n
    BY <1>0, FS_Interval
  <2> QED
    BY <1>4, <2>1, FS_Injection
<1>6. \A k \in 1 .. n : \E i \in kept : RankIn(kept, i) = k
  BY <1>5 DEF Surjection
<1> QED
  BY <1>1, <1>3, <1>6

(* A finite set of naturals has a least one.                               *)
LEMMA HasLeast ==
  ASSUME NEW kept \in SUBSET Nat, IsFiniteSet(kept), kept # {}
  PROVE  \E i \in kept : \A j \in kept : i <= j
<1>1. Cardinality(kept) \in Nat /\ Cardinality(kept) # 0
  BY FS_CardinalityType, FS_EmptySet
<1>2. 1 \in 1 .. Cardinality(kept)
  BY <1>1
<1>3. PICK i \in kept : RankIn(kept, i) = 1
  BY <1>2, RanksCount
<1>4. ASSUME NEW j \in kept PROVE i <= j
  <2>1. SUFFICES ASSUME j < i PROVE FALSE
    OBVIOUS
  <2>2. {i, j} \in SUBSET {h \in kept : h <= i}
    BY <2>1
  <2>3. IsFiniteSet({h \in kept : h <= i})
    BY FS_Subset
  <2>4. PICK x : {h \in kept : h <= i} = {x}
    BY <2>3, <1>3, FS_Singleton DEF RankIn
  <2> QED
    BY <2>1, <2>2, <2>4
<1> QED
  BY <1>4

(* Filtered is a sequence of exactly what is kept, in order.               *)
LEMMA FilteredKeeps ==
  ASSUME NEW S, NEW s \in Seq(S), NEW kept \in SUBSET DOMAIN s
  PROVE  /\ Filtered(s, kept) \in Seq(S)
         /\ Len(Filtered(s, kept)) = Cardinality(kept)
         /\ Cardinality(kept) \in Nat /\ Cardinality(kept) <= Len(s)
         /\ Range(Filtered(s, kept)) = {s[i] : i \in kept}
         /\ \A k \in 1 .. Cardinality(kept) :
              \E i \in kept : RankIn(kept, i) = k /\ Filtered(s, kept)[k] = s[i]
<1> DEFINE n == Cardinality(kept)
           at(k) == CHOOSE i \in kept : RankIn(kept, i) = k
<1>1. DOMAIN s = 1 .. Len(s) /\ Len(s) \in Nat /\ kept \in SUBSET Nat
  BY LenProperties
<1>2. IsFiniteSet(kept) /\ n \in Nat /\ n <= Len(s)
  <2>1. IsFiniteSet(1 .. Len(s)) /\ Cardinality(1 .. Len(s)) = Len(s)
    <3>1. 1 \in Int /\ Len(s) \in Int
      BY <1>1
    <3>2. /\ IsFiniteSet(1 .. Len(s))
          /\ Cardinality(1 .. Len(s)) = IF 1 > Len(s) THEN 0 ELSE Len(s) - 1 + 1
      BY <3>1, FS_Interval
    <3> QED
      BY <1>1, <3>2
  <2> QED
    BY <1>1, <2>1, FS_Subset, FS_CardinalityType
<1>3. \A k \in 1 .. n : at(k) \in kept /\ RankIn(kept, at(k)) = k
  BY <1>1, <1>2, RanksCount
<1>4. \A i \in kept : RankIn(kept, i) \in 1 .. n /\ at(RankIn(kept, i)) = i
  BY <1>1, <1>2, <1>3, RanksCount
<1>5. Filtered(s, kept) = [k \in 1 .. n |-> s[at(k)]]
  BY DEF Filtered, RankIn
<1> HIDE DEF at
<1>6. \A k \in 1 .. n : s[at(k)] \in S
  BY <1>1, <1>3, ElementOfSeq
<1>7. Filtered(s, kept) \in Seq(S)
  BY <1>2, <1>5, <1>6, IsASeq
<1>8. Len(Filtered(s, kept)) = n /\ DOMAIN Filtered(s, kept) = 1 .. n
  BY <1>2, <1>5, <1>7, LenProperties
<1>9. Range(Filtered(s, kept)) = {s[i] : i \in kept}
  BY <1>3, <1>4, <1>5, <1>8 DEF Range
<1>10. \A k \in 1 .. n : \E i \in kept : RankIn(kept, i) = k /\ Filtered(s, kept)[k] = s[i]
  BY <1>3, <1>5
<1> QED
  BY <1>2, <1>7, <1>8, <1>9, <1>10

(* Of ascending timestamps the window keeps the last ones.                 *)
LEMMA InsideIsATail ==
  ASSUME NEW ts \in Seq(Nat), NEW now \in Nat, NEW later \in Int, NEW window \in Int,
         Ascending(ts, now)
  PROVE  \E n \in 0 .. Len(ts) : InsideOf(ts, later, window) = (n + 1) .. Len(ts)
<1> DEFINE kept == InsideOf(ts, later, window)
<1>1. DOMAIN ts = 1 .. Len(ts) /\ Len(ts) \in Nat /\ kept \in SUBSET Nat
         /\ kept \in SUBSET DOMAIN ts /\ \A i \in DOMAIN ts : ts[i] \in Nat
  BY LenProperties, ElementOfSeq DEF InsideOf
<1>2. CASE kept = {}
  <2>1. kept = (Len(ts) + 1) .. Len(ts)
    BY <1>1, <1>2
  <2> QED
    BY <1>1, <2>1
<1>3. CASE kept # {}
  <2> HIDE DEF kept
  <2>1. IsFiniteSet(kept)
    <3>1. IsFiniteSet(1 .. Len(ts))
      BY <1>1, FS_Interval
    <3> QED
      BY <1>1, <3>1, FS_Subset
  <2>3. PICK i \in kept : \A j \in kept : i <= j
    BY <1>1, <1>3, <2>1, HasLeast
  <2>4. \A j \in DOMAIN ts : i <= j => j \in kept
    BY <1>1 DEF Ascending, InsideOf, kept
  <2>5. kept = ((i - 1) + 1) .. Len(ts)
    <3>1. (i - 1) + 1 = i /\ i \in 1 .. Len(ts)
      BY <1>1
    <3>2. \A j \in kept : j \in i .. Len(ts)
      BY <1>1, <2>3
    <3>3. \A j \in i .. Len(ts) : j \in DOMAIN ts /\ i <= j
      BY <1>1, <3>1
    <3> QED
      BY <2>4, <3>1, <3>2, <3>3
  <2>6. i - 1 \in 0 .. Len(ts)
    BY <1>1
  <2> QED
    BY <2>5, <2>6 DEF kept
<1> QED
  BY <1>2, <1>3

(* So recent() is the tail of what it is given.                            *)
LEMMA RecentIsATail ==
  ASSUME NEW ts \in Seq(Nat), NEW now \in Nat, NEW later \in Int, NEW window \in Int,
         Ascending(ts, now)
  PROVE  \E n \in 0 .. Len(ts) :
           /\ InsideOf(ts, later, window) = (n + 1) .. Len(ts)
           /\ Recent(ts, later, window) \in Seq(Nat)
           /\ Len(Recent(ts, later, window)) = Len(ts) - n
           /\ \A k \in 1 .. (Len(ts) - n) : Recent(ts, later, window)[k] = ts[n + k]
<1>1. DOMAIN ts = 1 .. Len(ts) /\ Len(ts) \in Nat
  BY LenProperties
<1>2. PICK n \in 0 .. Len(ts) : InsideOf(ts, later, window) = (n + 1) .. Len(ts)
  BY InsideIsATail
<1> DEFINE kept == (n + 1) .. Len(ts)
<1>3. kept \in SUBSET DOMAIN ts /\ Cardinality(kept) = Len(ts) - n
  <2>1. n + 1 \in Int /\ Len(ts) \in Int /\ n <= Len(ts)
    BY <1>1
  <2>2. Cardinality(kept) = IF n + 1 > Len(ts) THEN 0 ELSE Len(ts) - (n + 1) + 1
    BY <2>1, FS_Interval
  <2>3. kept \in SUBSET DOMAIN ts
    BY <1>1
  <2> QED
    BY <2>1, <2>2, <2>3
<1>4. Recent(ts, later, window) = Filtered(ts, kept)
  BY <1>2 DEF Recent, InsideOf
<1>5. ASSUME NEW i \in kept PROVE RankIn(kept, i) = i - n
  <2>1. {j \in kept : j <= i} = (n + 1) .. i
    BY <1>1
  <2>2. Cardinality((n + 1) .. i) = i - n
    BY <1>1, FS_Interval
  <2> QED
    BY <2>1, <2>2 DEF RankIn
<1>6. ASSUME NEW k \in 1 .. (Len(ts) - n) PROVE Filtered(ts, kept)[k] = ts[n + k]
  <2>1. PICK i \in kept : RankIn(kept, i) = k /\ Filtered(ts, kept)[k] = ts[i]
    <3> HIDE DEF kept
    <3>1. k \in 1 .. Cardinality(kept)
      BY <1>3
    <3>2. \A K \in SUBSET DOMAIN ts : \A h \in 1 .. Cardinality(K) :
            \E i \in K : RankIn(K, i) = h /\ Filtered(ts, K)[h] = ts[i]
      BY FilteredKeeps
    <3> QED
      BY <1>3, <3>1, <3>2
  <2>2. i - n = k
    BY <1>5, <2>1
  <2>3. i = n + k
    BY <1>1, <2>2
  <2> QED
    BY <2>1, <2>3
<1>7. Filtered(ts, kept) \in Seq(Nat) /\ Len(Filtered(ts, kept)) = Len(ts) - n
  BY <1>3, FilteredKeeps
<1> QED
  BY <1>2, <1>4, <1>6, <1>7

(* What of a history has left the window is not missed.                    *)
LEMMA KeptLater ==
  ASSUME NEW kept \in Seq(Nat), NEW all \in Seq(Nat), NEW window \in Nat,
         NEW now \in Nat, NEW later \in Nat, now <= later,
         KeptOf(kept, all, window, now)
  PROVE  KeptOf(kept, all, window, later)
<1>1. \A i \in 1 .. Len(all) : all[i] \in Nat
  BY ElementOfSeq
<1>2. PICK n \in 0 .. Len(all) :
         /\ Len(kept) = Len(all) - n
         /\ \A i \in 1 .. Len(kept) : kept[i] = all[n + i]
         /\ \A i \in 1 .. n : all[i] <= now - window
  BY DEF KeptOf
<1>3. \A i \in 1 .. n : all[i] <= later - window
  <2> SUFFICES ASSUME NEW i \in 1 .. n PROVE all[i] <= later - window
    OBVIOUS
  <2>1. Len(all) \in Nat /\ i \in 1 .. Len(all)
    BY LenProperties
  <2>2. all[i] \in Nat /\ all[i] <= now - window
    BY <1>1, <1>2, <2>1
  <2>3. now - window <= later - window /\ now - window \in Int /\ later - window \in Int
    OBVIOUS
  <2> QED
    BY <2>2, <2>3
<1> QED
  BY <1>2, <1>3 DEF KeptOf

(* Time passing leaves timestamps in order.                                *)
LEMMA AscendingLater ==
  ASSUME NEW all \in Seq(Nat), NEW now \in Nat, NEW later \in Nat, now <= later,
         Ascending(all, now)
  PROVE  Ascending(all, later)
<1>1. \A i \in DOMAIN all : all[i] \in Nat
  BY ElementOfSeq, LenProperties
<1> QED
  BY <1>1 DEF Ascending

(* A timestamp taken now comes last.                                       *)
LEMMA AscendingAppend ==
  ASSUME NEW all \in Seq(Nat), NEW now \in Nat, Ascending(all, now)
  PROVE  Ascending(Append(all, now), now)
<1>1. /\ \A i \in DOMAIN all : all[i] \in Nat
      /\ Len(all) \in Nat /\ DOMAIN all = 1 .. Len(all)
  BY ElementOfSeq, LenProperties
<1>2. /\ DOMAIN Append(all, now) = 1 .. (Len(all) + 1)
      /\ \A i \in 1 .. Len(all) : Append(all, now)[i] = all[i]
      /\ Append(all, now)[Len(all) + 1] = now
  BY AppendProperties, LenProperties
<1>3. \A i \in DOMAIN Append(all, now) :
         \/ i \in DOMAIN all /\ Append(all, now)[i] = all[i] /\ all[i] <= now
         \/ i = Len(all) + 1 /\ Append(all, now)[i] = now
  BY <1>1, <1>2 DEF Ascending
<1>4. ASSUME NEW i \in DOMAIN Append(all, now), NEW j \in DOMAIN Append(all, now), i <= j
      PROVE  Append(all, now)[i] <= Append(all, now)[j]
  <2>1. CASE j \in DOMAIN all
    <3>1. i \in DOMAIN all
      BY <1>1, <1>2, <1>4, <2>1
    <3>2. Append(all, now)[i] = all[i] /\ Append(all, now)[j] = all[j]
      BY <1>1, <1>2, <2>1, <3>1
    <3> QED
      BY <1>4, <2>1, <3>1, <3>2 DEF Ascending
  <2>2. CASE j = Len(all) + 1
    <3>1. Append(all, now)[j] = now
      BY <1>2, <2>2
    <3> QED
      BY <1>3, <3>1
  <2> QED
    BY <1>3, <2>1, <2>2
<1> QED
  BY <1>3, <1>4 DEF Ascending

(* What is kept of an ordered history is ordered.                          *)
LEMMA AscendingKept ==
  ASSUME NEW kept \in Seq(Nat), NEW all \in Seq(Nat), NEW window \in Nat, NEW now \in Nat,
         Ascending(all, now), KeptOf(kept, all, window, now)
  PROVE  Ascending(kept, now)
<1>1. /\ Len(all) \in Nat /\ DOMAIN all = 1 .. Len(all)
      /\ Len(kept) \in Nat /\ DOMAIN kept = 1 .. Len(kept)
  BY LenProperties
<1>2. PICK n \in 0 .. Len(all) :
         /\ Len(kept) = Len(all) - n
         /\ \A i \in 1 .. Len(kept) : kept[i] = all[n + i]
  BY DEF KeptOf
<1>3. \A i \in 1 .. Len(kept) : n + i \in 1 .. Len(all)
  BY <1>1, <1>2
<1>4. \A i, j \in DOMAIN kept : i <= j => n + i <= n + j
  BY <1>1
<1>5. \A i \in DOMAIN kept : kept[i] = all[n + i]
  BY <1>1, <1>2
<1> QED
  BY <1>1, <1>3, <1>4, <1>5 DEF Ascending

(* recent() drops only what is past.                                       *)
LEMMA KeptRecent ==
  ASSUME NEW kept \in Seq(Nat), NEW all \in Seq(Nat), NEW window \in Nat, NEW now \in Nat,
         Ascending(all, now), KeptOf(kept, all, window, now)
  PROVE  /\ KeptOf(Recent(kept, now, window), all, window, now)
         /\ Recent(kept, now, window) \in Seq(Nat)
         /\ Cardinality(InsideOf(all, now, window)) = Len(Recent(kept, now, window))
         /\ IsFiniteSet(InsideOf(all, now, window))
<1> DEFINE r == Recent(kept, now, window)
<1>1. /\ Len(all) \in Nat /\ DOMAIN all = 1 .. Len(all)
      /\ Len(kept) \in Nat /\ DOMAIN kept = 1 .. Len(kept)
      /\ \A i \in DOMAIN all : all[i] \in Nat
  BY LenProperties, ElementOfSeq
<1>2. PICK n \in 0 .. Len(all) :
         /\ Len(kept) = Len(all) - n
         /\ \A i \in 1 .. Len(kept) : kept[i] = all[n + i]
         /\ \A i \in 1 .. n : all[i] <= now - window
  BY DEF KeptOf
<1>3. PICK m \in 0 .. Len(kept) :
         /\ InsideOf(kept, now, window) = (m + 1) .. Len(kept)
         /\ r \in Seq(Nat) /\ Len(r) = Len(kept) - m
         /\ \A k \in 1 .. (Len(kept) - m) : r[k] = kept[m + k]
  <2>1. Ascending(kept, now) /\ now \in Int /\ window \in Int
    BY AscendingKept
  <2>2. \E m \in 0 .. Len(kept) :
           /\ InsideOf(kept, now, window) = (m + 1) .. Len(kept)
           /\ Recent(kept, now, window) \in Seq(Nat)
           /\ Len(Recent(kept, now, window)) = Len(kept) - m
           /\ \A k \in 1 .. (Len(kept) - m) : Recent(kept, now, window)[k] = kept[m + k]
    BY <2>1, RecentIsATail
  <2> QED
    BY <2>2
<1> HIDE DEF r
<1>4. n + m \in 0 .. Len(all) /\ Len(r) = Len(all) - (n + m)
  BY <1>1, <1>2, <1>3
<1>5. \A i \in 1 .. Len(r) : r[i] = all[(n + m) + i]
  <2> SUFFICES ASSUME NEW i \in 1 .. Len(r) PROVE r[i] = all[(n + m) + i]
    OBVIOUS
  <2>2. Len(r) = Len(kept) - m /\ Len(kept) \in Nat /\ m \in 0 .. Len(kept) /\ n \in Nat
    BY <1>1, <1>3
  <2>1. i \in 1 .. (Len(kept) - m) /\ m + i \in 1 .. Len(kept) /\ n + (m + i) = (n + m) + i
    BY <2>2
  <2> QED
    BY <1>2, <1>3, <2>1
<1>6. \A i \in 1 .. Len(all) : all[i] > now - window <=> i > n + m
  <2> SUFFICES ASSUME NEW i \in 1 .. Len(all) PROVE all[i] > now - window <=> i > n + m
    OBVIOUS
  <2>1. CASE i <= n
    <3>1. all[i] <= now - window /\ i \in DOMAIN all /\ i \in 1 .. n
      BY <1>1, <1>2, <2>1
    <3> QED
      BY <1>1, <2>1, <3>1
  <2>2. CASE i > n
    <3>1. i - n \in 1 .. Len(kept) /\ n + (i - n) = i
      BY <1>1, <1>2, <2>2
    <3>2. kept[i - n] = all[i]
      BY <1>2, <3>1
    <3>3. kept[i - n] > now - window <=> i - n \in (m + 1) .. Len(kept)
      BY <1>1, <1>3, <3>1 DEF InsideOf
    <3>4. i - n \in (m + 1) .. Len(kept) <=> i > n + m
      BY <1>1, <3>1
    <3> QED
      BY <3>2, <3>3, <3>4
  <2> QED
    BY <1>1, <2>1, <2>2
<1>7. \A i \in 1 .. (n + m) : all[i] <= now - window
  <2> SUFFICES ASSUME NEW i \in 1 .. (n + m) PROVE all[i] <= now - window
    OBVIOUS
  <2>1. i \in 1 .. Len(all) /\ ~(i > n + m)
    BY <1>1, <1>4
  <2> QED
    BY <1>1, <1>6, <2>1
<1>8. InsideOf(all, now, window) = (n + m + 1) .. Len(all)
  <2>1. \A i \in 1 .. Len(all) : i > n + m <=> i \in (n + m + 1) .. Len(all)
    BY <1>1, <1>4
  <2>2. \A i \in (n + m + 1) .. Len(all) : i \in 1 .. Len(all)
    BY <1>1, <1>4
  <2> QED
    BY <1>1, <1>6, <2>1, <2>2 DEF InsideOf
<1>9. /\ IsFiniteSet((n + m + 1) .. Len(all))
      /\ Cardinality((n + m + 1) .. Len(all)) = Len(all) - (n + m)
  <2>1. n + m + 1 \in Int /\ Len(all) \in Int
    BY <1>1, <1>4
  <2>2. /\ IsFiniteSet((n + m + 1) .. Len(all))
        /\ Cardinality((n + m + 1) .. Len(all))
             = IF n + m + 1 > Len(all) THEN 0 ELSE Len(all) - (n + m + 1) + 1
    BY <2>1, FS_Interval
  <2> QED
    BY <1>1, <1>4, <2>2
<1>10. KeptOf(r, all, window, now)
  BY <1>4, <1>5, <1>7 DEF KeptOf
<1> QED
  BY <1>3, <1>4, <1>8, <1>9, <1>10 DEF r

(* A refusal enters the list and the history alike.                        *)
LEMMA KeptAppend ==
  ASSUME NEW kept \in Seq(Nat), NEW all \in Seq(Nat), NEW window \in Nat, NEW now \in Nat,
         KeptOf(kept, all, window, now)
  PROVE  KeptOf(Append(kept, now), Append(all, now), window, now)
<1>1. /\ Len(all) \in Nat /\ Len(kept) \in Nat
  BY LenProperties
<1>2. PICK n \in 0 .. Len(all) :
         /\ Len(kept) = Len(all) - n
         /\ \A i \in 1 .. Len(kept) : kept[i] = all[n + i]
         /\ \A i \in 1 .. n : all[i] <= now - window
  BY DEF KeptOf
<1>3. /\ Len(Append(all, now)) = Len(all) + 1 /\ Len(Append(kept, now)) = Len(kept) + 1
      /\ \A i \in 1 .. Len(all) : Append(all, now)[i] = all[i]
      /\ \A i \in 1 .. Len(kept) : Append(kept, now)[i] = kept[i]
      /\ Append(all, now)[Len(all) + 1] = now
      /\ Append(kept, now)[Len(kept) + 1] = now
  BY AppendProperties
<1>4. n \in 0 .. (Len(all) + 1) /\ Len(kept) + 1 = (Len(all) + 1) - n
  BY <1>1, <1>2
<1>5. \A i \in 1 .. (Len(kept) + 1) : Append(kept, now)[i] = Append(all, now)[n + i]
  <2> SUFFICES ASSUME NEW i \in 1 .. (Len(kept) + 1)
               PROVE Append(kept, now)[i] = Append(all, now)[n + i]
    OBVIOUS
  <2>1. CASE i = Len(kept) + 1
    <3>1. n + i = Len(all) + 1
      BY <1>1, <1>2, <2>1
    <3> QED
      BY <1>3, <2>1, <3>1
  <2>2. CASE i # Len(kept) + 1
    <3>2. Len(kept) = Len(all) - n
      BY <1>2
    <3>3. i \in 1 .. Len(kept)
      BY <1>1, <2>2
    <3>4. n + i \in 1 .. Len(all)
      BY <1>1, <3>2, <3>3
    <3>1. i \in 1 .. Len(kept) /\ n + i \in 1 .. Len(all)
      BY <3>3, <3>4
    <3> QED
      BY <1>2, <1>3, <3>1
  <2> QED
    BY <2>1, <2>2
<1>6. \A i \in 1 .. n : Append(all, now)[i] <= now - window
  <2> SUFFICES ASSUME NEW i \in 1 .. n PROVE Append(all, now)[i] <= now - window
    OBVIOUS
  <2>1. i \in 1 .. Len(all)
    BY <1>1
  <2> QED
    BY <1>2, <1>3, <2>1
<1> QED
  BY <1>3, <1>4, <1>5, <1>6 DEF KeptOf

(* An empty list keeps an empty history.                                   *)
LEMMA KeptNothing ==
  ASSUME NEW window \in Nat, NEW now \in Nat
  PROVE  Ascending(<<>>, now) /\ KeptOf(<<>>, <<>>, window, now)
BY DEF Ascending, KeptOf

(* Time passing leaves no more in a window.                                *)
LEMMA WithinLater ==
  ASSUME NEW all \in Seq(Nat), NEW window \in Nat, NEW now \in Nat, NEW later \in Nat,
         now <= later
  PROVE  Within(all, window, later) \in Nat /\ Within(all, window, later) <= Within(all, window, now)
<1>1. /\ Len(all) \in Nat /\ DOMAIN all = 1 .. Len(all) /\ \A i \in DOMAIN all : all[i] \in Nat
  BY LenProperties, ElementOfSeq
<1>2. InsideOf(all, later, window) \in SUBSET InsideOf(all, now, window)
  BY <1>1 DEF InsideOf
<1>3. IsFiniteSet(DOMAIN all) /\ InsideOf(all, now, window) \in SUBSET DOMAIN all
  BY <1>1, FS_Interval DEF InsideOf
<1>4. IsFiniteSet(InsideOf(all, now, window))
  BY <1>3, FS_Subset
<1> QED
  BY <1>2, <1>4, FS_Subset, FS_CardinalityType DEF Within

(* A refusal just taken is in the window.                                  *)
LEMMA WithinAppend ==
  ASSUME NEW all \in Seq(Nat), NEW window \in Nat \ {0}, NEW now \in Nat
  PROVE  Within(Append(all, now), window, now) = Within(all, window, now) + 1
<1>1. /\ Len(all) \in Nat /\ DOMAIN all = 1 .. Len(all) /\ \A i \in DOMAIN all : all[i] \in Nat
  BY LenProperties, ElementOfSeq
<1>2. /\ DOMAIN Append(all, now) = 1 .. (Len(all) + 1)
      /\ \A i \in 1 .. Len(all) : Append(all, now)[i] = all[i]
      /\ Append(all, now)[Len(all) + 1] = now
  BY AppendProperties, LenProperties
<1>3. InsideOf(Append(all, now), now, window) = InsideOf(all, now, window) \union {Len(all) + 1}
  BY <1>1, <1>2 DEF InsideOf
<1>4. IsFiniteSet(DOMAIN all) /\ InsideOf(all, now, window) \in SUBSET DOMAIN all
  BY <1>1, FS_Interval DEF InsideOf
<1>5. IsFiniteSet(InsideOf(all, now, window)) /\ Len(all) + 1 \notin InsideOf(all, now, window)
  BY <1>1, <1>4, FS_Subset DEF InsideOf
<1> QED
  BY <1>3, <1>5, FS_AddElement DEF Within

(* Nothing is in the window of an empty history.                           *)
LEMMA WithinNothing ==
  ASSUME NEW window \in Nat, NEW now \in Nat
  PROVE  Within(<<>>, window, now) = 0
<1>1. InsideOf(<<>>, now, window) = {}
  BY DEF InsideOf
<1> QED
  BY <1>1, FS_EmptySet DEF Within

(* The count the property uses is the count of recent().                   *)
LEMMA WithinIsInWindow ==
  ASSUME time \in Nat, NEW all \in Seq(Nat), NEW window \in Nat
  PROVE  InWindow(all, window) = Within(all, window, time)
<1>1. \A i \in DOMAIN all : all[i] \in Nat
  BY LenProperties, ElementOfSeq
<1>2. {i \in DOMAIN all : all[i] + window > time} = InsideOf(all, time, window)
  BY <1>1 DEF InsideOf
<1> QED
  BY <1>2 DEF InWindow, Within

(* A history of which nothing had to be kept has left the window.          *)
LEMMA WithinKeptNothing ==
  ASSUME NEW all \in Seq(Nat), NEW window \in Nat, NEW now \in Nat,
         KeptOf(<<>>, all, window, now)
  PROVE  Within(all, window, now) = 0
<1>1. PICK n \in 0 .. Len(all) : Len(all) - n = 0 /\ \A i \in 1 .. n : all[i] <= now - window
  BY DEF KeptOf
<1>2. Len(all) \in Nat /\ DOMAIN all = 1 .. Len(all) /\ \A i \in DOMAIN all : all[i] \in Nat
  BY LenProperties, ElementOfSeq
<1>3. n = Len(all)
  BY <1>1, <1>2
<1>4. \A i \in DOMAIN all : all[i] \in Nat /\ all[i] <= now - window
  BY <1>1, <1>2, <1>3
<1>5. InsideOf(all, now, window) = {}
  BY <1>4 DEF InsideOf
<1> QED
  BY <1>5, FS_EmptySet DEF Within

-----------------------------------------------------------------------------
(* Rounding up to whole seconds waits no less than what is left.           *)
LEMMA RoundedUp ==
  ASSUME NEW left \in Int, NEW ticks \in Nat \ {0}
  PROVE  /\ (left + ticks - 1) \div ticks \in Int
         /\ ((left + ticks - 1) \div ticks) * ticks >= left
OBVIOUS

(* What waitSeconds() answers: 0 when one more fits, else long enough.     *)
LEMMA WaitBounds ==
  ASSUME NEW fs \in Seq(Nat), NEW flying \in Nat, NEW max \in Nat \ {0}, NEW window \in Nat,
         NEW now \in Nat
  PROVE  /\ WaitSeconds(fs, flying, max, window, now) \in Nat
         /\ WaitSeconds(fs, flying, max, window, now) = 0 <=> Len(fs) + flying < max
         /\ flying = 0 /\ Len(fs) >= max =>
              /\ Len(fs) - max + 1 \in 1 .. Len(fs)
              /\ fs[Len(fs) - max + 1] + window - now
                   <= WaitSeconds(fs, flying, max, window, now) * TicksPerSecond
<1> DEFINE excess == Len(fs) + flying - max
           left == fs[excess + 1] + window - now
           seconds == (left + TicksPerSecond - 1) \div TicksPerSecond
           wait == WaitSeconds(fs, flying, max, window, now)
<1>1. /\ Len(fs) \in Nat /\ excess \in Int /\ TicksPerSecond \in Nat \ {0}
      /\ \A i \in 1 .. Len(fs) : fs[i] \in Nat
  BY LenProperties, ElementOfSeq, ThrottleSettings
<1>2. wait = IF excess < 0 THEN 0
             ELSE IF excess >= Len(fs) THEN 1 ELSE IF seconds < 1 THEN 1 ELSE seconds
  BY <1>1 DEF WaitSeconds
<1> HIDE DEF wait, seconds, left
<1>3. CASE excess < 0
  BY <1>1, <1>2, <1>3 DEF wait
<1>4. CASE excess >= Len(fs) /\ ~(excess < 0)
  BY <1>1, <1>2, <1>4 DEF wait
<1>5. CASE ~(excess >= Len(fs)) /\ ~(excess < 0)
  <2>1. excess + 1 \in 1 .. Len(fs)
    BY <1>1, <1>5
  <2>2. left \in Int
    BY <1>1, <2>1 DEF left
  <2>3. seconds \in Int /\ seconds * TicksPerSecond >= left
    BY <1>1, <2>2, RoundedUp DEF seconds
  <2>4. wait \in Nat /\ wait >= 1 /\ wait >= seconds
    BY <1>2, <1>5, <2>3
  <2>5. wait * TicksPerSecond >= seconds * TicksPerSecond
    BY <1>1, <2>3, <2>4
  <2>6. wait * TicksPerSecond \in Int /\ seconds * TicksPerSecond \in Int
    BY <1>1, <2>3, <2>4
  <2>7. left <= wait * TicksPerSecond
    BY <2>2, <2>3, <2>5, <2>6
  <2>8. flying = 0 => Len(fs) - max + 1 = excess + 1
    BY <1>1
  <2>9. wait # 0 /\ ~(Len(fs) + flying < max)
    BY <1>1, <1>5, <2>4
  <2>10. flying = 0 => /\ Len(fs) - max + 1 \in 1 .. Len(fs)
                       /\ fs[Len(fs) - max + 1] + window - now <= wait * TicksPerSecond
    BY <2>1, <2>7, <2>8 DEF left
  <2> QED
    BY <2>4, <2>9, <2>10 DEF wait
<1> QED
  BY <1>1, <1>3, <1>4, <1>5

(* A failure whose wait of d has passed is out of the window.              *)
LEMMA OutBy ==
  ASSUME NEW failed \in Int, NEW window \in Int, NEW now \in Int, NEW later \in Int, NEW d \in Int,
         failed + window - now <= d, now + d <= later
  PROVE  failed <= later - window
  OBVIOUS

(* Whoever waits as long as it is told finds one attempt that fits.        *)
LEMMA WaitSuffices ==
  ASSUME NEW fs \in Seq(Nat), NEW now \in Nat, NEW later \in Nat, NEW window \in Nat,
         NEW max \in Nat \ {0}, Ascending(fs, now), now <= later,
         now + WaitSeconds(Recent(fs, now, window), 0, max, window, now) * TicksPerSecond <= later
  PROVE  WaitSeconds(Recent(fs, later, window), 0, max, window, later) = 0
<1> DEFINE r == Recent(fs, now, window)
           s == Recent(fs, later, window)
           wait == WaitSeconds(r, 0, max, window, now)
<1>1. now \in Int /\ later \in Int /\ window \in Int
  OBVIOUS
<1>2. /\ Len(fs) \in Nat /\ DOMAIN fs = 1 .. Len(fs) /\ \A i \in 1 .. Len(fs) : fs[i] \in Nat
      /\ TicksPerSecond \in Nat \ {0}
  BY LenProperties, ElementOfSeq, ThrottleSettings
<1>3. PICK n \in 0 .. Len(fs) :
         /\ InsideOf(fs, now, window) = (n + 1) .. Len(fs)
         /\ r \in Seq(Nat) /\ Len(r) = Len(fs) - n
         /\ \A k \in 1 .. (Len(fs) - n) : r[k] = fs[n + k]
  <2>1. \E n \in 0 .. Len(fs) :
         /\ InsideOf(fs, now, window) = (n + 1) .. Len(fs)
         /\ Recent(fs, now, window) \in Seq(Nat) /\ Len(Recent(fs, now, window)) = Len(fs) - n
         /\ \A k \in 1 .. (Len(fs) - n) : Recent(fs, now, window)[k] = fs[n + k]
    BY <1>1, RecentIsATail
  <2> QED
    BY <2>1
<1>4. PICK m \in 0 .. Len(fs) :
         /\ InsideOf(fs, later, window) = (m + 1) .. Len(fs)
         /\ s \in Seq(Nat) /\ Len(s) = Len(fs) - m
  <2>1. \E m \in 0 .. Len(fs) :
         /\ InsideOf(fs, later, window) = (m + 1) .. Len(fs)
         /\ Recent(fs, later, window) \in Seq(Nat) /\ Len(Recent(fs, later, window)) = Len(fs) - m
    BY <1>1, RecentIsATail
  <2> QED
    BY <2>1
<1> HIDE DEF r, s, wait
<1>5. Len(s) < max
  <2>1. CASE Len(r) < max
    <3>1. \A i \in InsideOf(fs, later, window) : i \in InsideOf(fs, now, window)
      BY <1>2 DEF InsideOf
    <3>2. m < Len(fs) => m + 1 \in (m + 1) .. Len(fs)
      BY <1>2
    <3>3. m < Len(fs) => m + 1 \in (n + 1) .. Len(fs)
      BY <1>3, <1>4, <3>1, <3>2
    <3>4. Len(s) <= Len(r)
      BY <1>2, <1>3, <1>4, <3>3
    <3> QED
      BY <1>2, <1>3, <1>4, <2>1, <3>4
  <2>2. CASE Len(r) >= max
    <3> DEFINE e == Len(r) - max + 1
    <3>1. /\ e \in 1 .. Len(r) /\ wait \in Nat
          /\ r[e] + window - now <= wait * TicksPerSecond
      BY <1>3, <2>2, WaitBounds DEF wait
    <3> HIDE DEF e
    <3>8. e \in 1 .. (Len(fs) - n)
      BY <1>3, <3>1
    <3>9. n + e \in 1 .. Len(fs)
      BY <1>2, <3>8
    <3>2. n + e \in 1 .. Len(fs) /\ r[e] = fs[n + e] /\ fs[n + e] \in Nat
      BY <1>2, <1>3, <3>8, <3>9
    <3>3. wait * TicksPerSecond \in Int
      BY <1>2, <3>1
    <3>4. now + wait * TicksPerSecond <= later
      BY DEF wait, r
    <3>10. fs[n + e] + window - now <= wait * TicksPerSecond
      BY <3>1, <3>2
    <3>14. /\ fs[n + e] \in Int /\ now \in Int /\ later \in Int /\ window \in Int
      BY <3>2
    <3>5. fs[n + e] <= later - window
      BY ONLY <3>3, <3>4, <3>10, <3>14, OutBy
    <3>6. n + e \notin InsideOf(fs, later, window)
      BY <1>2, <3>2, <3>5 DEF InsideOf
    <3>7. n + e <= m
      BY <1>2, <1>4, <3>2, <3>6
    <3>11. n + e = Len(fs) - max + 1
      BY <1>2, <1>3 DEF e
    <3>12. Len(fs) - max + 1 <= m
      BY <3>7, <3>11
    <3>13. Len(s) = Len(fs) - m
      BY <1>4
    <3> QED
      BY <1>2, <3>12, <3>13
  <2> QED
    BY <1>2, <1>3, <2>1, <2>2
<1>6. Len(s) + 0 < max
  BY <1>2, <1>4, <1>5
<1>7. WaitSeconds(s, 0, max, window, later) = 0
  BY <1>4, <1>6, WaitBounds
<1> QED
  BY <1>7 DEF s

-----------------------------------------------------------------------------
(* What the counters count.                                                *)
LEMMA TicketTaken ==
  ASSUME ThrottleTypeOK, TicketsCounted, NEW p \in Attempts, NEW a \in Accounts,
         ticket[p] = NoTicket, ticket' = [ticket EXCEPT ![p] = a]
  PROVE  /\ ticket' \in [Attempts -> Accounts \union {NoTicket}]
         /\ IsFiniteSet(OpenTickets') /\ Cardinality(OpenTickets') = Cardinality(OpenTickets) + 1
         /\ \A b \in Accounts :
              /\ IsFiniteSet(OpenOf(b)')
              /\ Cardinality(OpenOf(b)') = IF b = a THEN Cardinality(OpenOf(b)) + 1
                                           ELSE Cardinality(OpenOf(b))
              /\ b # a => OpenOf(b)' = OpenOf(b)
<1>1. /\ a # NoTicket /\ ticket \in [Attempts -> Accounts \union {NoTicket}]
      /\ \A b \in Accounts : b # NoTicket
  BY ThrottleSettings DEF ThrottleTypeOK
<1>2. /\ ticket'[p] = a /\ \A q \in Attempts : q # p => ticket'[q] = ticket[q]
      /\ ticket' \in [Attempts -> Accounts \union {NoTicket}]
  BY <1>1
<1>3. OpenTickets' = OpenTickets \union {p} /\ p \notin OpenTickets
  BY <1>1, <1>2 DEF OpenTickets
<1>4. OpenOf(a)' = OpenOf(a) \union {p} /\ p \notin OpenOf(a)
  BY <1>1, <1>2 DEF OpenOf
<1>5. \A b \in Accounts : b # a => OpenOf(b)' = OpenOf(b)
  BY <1>1, <1>2 DEF OpenOf
<1>6. IsFiniteSet(OpenTickets) /\ \A b \in Accounts : IsFiniteSet(OpenOf(b))
  BY DEF TicketsCounted
<1>7. IsFiniteSet(OpenTickets') /\ Cardinality(OpenTickets') = Cardinality(OpenTickets) + 1
  BY <1>3, <1>6, FS_AddElement
<1>8. IsFiniteSet(OpenOf(a)') /\ Cardinality(OpenOf(a)') = Cardinality(OpenOf(a)) + 1
  BY <1>4, <1>6, FS_AddElement
<1> QED
  BY <1>2, <1>5, <1>6, <1>7, <1>8

(* A ticket handed back leaves both counts one less.                       *)
LEMMA TicketReturned ==
  ASSUME ThrottleTypeOK, TicketsCounted, NEW p \in Attempts, NEW a \in Accounts,
         ticket[p] = a, ticket' = [ticket EXCEPT ![p] = NoTicket]
  PROVE  /\ ticket' \in [Attempts -> Accounts \union {NoTicket}]
         /\ IsFiniteSet(OpenTickets') /\ Cardinality(OpenTickets') = Cardinality(OpenTickets) - 1
         /\ Cardinality(OpenTickets) \in Nat /\ Cardinality(OpenTickets) # 0
         /\ Cardinality(OpenOf(a)) \in Nat /\ Cardinality(OpenOf(a)) # 0
         /\ OpenOf(a) # {}
         /\ \A b \in Accounts :
              /\ IsFiniteSet(OpenOf(b)')
              /\ Cardinality(OpenOf(b)') = IF b = a THEN Cardinality(OpenOf(b)) - 1
                                           ELSE Cardinality(OpenOf(b))
              /\ OpenOf(b)' \subseteq OpenOf(b)
<1>1. /\ a # NoTicket /\ ticket \in [Attempts -> Accounts \union {NoTicket}]
      /\ \A b \in Accounts : b # NoTicket
  BY ThrottleSettings DEF ThrottleTypeOK
<1>2. /\ ticket'[p] = NoTicket /\ \A q \in Attempts : q # p => ticket'[q] = ticket[q]
      /\ ticket' \in [Attempts -> Accounts \union {NoTicket}]
  BY <1>1
<1>3. OpenTickets' = OpenTickets \ {p} /\ p \in OpenTickets
  BY <1>1, <1>2 DEF OpenTickets
<1>4. OpenOf(a)' = OpenOf(a) \ {p} /\ p \in OpenOf(a)
  BY <1>1, <1>2 DEF OpenOf
<1>5. \A b \in Accounts : b # a => OpenOf(b)' = OpenOf(b)
  BY <1>1, <1>2 DEF OpenOf
<1>6. IsFiniteSet(OpenTickets) /\ \A b \in Accounts : IsFiniteSet(OpenOf(b))
  BY DEF TicketsCounted
<1>7. /\ IsFiniteSet(OpenTickets') /\ Cardinality(OpenTickets') = Cardinality(OpenTickets) - 1
      /\ Cardinality(OpenTickets) \in Nat /\ Cardinality(OpenTickets) # 0
  BY <1>3, <1>6, FS_RemoveElement, FS_CardinalityType, FS_EmptySet
<1>8. /\ IsFiniteSet(OpenOf(a)') /\ Cardinality(OpenOf(a)') = Cardinality(OpenOf(a)) - 1
      /\ Cardinality(OpenOf(a)) \in Nat /\ Cardinality(OpenOf(a)) # 0
  BY <1>4, <1>6, FS_RemoveElement, FS_CardinalityType, FS_EmptySet
<1> QED
  BY <1>2, <1>4, <1>5, <1>6, <1>7, <1>8

(* Counts of tickets change only with a ticket.                            *)
LEMMA TicketsStay ==
  ASSUME ticket' = ticket
  PROVE  OpenTickets' = OpenTickets /\ \A b : OpenOf(b)' = OpenOf(b)
BY DEF OpenTickets, OpenOf

(* What the invariant says of the windows of one account and of all.       *)
LEMMA AccountRecent ==
  ASSUME ThrottleInv, NEW a \in Accounts
  PROVE  LET r == Recent(failures[a], time, AccountWindow) IN
         /\ r \in Seq(Nat) /\ KeptOf(r, rejected[a], AccountWindow, time)
         /\ Within(rejected[a], AccountWindow, time) = Len(r)
<1>1. /\ failures[a] \in Seq(Nat) /\ rejected[a] \in Seq(Nat) /\ time \in Nat
      /\ AccountWindow \in Nat
  BY ThrottleSettings DEF ThrottleInv, ThrottleTypeOK, Timestamps
<1>2. Ascending(rejected[a], time) /\ KeptOf(failures[a], rejected[a], AccountWindow, time)
  BY DEF ThrottleInv, WindowsKept
<1> QED
  BY <1>1, <1>2, KeptRecent DEF Within

(* The same of the global list.                                            *)
LEMMA GlobalRecent ==
  ASSUME ThrottleInv
  PROVE  LET r == Recent(globalFailures, time, GlobalWindow) IN
         /\ r \in Seq(Nat) /\ KeptOf(r, allRejected, GlobalWindow, time)
         /\ Within(allRejected, GlobalWindow, time) = Len(r)
<1>1. /\ globalFailures \in Seq(Nat) /\ allRejected \in Seq(Nat) /\ time \in Nat
      /\ GlobalWindow \in Nat
  BY ThrottleSettings DEF ThrottleInv, ThrottleTypeOK, Timestamps
<1>2. Ascending(allRejected, time) /\ KeptOf(globalFailures, allRejected, GlobalWindow, time)
  BY DEF ThrottleInv, WindowsKept
<1> QED
  BY <1>1, <1>2, KeptRecent DEF Within

(* begin() hands out a ticket only while both budgets have room.           *)
LEMMA RoomIsLeft ==
  ASSUME ThrottleInv, NEW a \in Accounts, Wait(a, time) = 0
  PROVE  /\ Within(allRejected, GlobalWindow, time) + globalInFlight < MaxFailuresGlobal
         /\ Tracked(a) =>
              Within(rejected[a], AccountWindow, time) + inFlight[a] < MaxFailuresPerAccount
<1> DEFINE f == Recent(failures[a], time, AccountWindow)
           g == Recent(globalFailures, time, GlobalWindow)
<1>1. /\ f \in Seq(Nat) /\ Within(rejected[a], AccountWindow, time) = Len(f)
      /\ g \in Seq(Nat) /\ Within(allRejected, GlobalWindow, time) = Len(g)
  BY AccountRecent, GlobalRecent
<1>2. /\ time \in Nat /\ globalInFlight \in Nat /\ inFlight[a] \in Nat
      /\ MaxFailuresGlobal \in Nat \ {0} /\ MaxFailuresPerAccount \in Nat \ {0}
      /\ AccountWindow \in Nat /\ GlobalWindow \in Nat
  BY ThrottleSettings DEF ThrottleInv, ThrottleTypeOK
<1> HIDE DEF f, g
<1>3. /\ GlobalWait(g, time) \in Nat
      /\ GlobalWait(g, time) = 0 => Len(g) + globalInFlight < MaxFailuresGlobal
  BY <1>1, <1>2, WaitBounds DEF GlobalWait
<1>4. /\ AccountWait(f, inFlight[a], time) \in Nat
      /\ AccountWait(f, inFlight[a], time) = 0 => Len(f) + inFlight[a] < MaxFailuresPerAccount
  BY <1>1, <1>2, WaitBounds DEF AccountWait
<1>5. GlobalWait(g, time) = 0 /\ (Tracked(a) => AccountWait(f, inFlight[a], time) = 0)
  BY <1>3, <1>4 DEF Wait, f, g
<1> QED
  BY <1>1, <1>3, <1>4, <1>5

-----------------------------------------------------------------------------
(* What track() keeps of the table.                                        *)
LEMMA FailuresAtKept ==
  ASSUME ThrottleInv, NEW b \in Accounts
  PROVE  /\ FailuresAt(time)[b] \in Seq(Nat)
         /\ KeptOf(FailuresAt(time)[b], rejected[b], AccountWindow, time)
<1>1. failures[b] \in Seq(Nat) /\ KeptOf(failures[b], rejected[b], AccountWindow, time)
  BY DEF ThrottleInv, ThrottleTypeOK, Timestamps, WindowsKept
<1>2. /\ Recent(failures[b], time, AccountWindow) \in Seq(Nat)
      /\ KeptOf(Recent(failures[b], time, AccountWindow), rejected[b], AccountWindow, time)
  BY AccountRecent
<1> QED
  BY <1>1, <1>2 DEF FailuresAt

(* prune() drops keys with nothing in the window and nobody under way.     *)
LEMMA KeysKeptAre ==
  ASSUME ThrottleInv
  PROVE  /\ KeysKept(time) \in Seq(Accounts) /\ Len(KeysKept(time)) <= Len(tracked)
         /\ Range(KeysKept(time)) \subseteq Range(tracked)
         /\ \A b \in Range(tracked) \ Range(KeysKept(time)) :
              FailuresAt(time)[b] = <<>> /\ inFlight[b] = 0
<1> DEFINE fs == FailuresAt(time)
           kept == {i \in DOMAIN tracked : fs[tracked[i]] # <<>> \/ inFlight[tracked[i]] # 0}
<1>1. /\ tracked \in Seq(Accounts) /\ Len(tracked) \in Nat
  BY LenProperties DEF ThrottleInv, ThrottleTypeOK
<1>2. CASE ~Full(tracked)
  BY <1>1, <1>2 DEF KeysKept
<1>3. CASE Full(tracked)
  <2>1. KeysKept(time) = Filtered(tracked, kept)
    BY <1>3 DEF KeysKept, Pruned
  <2>2. kept \in SUBSET DOMAIN tracked
    OBVIOUS
  <2>3. /\ Filtered(tracked, kept) \in Seq(Accounts)
        /\ Len(Filtered(tracked, kept)) <= Len(tracked)
        /\ Range(Filtered(tracked, kept)) = {tracked[i] : i \in kept}
    <3> HIDE DEF kept
    <3> QED
      BY <1>1, <2>2, FilteredKeeps
  <2>4. Range(tracked) = {tracked[i] : i \in DOMAIN tracked}
    BY DEF Range
  <2>5. ASSUME NEW b \in Range(tracked), b \notin {tracked[i] : i \in kept}
        PROVE  fs[b] = <<>> /\ inFlight[b] = 0
    BY <2>4, <2>5
  <2> QED
    BY <2>1, <2>2, <2>3, <2>4, <2>5
<1> QED
  BY <1>2, <1>3

(* The evicted entry is idle, and the only one to go.                      *)
LEMMA EvictionIsIdle ==
  ASSUME NEW keys \in Seq(Accounts)
  PROVE  /\ EvictOldestIdle(keys) \in Seq(Accounts)
         /\ Len(EvictOldestIdle(keys)) <= Len(keys)
         /\ Range(EvictOldestIdle(keys)) \subseteq Range(keys)
         /\ \A b \in Range(keys) \ Range(EvictOldestIdle(keys)) : inFlight[b] = 0
<1> DEFINE idle == {i \in DOMAIN keys : inFlight[keys[i]] = 0}
           oldest == CHOOSE i \in idle : \A j \in idle : i <= j
           kept == DOMAIN keys \ {oldest}
<1>1. Len(keys) \in Nat /\ DOMAIN keys = 1 .. Len(keys)
  BY LenProperties
<1>2. CASE idle = {}
  BY <1>1, <1>2 DEF EvictOldestIdle
<1>3. CASE idle # {}
  <2>1. EvictOldestIdle(keys) = Filtered(keys, kept)
    BY <1>3 DEF EvictOldestIdle
  <2>2. oldest \in idle
    <3>1. IsFiniteSet(1 .. Len(keys))
      BY <1>1, FS_Interval
    <3>2. idle \in SUBSET (1 .. Len(keys)) /\ idle \in SUBSET Nat
      BY <1>1
    <3>3. IsFiniteSet(idle)
      BY <3>1, <3>2, FS_Subset
    <3> HIDE DEF idle
    <3> QED
      BY <1>3, <3>2, <3>3, HasLeast
  <2>3. /\ Filtered(keys, kept) \in Seq(Accounts)
        /\ Len(Filtered(keys, kept)) <= Len(keys)
        /\ Range(Filtered(keys, kept)) = {keys[i] : i \in kept}
    <3>1. kept \in SUBSET DOMAIN keys
      OBVIOUS
    <3> HIDE DEF kept
    <3> QED
      BY <3>1, FilteredKeeps
  <2>4. Range(keys) = {keys[i] : i \in DOMAIN keys}
    BY DEF Range
  <2> HIDE DEF oldest
  <2>5. ASSUME NEW b \in Range(keys), b \notin {keys[i] : i \in kept} PROVE inFlight[b] = 0
    <3>1. PICK i \in DOMAIN keys : keys[i] = b
      BY <2>4
    <3>2. i = oldest
      BY <2>5, <3>1
    <3> QED
      BY <2>2, <3>1, <3>2
  <2> QED
    BY <2>1, <2>3, <2>4, <2>5
<1> QED
  BY <1>2, <1>3

(* Together they drop no account with a sign-in under way.                 *)
LEMMA KeysLeftAre ==
  ASSUME ThrottleInv
  PROVE  /\ KeysLeft(time) \in Seq(Accounts) /\ Len(KeysLeft(time)) <= Len(tracked)
         /\ Range(KeysLeft(time)) \subseteq Range(tracked)
         /\ \A b \in Range(tracked) \ Range(KeysLeft(time)) : inFlight[b] = 0
<1> DEFINE K == KeysKept(time)
<1>1. /\ K \in Seq(Accounts) /\ Len(K) <= Len(tracked) /\ Range(K) \subseteq Range(tracked)
      /\ \A b \in Range(tracked) \ Range(K) : inFlight[b] = 0
      /\ Len(K) \in Nat /\ Len(tracked) \in Nat
  BY KeysKeptAre, LenProperties DEF ThrottleInv, ThrottleTypeOK
<1> HIDE DEF K
<1>2. /\ EvictOldestIdle(K) \in Seq(Accounts) /\ Len(EvictOldestIdle(K)) <= Len(K)
      /\ Range(EvictOldestIdle(K)) \subseteq Range(K)
      /\ \A b \in Range(K) \ Range(EvictOldestIdle(K)) : inFlight[b] = 0
      /\ Len(EvictOldestIdle(K)) \in Nat
  BY <1>1, EvictionIsIdle, LenProperties
<1>3. KeysLeft(time) = EvictOldestIdle(K) \/ KeysLeft(time) = K
  BY DEF KeysLeft, K
<1>4. /\ Len(EvictOldestIdle(K)) <= Len(tracked)
      /\ Range(EvictOldestIdle(K)) \subseteq Range(tracked)
      /\ \A b \in Range(tracked) \ Range(EvictOldestIdle(K)) : inFlight[b] = 0
  BY <1>1, <1>2
<1> QED
  BY <1>1, <1>2, <1>3, <1>4

-----------------------------------------------------------------------------
(* Every step keeps the invariant.                                         *)
LEMMA BudgetsInNumbers ==
  ASSUME ThrottleInv
  PROVE  /\ time \in Nat /\ AccountWindow \in Nat \ {0} /\ GlobalWindow \in Nat \ {0}
         /\ MaxFailuresGlobal \in Nat \ {0} /\ MaxFailuresPerAccount \in Nat \ {0}
         /\ Within(allRejected, GlobalWindow, time) \in Nat
         /\ Cardinality(OpenTickets) \in Nat /\ globalInFlight = Cardinality(OpenTickets)
         /\ \A b \in Accounts :
              /\ Within(rejected[b], AccountWindow, time) \in Nat
              /\ Cardinality(OpenOf(b)) \in Nat /\ inFlight[b] = Cardinality(OpenOf(b))
<1>1. /\ time \in Nat /\ AccountWindow \in Nat \ {0} /\ GlobalWindow \in Nat \ {0}
      /\ MaxFailuresGlobal \in Nat \ {0} /\ MaxFailuresPerAccount \in Nat \ {0}
  BY ThrottleSettings DEF ThrottleInv, ThrottleTypeOK
<1>2. /\ IsFiniteSet(OpenTickets) /\ globalInFlight = Cardinality(OpenTickets)
      /\ \A b \in Accounts : IsFiniteSet(OpenOf(b)) /\ inFlight[b] = Cardinality(OpenOf(b))
  BY DEF ThrottleInv, TicketsCounted
<1>3. Cardinality(OpenTickets) \in Nat /\ \A b \in Accounts : Cardinality(OpenOf(b)) \in Nat
  BY <1>2, FS_CardinalityType
<1>4. Within(allRejected, GlobalWindow, time) \in Nat
  BY <1>1, GlobalRecent, LenProperties
<1>5. \A b \in Accounts : Within(rejected[b], AccountWindow, time) \in Nat
  BY <1>1, AccountRecent, LenProperties
<1> QED
  BY <1>1, <1>2, <1>3, <1>4, <1>5

\* begin() prunes the windows of one account and of all before it decides.
LEMMA WindowsPruned ==
  ASSUME ThrottleInv, NEW a \in Accounts, UNCHANGED <<time, tracked, rejected, allRejected>>,
         globalFailures' = Recent(globalFailures, time, GlobalWindow),
         \/ failures' = failures
         \/ /\ Tracked(a)
            /\ failures' = [failures EXCEPT ![a] = Recent(@, time, AccountWindow)]
  PROVE  /\ globalFailures' \in Timestamps /\ failures' \in [Accounts -> Timestamps]
         /\ WindowsKept'
         /\ \A b \in Accounts : ~Tracked(b)' => failures'[b] = <<>>
<1>1. failures \in [Accounts -> Seq(Nat)]
  BY DEF ThrottleInv, ThrottleTypeOK, Timestamps
<1>2. /\ globalFailures' \in Seq(Nat)
      /\ KeptOf(globalFailures', allRejected', GlobalWindow, time')
      /\ Ascending(allRejected', time')
  BY GlobalRecent DEF ThrottleInv, WindowsKept
<1>3. /\ Recent(failures[a], time, AccountWindow) \in Seq(Nat)
      /\ KeptOf(Recent(failures[a], time, AccountWindow), rejected[a], AccountWindow, time)
  BY AccountRecent
<1>4. failures' \in [Accounts -> Seq(Nat)]
  BY <1>1, <1>3
<1>5. ASSUME NEW b \in Accounts
      PROVE  /\ KeptOf(failures'[b], rejected'[b], AccountWindow, time')
             /\ Ascending(rejected'[b], time')
  <2>1. /\ KeptOf(failures[b], rejected[b], AccountWindow, time) /\ Ascending(rejected[b], time)
    BY DEF ThrottleInv, WindowsKept
  <2>2. \/ failures'[b] = failures[b]
        \/ b = a /\ failures'[b] = Recent(failures[a], time, AccountWindow)
    BY <1>1
  <2> QED
    BY <1>3, <2>1, <2>2
<1>6. ASSUME NEW b \in Accounts, ~Tracked(b)' PROVE failures'[b] = <<>>
  <2>1. ~Tracked(b) /\ failures[b] = <<>>
    BY <1>6 DEF Tracked, ThrottleInv, OthersEmpty
  <2> QED
    BY <1>1, <2>1
<1> QED
  BY <1>2, <1>4, <1>5, <1>6 DEF WindowsKept, Timestamps

(* A refusal by begin() prunes and changes nothing else.                   *)
LEMMA RefusedKeeps ==
  ASSUME ThrottleInv, NEW a \in Accounts, Refused(a)
  PROVE  ThrottleInv'
<1>1. /\ UNCHANGED <<time, tracked, inFlight, globalInFlight, ticket, rejected, allRejected>>
      /\ OpenTickets' = OpenTickets /\ \A b : OpenOf(b)' = OpenOf(b)
  BY TicketsStay DEF Refused
<1>2. /\ globalFailures' \in Timestamps /\ failures' \in [Accounts -> Timestamps]
      /\ WindowsKept' /\ \A b \in Accounts : ~Tracked(b)' => failures'[b] = <<>>
  BY WindowsPruned DEF Refused
<1>3. ThrottleTypeOK'
  BY <1>1, <1>2 DEF ThrottleInv, ThrottleTypeOK
<1>4. TicketsCounted' /\ TableBounded' /\ BudgetsKept'
  BY <1>1 DEF ThrottleInv, TicketsCounted, TableBounded, BudgetsKept
<1>5. OthersEmpty'
  BY <1>1, <1>2 DEF ThrottleInv, OthersEmpty, Tracked
<1> QED
  BY <1>2, <1>3, <1>4, <1>5 DEF ThrottleInv

(* A ticket for a tracked account takes room that is there.                *)
LEMMA AllowedKeeps ==
  ASSUME ThrottleInv, NEW p \in Attempts, NEW a \in Accounts, Allowed(p, a)
  PROVE  ThrottleInv'
<1>1. /\ UNCHANGED <<time, tracked, rejected, allRejected>> /\ Tracked(a) /\ Wait(a, time) = 0
      /\ ticket[p] = NoTicket /\ ticket' = [ticket EXCEPT ![p] = a]
      /\ inFlight' = [inFlight EXCEPT ![a] = @ + 1] /\ globalInFlight' = globalInFlight + 1
  BY DEF Allowed
<1>2. /\ globalFailures' \in Timestamps /\ failures' \in [Accounts -> Timestamps]
      /\ WindowsKept' /\ \A b \in Accounts : ~Tracked(b)' => failures'[b] = <<>>
  BY WindowsPruned DEF Allowed
<1>3. /\ ticket' \in [Attempts -> Accounts \union {NoTicket}]
      /\ IsFiniteSet(OpenTickets') /\ Cardinality(OpenTickets') = Cardinality(OpenTickets) + 1
      /\ \A b \in Accounts :
           /\ IsFiniteSet(OpenOf(b)')
           /\ Cardinality(OpenOf(b)') = IF b = a THEN Cardinality(OpenOf(b)) + 1
                                        ELSE Cardinality(OpenOf(b))
           /\ b # a => OpenOf(b)' = OpenOf(b)
  BY <1>1, TicketTaken DEF ThrottleInv
<1>4. inFlight \in [Accounts -> Nat] /\ globalInFlight \in Nat
  BY DEF ThrottleInv, ThrottleTypeOK
<1>5. ThrottleTypeOK'
  BY <1>1, <1>2, <1>3, <1>4 DEF ThrottleInv, ThrottleTypeOK
<1>6. TicketsCounted'
  BY <1>1, <1>3, <1>4, BudgetsInNumbers DEF TicketsCounted
<1>7. OthersEmpty'
  BY <1>1, <1>2, <1>3 DEF ThrottleInv, OthersEmpty, Tracked
<1>8. TableBounded'
  BY <1>1 DEF ThrottleInv, TableBounded
<1>9. BudgetsKept'
  <2>1. /\ Within(allRejected, GlobalWindow, time) + globalInFlight < MaxFailuresGlobal
        /\ Within(rejected[a], AccountWindow, time) + inFlight[a] < MaxFailuresPerAccount
    BY <1>1, RoomIsLeft
  <2>2. Within(allRejected', GlobalWindow, time') + Cardinality(OpenTickets') <= MaxFailuresGlobal
    BY <1>1, <1>3, <2>1, BudgetsInNumbers
  <2>3. ASSUME NEW b \in Accounts
        PROVE Within(rejected'[b], AccountWindow, time') + Cardinality(OpenOf(b)')
                <= MaxFailuresPerAccount
    <3>1. CASE b = a
      BY <1>1, <1>3, <2>1, <3>1, BudgetsInNumbers
    <3>2. CASE b # a
      BY <1>1, <1>3, <3>2 DEF ThrottleInv, BudgetsKept
    <3> QED
      BY <3>1, <3>2
  <2> QED
    BY <2>2, <2>3 DEF BudgetsKept
<1> QED
  BY <1>2, <1>5, <1>6, <1>7, <1>8, <1>9 DEF ThrottleInv

(* Time passing only empties the windows.                                  *)
LEMMA ElapseKeeps ==
  ASSUME ThrottleInv, Elapse
  PROVE  ThrottleInv'
<1>1. /\ time \in Nat /\ time' = time + 1 /\ time' \in Nat /\ time <= time'
      /\ UNCHANGED <<tracked, failures, inFlight, globalFailures, globalInFlight, ticket,
                     rejected, allRejected>>
      /\ OpenTickets' = OpenTickets /\ \A b : OpenOf(b)' = OpenOf(b)
  BY TicketsStay DEF Elapse, codeVars, ThrottleInv, ThrottleTypeOK
<1>2. /\ AccountWindow \in Nat /\ GlobalWindow \in Nat
      /\ allRejected \in Seq(Nat) /\ globalFailures \in Seq(Nat)
      /\ \A b \in Accounts : failures[b] \in Seq(Nat) /\ rejected[b] \in Seq(Nat)
  BY ThrottleSettings DEF ThrottleInv, ThrottleTypeOK, Timestamps
<1>3. ThrottleTypeOK'
  BY <1>1 DEF ThrottleInv, ThrottleTypeOK
<1>4. TicketsCounted' /\ TableBounded' /\ OthersEmpty'
  BY <1>1 DEF ThrottleInv, TicketsCounted, TableBounded, OthersEmpty, Tracked
<1>5. WindowsKept'
  <2>1. Ascending(allRejected, time') /\ KeptOf(globalFailures, allRejected, GlobalWindow, time')
    BY <1>1, <1>2, KeptLater, AscendingLater DEF ThrottleInv, WindowsKept
  <2>2. ASSUME NEW b \in Accounts
        PROVE Ascending(rejected[b], time') /\ KeptOf(failures[b], rejected[b], AccountWindow, time')
    BY <1>1, <1>2, KeptLater, AscendingLater DEF ThrottleInv, WindowsKept
  <2> QED
    BY <1>1, <2>1, <2>2 DEF WindowsKept
<1>6. BudgetsKept'
  <2>1. /\ Within(allRejected, GlobalWindow, time') \in Nat
        /\ Within(allRejected, GlobalWindow, time') <= Within(allRejected, GlobalWindow, time)
    BY <1>1, <1>2, WithinLater
  <2>2. ASSUME NEW b \in Accounts
        PROVE  /\ Within(rejected[b], AccountWindow, time') \in Nat
               /\ Within(rejected[b], AccountWindow, time') <= Within(rejected[b], AccountWindow, time)
    BY <1>1, <1>2, WithinLater
  <2>3. Within(allRejected, GlobalWindow, time') + Cardinality(OpenTickets) <= MaxFailuresGlobal
    BY <2>1, BudgetsInNumbers DEF ThrottleInv, BudgetsKept
  <2>4. ASSUME NEW b \in Accounts
        PROVE Within(rejected[b], AccountWindow, time') + Cardinality(OpenOf(b))
                <= MaxFailuresPerAccount
    BY <2>2, BudgetsInNumbers DEF ThrottleInv, BudgetsKept
  <2> QED
    BY <1>1, <2>3, <2>4 DEF BudgetsKept
<1> QED
  BY <1>3, <1>4, <1>5, <1>6 DEF ThrottleInv

(* What track() does to the windows: it forgets what is past.              *)
LEMMA TrackedWindows ==
  ASSUME ThrottleInv, NEW p \in Attempts, NEW a \in Accounts, Track(p, a)
  PROVE  /\ globalFailures' \in Timestamps /\ failures' \in [Accounts -> Timestamps]
         /\ rejected' \in [Accounts -> Timestamps]
         /\ WindowsKept'
         /\ \A b \in Accounts : b \notin Range(KeysLeft(time)) => failures'[b] = <<>>
         /\ \A b \in Accounts : /\ Within(rejected'[b], AccountWindow, time) \in Nat
                                /\ Within(rejected'[b], AccountWindow, time)
                                     <= Within(rejected[b], AccountWindow, time)
         /\ Within(rejected'[a], AccountWindow, time) = 0
<1> DEFINE kept == Range(KeysKept(time))
           left == Range(KeysLeft(time))
<1>1. /\ UNCHANGED <<time, allRejected>> /\ ~Tracked(a)
      /\ globalFailures' = Recent(globalFailures, time, GlobalWindow)
      /\ failures' = [b \in Accounts |-> IF b \in left THEN FailuresAt(time)[b] ELSE <<>>]
      /\ rejected' = [b \in Accounts |-> IF b \in kept \ left THEN <<>> ELSE rejected[b]]
  BY DEF Track
<1>2. /\ kept \subseteq Range(tracked) /\ left \subseteq Range(tracked)
      /\ \A b \in Range(tracked) \ kept : FailuresAt(time)[b] = <<>>
  BY KeysKeptAre, KeysLeftAre
<1> HIDE DEF kept, left
<1>3. rejected \in [Accounts -> Seq(Nat)] /\ failures \in [Accounts -> Seq(Nat)]
  BY DEF ThrottleInv, ThrottleTypeOK, Timestamps
<1>4. <<>> \in Seq(Nat)
  BY EmptySeq
<1>5. \A b \in Accounts : FailuresAt(time)[b] \in Seq(Nat)
  BY FailuresAtKept
<1>6. failures' \in [Accounts -> Seq(Nat)] /\ rejected' \in [Accounts -> Seq(Nat)]
  BY <1>1, <1>3, <1>4, <1>5
<1>7. /\ globalFailures' \in Seq(Nat)
      /\ KeptOf(globalFailures', allRejected', GlobalWindow, time')
      /\ Ascending(allRejected', time')
  BY <1>1, GlobalRecent DEF ThrottleInv, WindowsKept
<1>8. ASSUME NEW b \in Accounts
      PROVE  /\ KeptOf(failures'[b], rejected'[b], AccountWindow, time)
             /\ Ascending(rejected'[b], time)
  <2>1. /\ KeptOf(failures[b], rejected[b], AccountWindow, time) /\ Ascending(rejected[b], time)
        /\ KeptOf(FailuresAt(time)[b], rejected[b], AccountWindow, time)
    BY FailuresAtKept DEF ThrottleInv, WindowsKept
  <2>2. CASE b \in left
    BY <1>1, <2>1, <2>2
  <2>3. CASE b \in kept \ left
    <3>1. failures'[b] = <<>> /\ rejected'[b] = <<>>
      BY <1>1, <2>3
    <3> QED
      BY <3>1, KeptNothing, BudgetsInNumbers
  <2>4. CASE b \notin left /\ b \notin kept
    <3>1. failures'[b] = <<>> /\ rejected'[b] = rejected[b]
      BY <1>1, <2>4
    <3>2. CASE b \in Range(tracked)
      BY <1>2, <2>1, <2>4, <3>1, <3>2
    <3>3. CASE b \notin Range(tracked)
      <4>1. failures[b] = <<>>
        BY <3>3 DEF ThrottleInv, OthersEmpty, Tracked
      <4> QED
        BY <2>1, <3>1, <4>1
    <3> QED
      BY <3>2, <3>3
  <2> QED
    BY <2>2, <2>3, <2>4
<1>9. ASSUME NEW b \in Accounts
      PROVE  /\ Within(rejected'[b], AccountWindow, time) \in Nat
             /\ Within(rejected'[b], AccountWindow, time) <= Within(rejected[b], AccountWindow, time)
  <2>1. rejected'[b] = rejected[b] \/ rejected'[b] = <<>>
    BY <1>1
  <2>2. Within(<<>>, AccountWindow, time) = 0
    BY WithinNothing, BudgetsInNumbers
  <2> QED
    BY <2>1, <2>2, BudgetsInNumbers
<1>10. Within(rejected'[a], AccountWindow, time) = 0
  <2>1. failures'[a] = <<>>
    BY <1>1, <1>2 DEF Tracked
  <2>2. KeptOf(<<>>, rejected'[a], AccountWindow, time) /\ rejected'[a] \in Seq(Nat)
    BY <1>6, <1>8, <2>1
  <2> QED
    BY <2>2, WithinKeptNothing, BudgetsInNumbers
<1>11. \A b \in Accounts : b \notin left => failures'[b] = <<>>
  BY <1>1
<1>12. WindowsKept'
  BY <1>1, <1>7, <1>8 DEF WindowsKept
<1> QED
  BY <1>6, <1>7, <1>9, <1>10, <1>11, <1>12 DEF Timestamps, left

(* A ticket for a new account takes a free place in the table.             *)
LEMMA TrackKeeps ==
  ASSUME ThrottleInv, NEW p \in Attempts, NEW a \in Accounts, Track(p, a)
  PROVE  ThrottleInv'
<1> DEFINE left == Range(KeysLeft(time))
<1>1. /\ UNCHANGED <<time, allRejected>> /\ Wait(a, time) = 0 /\ ~Tracked(a)
      /\ ticket[p] = NoTicket
  BY DEF Track
<1>2. /\ globalFailures' \in Timestamps /\ failures' \in [Accounts -> Timestamps]
      /\ rejected' \in [Accounts -> Timestamps] /\ WindowsKept'
      /\ \A b \in Accounts : b \notin left => failures'[b] = <<>>
      /\ \A b \in Accounts : /\ Within(rejected'[b], AccountWindow, time) \in Nat
                             /\ Within(rejected'[b], AccountWindow, time)
                                  <= Within(rejected[b], AccountWindow, time)
      /\ Within(rejected'[a], AccountWindow, time) = 0
  BY TrackedWindows
<1>3. /\ KeysLeft(time) \in Seq(Accounts) /\ Len(KeysLeft(time)) <= Len(tracked)
      /\ left \subseteq Range(tracked) /\ Len(KeysLeft(time)) \in Nat
  BY KeysLeftAre, LenProperties
<1>4. \A b \in Accounts : b \notin left => OpenOf(b) = {} /\ Cardinality(OpenOf(b)) = 0
  <2> SUFFICES ASSUME NEW b \in Accounts, b \notin left
               PROVE  OpenOf(b) = {} /\ Cardinality(OpenOf(b)) = 0
    OBVIOUS
  <2>1. CASE b \in Range(tracked)
    <3>1. inFlight[b] = 0 /\ Cardinality(OpenOf(b)) = 0 /\ IsFiniteSet(OpenOf(b))
      BY <2>1, KeysLeftAre DEF ThrottleInv, TicketsCounted
    <3> QED
      BY <3>1, FS_EmptySet
  <2>2. CASE b \notin Range(tracked)
    BY <2>2, FS_EmptySet DEF ThrottleInv, OthersEmpty, Tracked
  <2> QED
    BY <2>1, <2>2
<1>5. /\ inFlight \in [Accounts -> Nat] /\ globalInFlight \in Nat
      /\ Len(tracked) \in Nat /\ Len(tracked) <= MaxTrackedAccounts /\ MaxTrackedAccounts \in Nat
  BY LenProperties, ThrottleSettings DEF ThrottleInv, ThrottleTypeOK, TableBounded
<1>6. a \notin left
  BY <1>1, <1>3 DEF Tracked
<1>7. CASE /\ ~Full(KeysLeft(time))
           /\ tracked' = Append(KeysLeft(time), a)
           /\ inFlight' = [b \in Accounts |->
                  IF b = a THEN 1 ELSE IF b \in left THEN inFlight[b] ELSE 0]
           /\ globalInFlight' = globalInFlight + 1
           /\ ticket' = [ticket EXCEPT ![p] = a]
  <2>1. /\ ticket' \in [Attempts -> Accounts \union {NoTicket}]
        /\ IsFiniteSet(OpenTickets') /\ Cardinality(OpenTickets') = Cardinality(OpenTickets) + 1
        /\ \A b \in Accounts :
             /\ IsFiniteSet(OpenOf(b)')
             /\ Cardinality(OpenOf(b)') = IF b = a THEN Cardinality(OpenOf(b)) + 1
                                          ELSE Cardinality(OpenOf(b))
             /\ b # a => OpenOf(b)' = OpenOf(b)
    BY <1>1, <1>7, TicketTaken DEF ThrottleInv
  <2>2. /\ tracked' \in Seq(Accounts) /\ Len(tracked') = Len(KeysLeft(time)) + 1
        /\ Range(tracked') = left \union {a}
    <3>1. /\ tracked' \in Seq(Accounts) /\ Len(tracked') = Len(KeysLeft(time)) + 1
          /\ \A i \in 1 .. Len(KeysLeft(time)) : tracked'[i] = KeysLeft(time)[i]
          /\ tracked'[Len(KeysLeft(time)) + 1] = a
      BY <1>3, <1>7, AppendProperties
    <3>2. /\ DOMAIN tracked' = 1 .. (Len(KeysLeft(time)) + 1)
          /\ DOMAIN KeysLeft(time) = 1 .. Len(KeysLeft(time))
      BY <1>3, <3>1, LenProperties
    <3>3. Range(tracked') = Range(KeysLeft(time)) \union {a}
      BY <1>3, <3>1, <3>2 DEF Range
    <3> QED
      BY <3>1, <3>3
  <2> HIDE DEF left
  <2>3. ThrottleTypeOK'
    <3>1. inFlight' \in [Accounts -> Nat] /\ globalInFlight' \in Nat
      BY <1>5, <1>7
    <3> QED
      BY <1>1, <1>2, <2>1, <2>2, <3>1 DEF ThrottleInv, ThrottleTypeOK
  <2>4. TicketsCounted'
    <3>1. \A b \in Accounts : inFlight'[b] = Cardinality(OpenOf(b)')
      BY <1>4, <1>6, <1>7, <2>1, BudgetsInNumbers
    <3>2. globalInFlight' = Cardinality(OpenTickets')
      BY <1>7, <2>1, BudgetsInNumbers
    <3> QED
      BY <2>1, <3>1, <3>2 DEF TicketsCounted
  <2>5. OthersEmpty'
    <3>1. ASSUME NEW b \in Accounts, b \notin Range(tracked')
          PROVE  failures'[b] = <<>> /\ OpenOf(b)' = {}
      BY <1>2, <1>4, <2>1, <2>2, <3>1
    <3> QED
      BY <3>1 DEF OthersEmpty, Tracked
  <2>6. TableBounded'
    BY <1>3, <1>5, <1>7, <2>2 DEF TableBounded, Full
  <2>7. BudgetsKept'
    <3>1. Within(allRejected', GlobalWindow, time') + Cardinality(OpenTickets') <= MaxFailuresGlobal
      <4>1. Within(allRejected, GlobalWindow, time) + globalInFlight < MaxFailuresGlobal
        BY <1>1, RoomIsLeft
      <4> QED
        BY <1>1, <2>1, <4>1, BudgetsInNumbers
    <3>2. ASSUME NEW b \in Accounts
          PROVE Within(rejected'[b], AccountWindow, time') + Cardinality(OpenOf(b)')
                  <= MaxFailuresPerAccount
      <4>1. CASE b = a
        BY <1>1, <1>2, <1>4, <1>6, <2>1, <4>1, BudgetsInNumbers
      <4>2. CASE b # a
        <5>1. OpenOf(b)' = OpenOf(b)
          BY <2>1, <4>2
        <5>2. Within(rejected[b], AccountWindow, time) + Cardinality(OpenOf(b))
                <= MaxFailuresPerAccount
          BY DEF ThrottleInv, BudgetsKept
        <5> QED
          BY <1>1, <1>2, <5>1, <5>2, BudgetsInNumbers
      <4> QED
        BY <4>1, <4>2
    <3> QED
      BY <3>1, <3>2 DEF BudgetsKept
  <2> QED
    BY <1>2, <2>3, <2>4, <2>5, <2>6, <2>7 DEF ThrottleInv
<1>8. CASE /\ Full(KeysLeft(time))
           /\ tracked' = KeysLeft(time)
           /\ UNCHANGED <<inFlight, globalInFlight, ticket>>
  <2>1. OpenTickets' = OpenTickets /\ \A b : OpenOf(b)' = OpenOf(b)
    BY <1>8, TicketsStay
  <2>2. ThrottleTypeOK'
    BY <1>1, <1>2, <1>3, <1>8 DEF ThrottleInv, ThrottleTypeOK
  <2>3. TicketsCounted'
    BY <1>8, <2>1 DEF ThrottleInv, TicketsCounted
  <2>4. OthersEmpty'
    BY <1>2, <1>4, <1>8, <2>1 DEF OthersEmpty, Tracked
  <2>5. TableBounded'
    BY <1>3, <1>5, <1>8 DEF TableBounded
  <2>6. BudgetsKept'
    <3>1. Within(allRejected', GlobalWindow, time') + Cardinality(OpenTickets') <= MaxFailuresGlobal
      BY <1>1, <2>1 DEF ThrottleInv, BudgetsKept
    <3>2. ASSUME NEW b \in Accounts
          PROVE Within(rejected'[b], AccountWindow, time') + Cardinality(OpenOf(b)')
                  <= MaxFailuresPerAccount
      <4>1. Within(rejected[b], AccountWindow, time) + Cardinality(OpenOf(b))
              <= MaxFailuresPerAccount
        BY DEF ThrottleInv, BudgetsKept
      <4> QED
        BY <1>1, <1>2, <2>1, <4>1, BudgetsInNumbers
    <3> QED
      BY <3>1, <3>2 DEF BudgetsKept
  <2> QED
    BY <1>2, <2>2, <2>3, <2>4, <2>5, <2>6 DEF ThrottleInv
<1> QED
  BY <1>7, <1>8 DEF Track

(* Who returns a ticket finds its account tracked, and counted.            *)
LEMMA CloseReturns ==
  ASSUME ThrottleInv, NEW p \in Attempts, NEW a \in Accounts, close(p, a)
  PROVE  /\ Tracked(a) /\ UNCHANGED <<time, tracked>>
         /\ ticket' \in [Attempts -> Accounts \union {NoTicket}]
         /\ inFlight' \in [Accounts -> Nat] /\ globalInFlight' \in Nat
         /\ TicketsCounted' /\ TableBounded'
         /\ Cardinality(OpenTickets') = Cardinality(OpenTickets) - 1
         /\ \A b \in Accounts :
              Cardinality(OpenOf(b)') = IF b = a THEN Cardinality(OpenOf(b)) - 1
                                        ELSE Cardinality(OpenOf(b))
         /\ \A b \in Accounts : ~Tracked(b)' => OpenOf(b)' = {}
<1>1. /\ UNCHANGED <<time, tracked>> /\ ticket[p] = a
      /\ ticket' = [ticket EXCEPT ![p] = NoTicket]
      /\ globalInFlight' = Floor0(globalInFlight - 1)
      /\ inFlight' = IF Tracked(a) THEN [inFlight EXCEPT ![a] = Floor0(@ - 1)] ELSE inFlight
  BY DEF close
<1>2. /\ ticket' \in [Attempts -> Accounts \union {NoTicket}]
      /\ IsFiniteSet(OpenTickets') /\ Cardinality(OpenTickets') = Cardinality(OpenTickets) - 1
      /\ Cardinality(OpenTickets) \in Nat /\ Cardinality(OpenTickets) # 0
      /\ Cardinality(OpenOf(a)) \in Nat /\ Cardinality(OpenOf(a)) # 0
      /\ OpenOf(a) # {}
      /\ \A b \in Accounts :
           /\ IsFiniteSet(OpenOf(b)')
           /\ Cardinality(OpenOf(b)') = IF b = a THEN Cardinality(OpenOf(b)) - 1
                                        ELSE Cardinality(OpenOf(b))
           /\ OpenOf(b)' \subseteq OpenOf(b)
  BY <1>1, TicketReturned DEF ThrottleInv
<1>3. Tracked(a)
  BY <1>2 DEF ThrottleInv, OthersEmpty
<1>4. /\ inFlight \in [Accounts -> Nat] /\ globalInFlight = Cardinality(OpenTickets)
      /\ \A b \in Accounts : inFlight[b] = Cardinality(OpenOf(b))
  BY DEF ThrottleInv, ThrottleTypeOK, TicketsCounted
<1>5. globalInFlight' = Cardinality(OpenTickets') /\ globalInFlight' \in Nat
  BY <1>1, <1>2, <1>4 DEF Floor0
<1>6. /\ inFlight' \in [Accounts -> Nat]
      /\ \A b \in Accounts : inFlight'[b] = Cardinality(OpenOf(b)')
  <2>1. Floor0(inFlight[a] - 1) = Cardinality(OpenOf(a)) - 1 /\ Floor0(inFlight[a] - 1) \in Nat
    BY <1>2, <1>4 DEF Floor0
  <2> QED
    BY <1>1, <1>2, <1>3, <1>4, <2>1
<1>7. TicketsCounted'
  BY <1>2, <1>5, <1>6 DEF TicketsCounted
<1>8. TableBounded'
  BY <1>1 DEF ThrottleInv, TableBounded
<1>9. ASSUME NEW b \in Accounts, ~Tracked(b)' PROVE OpenOf(b)' = {}
  <2>1. OpenOf(b) = {}
    BY <1>1, <1>9 DEF ThrottleInv, OthersEmpty, Tracked
  <2> QED
    BY <1>2, <2>1
<1> QED
  BY <1>1, <1>2, <1>3, <1>5, <1>6, <1>7, <1>8, <1>9

\* A failure makes room for itself: its ticket is gone, its timestamp is there.
LEMMA FailKeeps ==
  ASSUME ThrottleInv, NEW p \in Attempts, NEW a \in Accounts, fail(p, a)
  PROVE  ThrottleInv'
<1>1. /\ Tracked(a) /\ UNCHANGED <<time, tracked>>
      /\ ticket' \in [Attempts -> Accounts \union {NoTicket}]
      /\ inFlight' \in [Accounts -> Nat] /\ globalInFlight' \in Nat
      /\ TicketsCounted' /\ TableBounded'
      /\ Cardinality(OpenTickets') = Cardinality(OpenTickets) - 1
      /\ \A b \in Accounts :
           Cardinality(OpenOf(b)') = IF b = a THEN Cardinality(OpenOf(b)) - 1
                                     ELSE Cardinality(OpenOf(b))
      /\ \A b \in Accounts : ~Tracked(b)' => OpenOf(b)' = {}
  BY CloseReturns DEF fail
<1>2. /\ failures' = [failures EXCEPT ![a] = Append(@, time)]
      /\ globalFailures' = Append(globalFailures, time)
      /\ rejected' = [rejected EXCEPT ![a] = Append(@, time)]
      /\ allRejected' = Append(allRejected, time)
  BY <1>1 DEF fail
<1>3. /\ time \in Nat /\ globalFailures \in Seq(Nat) /\ allRejected \in Seq(Nat)
      /\ failures \in [Accounts -> Seq(Nat)] /\ rejected \in [Accounts -> Seq(Nat)]
      /\ tracked \in Seq(Accounts)
  BY DEF ThrottleInv, ThrottleTypeOK, Timestamps
<1>4. /\ globalFailures' \in Seq(Nat) /\ allRejected' \in Seq(Nat)
      /\ failures' \in [Accounts -> Seq(Nat)] /\ rejected' \in [Accounts -> Seq(Nat)]
  <2>1. \A s \in Seq(Nat) : Append(s, time) \in Seq(Nat)
    BY <1>3, AppendProperties
  <2> QED
    BY <1>2, <1>3, <2>1
<1>5. ThrottleTypeOK'
  BY <1>1, <1>3, <1>4 DEF ThrottleTypeOK, Timestamps
<1>6. OthersEmpty'
  <2>1. ASSUME NEW b \in Accounts, ~Tracked(b)' PROVE failures'[b] = <<>>
    <3>1. ~Tracked(b) /\ failures[b] = <<>> /\ b # a
      BY <1>1, <2>1 DEF ThrottleInv, OthersEmpty, Tracked
    <3> QED
      BY <1>2, <1>3, <3>1
  <2> QED
    BY <1>1, <2>1 DEF OthersEmpty
<1>7. WindowsKept'
  <2>1. Ascending(allRejected', time') /\ KeptOf(globalFailures', allRejected', GlobalWindow, time')
    <3>1. Ascending(allRejected, time) /\ KeptOf(globalFailures, allRejected, GlobalWindow, time)
      BY DEF ThrottleInv, WindowsKept
    <3>2. GlobalWindow \in Nat
      BY BudgetsInNumbers
    <3>3. /\ Ascending(Append(allRejected, time), time)
          /\ KeptOf(Append(globalFailures, time), Append(allRejected, time), GlobalWindow, time)
      BY <1>3, <3>1, <3>2, AscendingAppend, KeptAppend
    <3> QED
      BY <1>1, <1>2, <3>3
  <2>2. ASSUME NEW b \in Accounts
        PROVE  /\ Ascending(rejected'[b], time')
               /\ KeptOf(failures'[b], rejected'[b], AccountWindow, time')
    <3>1. /\ Ascending(rejected[b], time) /\ KeptOf(failures[b], rejected[b], AccountWindow, time)
          /\ rejected[b] \in Seq(Nat) /\ failures[b] \in Seq(Nat)
      BY <1>3 DEF ThrottleInv, WindowsKept
    <3>2. AccountWindow \in Nat
      BY BudgetsInNumbers
    <3>3. /\ Ascending(Append(rejected[b], time), time)
          /\ KeptOf(Append(failures[b], time), Append(rejected[b], time), AccountWindow, time)
      BY <1>3, <3>1, <3>2, AscendingAppend, KeptAppend
    <3>4. CASE b = a
      BY <1>1, <1>2, <1>3, <3>3, <3>4
    <3>5. CASE b # a
      BY <1>1, <1>2, <1>3, <3>1, <3>5
    <3> QED
      BY <3>4, <3>5
  <2> QED
    BY <2>1, <2>2 DEF WindowsKept
<1>8. BudgetsKept'
  <2>1. Within(allRejected', GlobalWindow, time') = Within(allRejected, GlobalWindow, time) + 1
    BY <1>1, <1>2, <1>3, WithinAppend, BudgetsInNumbers
  <2>2. Within(rejected'[a], AccountWindow, time') = Within(rejected[a], AccountWindow, time) + 1
    BY <1>1, <1>2, <1>3, WithinAppend, BudgetsInNumbers
  <2>3. Within(allRejected', GlobalWindow, time') + Cardinality(OpenTickets') <= MaxFailuresGlobal
    BY <1>1, <2>1, BudgetsInNumbers DEF ThrottleInv, BudgetsKept
  <2>4. ASSUME NEW b \in Accounts
        PROVE Within(rejected'[b], AccountWindow, time') + Cardinality(OpenOf(b)')
                <= MaxFailuresPerAccount
    <3>1. Within(rejected[b], AccountWindow, time) + Cardinality(OpenOf(b)) <= MaxFailuresPerAccount
      BY DEF ThrottleInv, BudgetsKept
    <3>2. CASE b = a
      BY <1>1, <2>2, <3>1, <3>2, BudgetsInNumbers
    <3>3. CASE b # a
      <4>1. rejected'[b] = rejected[b] /\ Cardinality(OpenOf(b)') = Cardinality(OpenOf(b))
        BY <1>1, <1>2, <1>3, <3>3
      <4> QED
        BY <1>1, <3>1, <4>1
    <3> QED
      BY <3>2, <3>3
  <2> QED
    BY <2>3, <2>4 DEF BudgetsKept
<1> QED
  BY <1>1, <1>5, <1>6, <1>7, <1>8 DEF ThrottleInv

\* A success takes the account's own refusals from its window, none from the global one.
LEMMA SucceedKeeps ==
  ASSUME ThrottleInv, NEW p \in Attempts, NEW a \in Accounts, succeed(p, a)
  PROVE  ThrottleInv'
<1>1. /\ Tracked(a) /\ UNCHANGED <<time, tracked>>
      /\ ticket' \in [Attempts -> Accounts \union {NoTicket}]
      /\ inFlight' \in [Accounts -> Nat] /\ globalInFlight' \in Nat
      /\ TicketsCounted' /\ TableBounded'
      /\ Cardinality(OpenTickets') = Cardinality(OpenTickets) - 1
      /\ \A b \in Accounts :
           Cardinality(OpenOf(b)') = IF b = a THEN Cardinality(OpenOf(b)) - 1
                                     ELSE Cardinality(OpenOf(b))
      /\ \A b \in Accounts : ~Tracked(b)' => OpenOf(b)' = {}
  BY CloseReturns DEF succeed
<1>2. /\ failures' = [failures EXCEPT ![a] = <<>>] /\ UNCHANGED <<globalFailures, allRejected>>
      /\ rejected' = [rejected EXCEPT ![a] = <<>>]
  BY <1>1 DEF succeed
<1>3. /\ failures \in [Accounts -> Seq(Nat)] /\ rejected \in [Accounts -> Seq(Nat)]
      /\ <<>> \in Seq(Nat)
  BY EmptySeq DEF ThrottleInv, ThrottleTypeOK, Timestamps
<1>4. failures' \in [Accounts -> Seq(Nat)] /\ rejected' \in [Accounts -> Seq(Nat)]
  BY <1>2, <1>3
<1>5. ThrottleTypeOK'
  BY <1>1, <1>2, <1>4 DEF ThrottleInv, ThrottleTypeOK, Timestamps
<1>6. \A b \in Accounts :
         \/ b = a /\ failures'[b] = <<>> /\ rejected'[b] = <<>>
         \/ b # a /\ failures'[b] = failures[b] /\ rejected'[b] = rejected[b]
  BY <1>2, <1>3
<1>7. OthersEmpty'
  BY <1>1, <1>6 DEF ThrottleInv, OthersEmpty, Tracked
<1>8. WindowsKept'
  <2>1. Ascending(<<>>, time) /\ KeptOf(<<>>, <<>>, AccountWindow, time)
    BY KeptNothing, BudgetsInNumbers
  <2> QED
    BY <1>1, <1>2, <1>6, <2>1 DEF ThrottleInv, WindowsKept
<1>9. BudgetsKept'
  <2>1. Within(allRejected', GlobalWindow, time') + Cardinality(OpenTickets') <= MaxFailuresGlobal
    <3>1. Within(allRejected, GlobalWindow, time) + Cardinality(OpenTickets) <= MaxFailuresGlobal
      BY DEF ThrottleInv, BudgetsKept
    <3>2. allRejected' = allRejected /\ time' = time /\ Cardinality(OpenTickets') = Cardinality(OpenTickets) - 1
      BY <1>1, <1>2
    <3> QED
      BY <3>1, <3>2, BudgetsInNumbers
  <2>2. ASSUME NEW b \in Accounts
        PROVE Within(rejected'[b], AccountWindow, time') + Cardinality(OpenOf(b)')
                <= MaxFailuresPerAccount
    <3>1. Within(rejected[b], AccountWindow, time) + Cardinality(OpenOf(b)) <= MaxFailuresPerAccount
      BY DEF ThrottleInv, BudgetsKept
    <3>2. CASE b = a
      <4>1. Within(<<>>, AccountWindow, time) = 0
        BY WithinNothing, BudgetsInNumbers
      <4>2. Within(rejected'[b], AccountWindow, time') = 0
        BY <1>1, <1>6, <3>2, <4>1
      <4> QED
        BY <1>1, <3>1, <3>2, <4>2, BudgetsInNumbers
    <3>3. CASE b # a
      BY <1>1, <1>6, <3>1, <3>3
    <3> QED
      BY <3>2, <3>3
  <2> QED
    BY <2>1, <2>2 DEF BudgetsKept
<1> QED
  BY <1>1, <1>5, <1>7, <1>8, <1>9 DEF ThrottleInv

(* A ticket released without a decision leaves the windows alone.          *)
LEMMA ReleaseKeeps ==
  ASSUME ThrottleInv, NEW p \in Attempts, NEW a \in Accounts, release(p, a)
  PROVE  ThrottleInv'
<1>1. /\ UNCHANGED <<time, tracked>>
      /\ ticket' \in [Attempts -> Accounts \union {NoTicket}]
      /\ inFlight' \in [Accounts -> Nat] /\ globalInFlight' \in Nat
      /\ TicketsCounted' /\ TableBounded'
      /\ Cardinality(OpenTickets') = Cardinality(OpenTickets) - 1
      /\ \A b \in Accounts :
           Cardinality(OpenOf(b)') = IF b = a THEN Cardinality(OpenOf(b)) - 1
                                     ELSE Cardinality(OpenOf(b))
      /\ \A b \in Accounts : ~Tracked(b)' => OpenOf(b)' = {}
      /\ UNCHANGED <<failures, globalFailures, rejected, allRejected>>
  BY CloseReturns DEF release
<1>2. ThrottleTypeOK'
  BY <1>1 DEF ThrottleInv, ThrottleTypeOK
<1>3. OthersEmpty'
  BY <1>1 DEF ThrottleInv, OthersEmpty, Tracked
<1>4. WindowsKept'
  BY <1>1 DEF ThrottleInv, WindowsKept
<1>5. BudgetsKept'
  <2>1. Within(allRejected', GlobalWindow, time') + Cardinality(OpenTickets') <= MaxFailuresGlobal
    BY <1>1, BudgetsInNumbers DEF ThrottleInv, BudgetsKept
  <2>2. ASSUME NEW b \in Accounts
        PROVE Within(rejected'[b], AccountWindow, time') + Cardinality(OpenOf(b)')
                <= MaxFailuresPerAccount
    <3>1. Within(rejected[b], AccountWindow, time) + Cardinality(OpenOf(b)) <= MaxFailuresPerAccount
      BY DEF ThrottleInv, BudgetsKept
    <3> QED
      BY <1>1, <3>1, BudgetsInNumbers
  <2> QED
    BY <2>1, <2>2 DEF BudgetsKept
<1> QED
  BY <1>1, <1>2, <1>3, <1>4, <1>5 DEF ThrottleInv

-----------------------------------------------------------------------------
(* The inductive invariant of the throttle: its counters count the open    *)
(* tickets, its lists keep what the windows still hold of the refusals,    *)
(* what it does not track has nothing to keep, and both budgets hold.      *)
THEOREM ThrottleInvariant == ThrottleSpec => []ThrottleInv
<1>1. ThrottleInit => ThrottleInv
  <2> SUFFICES ASSUME ThrottleInit PROVE ThrottleInv
    OBVIOUS
  <2>1. /\ time = 0 /\ tracked = <<>> /\ globalFailures = <<>> /\ allRejected = <<>>
        /\ globalInFlight = 0 /\ ticket = [p \in Attempts |-> NoTicket]
        /\ failures = [a \in Accounts |-> <<>>] /\ rejected = [a \in Accounts |-> <<>>]
        /\ inFlight = [a \in Accounts |-> 0]
    BY DEF ThrottleInit
  <2>2. /\ {MaxFailuresPerAccount, MaxFailuresGlobal, MaxTrackedAccounts} \subseteq Nat \ {0}
        /\ AccountWindow \in Nat /\ GlobalWindow \in Nat /\ NoTicket \notin Accounts
    BY ThrottleSettings
  <2>3. OpenTickets = {} /\ \A a \in Accounts : OpenOf(a) = {}
    BY <2>1, <2>2 DEF OpenTickets, OpenOf
  <2>4. IsFiniteSet({}) /\ Cardinality({}) = 0
    BY FS_EmptySet
  <2>5. OpenTickets = {} /\ IsFiniteSet(OpenTickets) /\ Cardinality(OpenTickets) = 0
        /\ \A a \in Accounts : IsFiniteSet(OpenOf(a)) /\ Cardinality(OpenOf(a)) = 0
    BY <2>3, <2>4
  <2>6. ThrottleTypeOK
    BY <2>1, EmptySeq DEF ThrottleTypeOK, Timestamps
  <2>7. TicketsCounted
    BY <2>1, <2>5 DEF TicketsCounted
  <2>8. OthersEmpty
    BY <2>1, <2>3 DEF OthersEmpty
  <2>9. WindowsKept
    <3>1. \A w \in Nat : Ascending(<<>>, 0) /\ KeptOf(<<>>, <<>>, w, 0)
      BY KeptNothing
    <3> QED
      BY <2>1, <2>2, <3>1 DEF WindowsKept
  <2>10. TableBounded
    BY <2>1, <2>2, EmptySeq DEF TableBounded
  <2>11. BudgetsKept
    <3>1. \A w \in Nat : Within(<<>>, w, 0) = 0
      BY WithinNothing
    <3> QED
      BY <2>1, <2>2, <2>5, <3>1 DEF BudgetsKept
  <2> QED
    BY <2>6, <2>7, <2>8, <2>9, <2>10, <2>11 DEF ThrottleInv
<1>2. ThrottleInv /\ [ThrottleNext]_throttleVars => ThrottleInv'
  <2> SUFFICES ASSUME ThrottleInv, [ThrottleNext]_throttleVars PROVE ThrottleInv'
    OBVIOUS
  <2>1. CASE Elapse
    BY <2>1, ElapseKeeps
  <2>2. ASSUME NEW p \in Attempts, NEW a \in Accounts, begin(p, a) PROVE ThrottleInv'
    BY <2>2, RefusedKeeps, AllowedKeeps, TrackKeeps DEF begin
  <2>3. ASSUME NEW p \in Attempts, NEW a \in Accounts,
               fail(p, a) \/ succeed(p, a) \/ release(p, a)
        PROVE  ThrottleInv'
    BY <2>3, FailKeeps, SucceedKeeps, ReleaseKeeps
  <2>4. CASE UNCHANGED throttleVars
    <3>1. /\ UNCHANGED <<time, tracked, failures, inFlight, globalFailures, globalInFlight,
                         ticket, rejected, allRejected>>
          /\ OpenTickets' = OpenTickets /\ \A b : OpenOf(b)' = OpenOf(b)
      BY <2>4, TicketsStay DEF throttleVars, codeVars
    <3>2. ThrottleTypeOK' /\ TableBounded'
      BY <3>1 DEF ThrottleInv, ThrottleTypeOK, TableBounded
    <3>3. TicketsCounted' /\ OthersEmpty'
      BY <3>1 DEF ThrottleInv, TicketsCounted, OthersEmpty, Tracked
    <3>4. WindowsKept' /\ BudgetsKept'
      BY <3>1 DEF ThrottleInv, WindowsKept, BudgetsKept
    <3> QED
      BY <3>2, <3>3, <3>4 DEF ThrottleInv
  <2> QED
    BY <2>1, <2>2, <2>3, <2>4 DEF ThrottleNext
<1> QED
  BY <1>1, <1>2, PTL DEF ThrottleSpec

(* Every variable of the throttle keeps its type.                          *)
THEOREM ThrottleTypeCorrect == ThrottleSpec => []ThrottleTypeOK
<1>1. ThrottleInv => ThrottleTypeOK
  BY DEF ThrottleInv
<1> QED
  BY <1>1, ThrottleInvariant, PTL

(* "Parallel requests cannot overshoot" either budget: the refusals of a   *)
(* window and the checks under way never exceed it together, for any       *)
(* number of sign-ins, accounts and tracked keys and any two windows.      *)
THEOREM BudgetsAlwaysHold == ThrottleSpec => []BudgetsHold
<1>1. ThrottleInv => BudgetsHold
  <2> SUFFICES ASSUME ThrottleInv PROVE BudgetsHold
    OBVIOUS
  <2>1. /\ time \in Nat /\ allRejected \in Seq(Nat)
        /\ \A a \in Accounts : rejected[a] \in Seq(Nat)
        /\ AccountWindow \in Nat /\ GlobalWindow \in Nat
    BY ThrottleSettings DEF ThrottleInv, ThrottleTypeOK, Timestamps
  <2>2. InWindow(allRejected, GlobalWindow) = Within(allRejected, GlobalWindow, time)
    BY <2>1, WithinIsInWindow
  <2>3. \A a \in Accounts :
           InWindow(rejected[a], AccountWindow) = Within(rejected[a], AccountWindow, time)
    BY <2>1, WithinIsInWindow
  <2> QED
    BY <2>2, <2>3 DEF BudgetsHold, ThrottleInv, BudgetsKept
<1> QED
  BY <1>1, ThrottleInvariant, PTL

(* The table of accounts never outgrows maxTrackedAccounts, the "upper     *)
(* bound on tracked account keys": what it cannot track it refuses.        *)
THEOREM TableAlwaysBounded == ThrottleSpec => []TableBounded
<1>1. ThrottleInv => TableBounded
  BY DEF ThrottleInv
<1> QED
  BY <1>1, ThrottleInvariant, PTL

(* Whoever waits as long as a refusal says, with no sign-in in flight, is  *)
(* admitted by both budgets: Retry-After never sends anyone away twice.    *)
THEOREM RetryAfterAlwaysSuffices == ThrottleSpec => []RetryAfterSuffices
<1>1. ThrottleInv => RetryAfterSuffices
  <2> SUFFICES ASSUME ThrottleInv, NEW a \in Accounts, globalInFlight = 0, Wait(a, time) > 0
               PROVE  Wait(a, time + Wait(a, time) * TicksPerSecond) = 0
    BY DEF RetryAfterSuffices
  <2> DEFINE later == time + Wait(a, time) * TicksPerSecond
             f(now) == Recent(failures[a], now, AccountWindow)
             g(now) == Recent(globalFailures, now, GlobalWindow)
  <2>1. /\ time \in Nat /\ TicksPerSecond \in Nat \ {0}
        /\ AccountWindow \in Nat /\ GlobalWindow \in Nat
        /\ MaxFailuresGlobal \in Nat \ {0} /\ MaxFailuresPerAccount \in Nat \ {0}
        /\ failures[a] \in Seq(Nat) /\ globalFailures \in Seq(Nat)
        /\ rejected[a] \in Seq(Nat) /\ allRejected \in Seq(Nat)
    BY ThrottleSettings DEF ThrottleInv, ThrottleTypeOK, Timestamps
  <2>2. inFlight[a] = 0
    <3>1. IsFiniteSet(OpenTickets) /\ Cardinality(OpenTickets) = 0
      BY DEF ThrottleInv, TicketsCounted
    <3>2. OpenTickets = {}
      BY <3>1, FS_EmptySet
    <3>3. OpenOf(a) \subseteq OpenTickets
      BY ThrottleSettings DEF OpenOf, OpenTickets
    <3>4. OpenOf(a) = {}
      BY <3>2, <3>3
    <3> QED
      BY <3>4, FS_EmptySet DEF ThrottleInv, TicketsCounted
  <2>3. Ascending(failures[a], time) /\ Ascending(globalFailures, time)
    <3>1. /\ Ascending(allRejected, time) /\ Ascending(rejected[a], time)
          /\ KeptOf(globalFailures, allRejected, GlobalWindow, time)
          /\ KeptOf(failures[a], rejected[a], AccountWindow, time)
      BY DEF ThrottleInv, WindowsKept
    <3> QED
      BY <2>1, <3>1, AscendingKept
  <2> DEFINE gw == WaitSeconds(g(time), 0, MaxFailuresGlobal, GlobalWindow, time)
             aw == WaitSeconds(f(time), 0, MaxFailuresPerAccount, AccountWindow, time)
             w == Wait(a, time)
  <2>4. f(time) \in Seq(Nat) /\ g(time) \in Seq(Nat)
    BY AccountRecent, GlobalRecent
  <2> HIDE DEF f, g
  <2>5. gw \in Nat /\ aw \in Nat
    BY <2>1, <2>4, WaitBounds
  <2>6. w = LET x == IF Tracked(a) THEN aw ELSE 0 IN IF gw > x THEN gw ELSE x
    BY <2>2 DEF Wait, GlobalWait, AccountWait, f, g
  <2> HIDE DEF gw, aw, w
  <2>7. w \in Nat /\ gw <= w /\ (Tracked(a) => aw <= w)
    BY <2>5, <2>6
  <2>8. /\ later = time + w * TicksPerSecond /\ w * TicksPerSecond \in Nat
        /\ gw * TicksPerSecond <= w * TicksPerSecond /\ gw * TicksPerSecond \in Nat
        /\ Tracked(a) => aw * TicksPerSecond <= w * TicksPerSecond
        /\ aw * TicksPerSecond \in Nat
    <3>1. \A n \in Nat : n * TicksPerSecond \in Nat
      BY <2>1
    <3>2. \A m, n \in Nat : m <= n => m * TicksPerSecond <= n * TicksPerSecond
      <4>1. ASSUME NEW m \in Nat, NEW n \in Nat, NEW t \in Nat, m <= n PROVE m * t <= n * t
        BY <4>1
      <4> QED
        BY <2>1, <4>1
    <3> QED
      BY <2>5, <2>7, <3>1, <3>2 DEF w
  <2> HIDE DEF later
  <2>9. /\ later \in Nat /\ time <= later /\ time + gw * TicksPerSecond <= later
        /\ Tracked(a) => time + aw * TicksPerSecond <= later
    BY <2>1, <2>8
  <2>10. WaitSeconds(g(later), 0, MaxFailuresGlobal, GlobalWindow, later) = 0
    BY <2>1, <2>3, <2>9, WaitSuffices DEF gw, g
  <2>11. Tracked(a) => WaitSeconds(f(later), 0, MaxFailuresPerAccount, AccountWindow, later) = 0
    BY <2>1, <2>3, <2>9, WaitSuffices DEF aw, f
  <2>12. Wait(a, later) = 0
    BY <2>2, <2>10, <2>11 DEF Wait, GlobalWait, AccountWait, f, g
  <2> QED
    BY <2>12 DEF later
<1> QED
  BY <1>1, ThrottleInvariant, PTL
=============================================================================
