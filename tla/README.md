# Verification of the TB notice production system

TLA+ models of the API in `apps/api` (NestJS, Prisma, MySQL/InnoDB) and of its web
client in `apps/web` (React), the TLC configurations that check them on small
instances, and TLAPS proofs of their main properties for every value of the constants.
Paths below are relative to the repository; the models live beside it in this directory.

The product is a single-PC operations system: an operator signs in, keeps a directory
of rights owners, agencies and signers and the mandates between them, opens a *case*,
records its facts and sources, has a prompt produced from the case, imports the
externally written notice *candidate*, validates it technically, records the human
review of six gates (G1-G6), and finally exports an unsigned notice once everything is
current. Wrong output here is a legal notice sent on a stale or unauthorised basis. So
the interesting code is not any single calculation but what may happen *between* a
check and its use: retried writes, logins overlapping account changes, reviews
overlapping changes of the data reviewed, exports replayed later, pages that show what
has changed meanwhile.

Contents: [1 System](#1-the-system) - [2 Modules](#2-modules-and-how-they-correspond-to-the-code) -
[3 Runs](#3-what-the-runs-check) - [4 Proofs](#4-what-is-proved) -
[5 Disagreements](#5-where-code-and-documents-disagree) - [6 Limits](#6-what-is-not-modelled) - [7 Plan](#7-plan)

To repeat a check, in this directory:

    tlc -workers 2 -config IdempotentWrite.cfg MCIdempotentWrite.tla
    tlapm IdempotentWriteProofs.tla

## 1 The system

One Node process serves the HTTP API; a CLI process (`apps/api/src/cli`) administers
accounts; the browser client (`apps/web`) is a React application. API and CLI meet only
in the MySQL database, the tabs of a browser only in its cookie. There is no message
queue, no background job and no cache on the server: every interleaving comes from
concurrent requests (asynchronous handlers of one event loop, each with its own database
transaction), from the CLI, from clients that retry, and from answers that overtake each
other on their way to a page.

### 1.1 Inventory

| Part | State it keeps | Operations | Hard behaviour | What makes it correct |
|---|---|---|---|---|
| HTTP layer and contract (`infrastructure/http`, `packages/contracts`) | none | middleware, body parser, 145 contracted operations, guard, handler, executor | each layer may refuse first, each by its own table | every answer is one the contract declares; what the client sends is understood |
| Write path (`infrastructure/write`) | `idempotency_records`; the row version of each target | `execute`: claim, prepare, transaction with retries, complete, replay, release | claims abandoned by a crash, take-over while the first owner still runs, lost commit acknowledgement, expiry of a record while it is used | a key writes once per horizon; a replay is the truth; If-Match loses no update; every request ends |
| Login throttle (`auth/login-throttle.ts`) | in-process map of accounts, failure windows, attempts in flight | `begin`, `fail`, `succeed`, `release` | attempts overlap for as long as a password hash takes; the map is bounded and evicts | neither budget overshoots; Retry-After is honest |
| Sign-in and sessions (`auth`) | `users` (password, `sessionEpoch`, enabled), `auth_sessions` | login, authenticate, recordActivity, logout, guard | the account changes between the read of the user and the insert of a session; session and user are read by separate statements | an ended session is never accepted again; idle and absolute limits hold |
| Administration CLI (`cli`) | the same tables, from another process | create, password, disable, enable, revoke-sessions | races with logins in the API process | every command outdates all sessions opened on what was there before |
| Directory (`directory`) | owners, owner subjects, legal subjects, agencies, signers | create, correct, archive, restore, link, delete, bind a canonical identity | a dependant is inserted while the record is deleted or archived | nothing names a deleted record; an identity relied on stays; no circle of waits |
| Representation (`representation`) | mandates, versions, coverages, coverage signers, authority events, routes | mandate create/patch/archive/restore/delete, version create/patch/freeze, coverage create/patch, signer create/delete, event record, route create/patch/link state/archive/restore/delete | a version is frozen while coverages are added; long lock chains | a frozen version never changes; a selection refers to a consistent chain |
| Sources (`sources`) | sources, their scope and revisions; which owner's records use them | create, revise | two cases of two owners start to use one source | a source serves one owner, and only records within its scope |
| Cases and intake (`cases`) | case (`contextRevision`, archive flag), links to sources, works, reported items, mappings, facts, authority selections | create, edit, archive/restore, delete, bind a route, select an authority, record a fact | every material write moves `contextRevision` under the case lock; rules relate rows that are written apart | the sources of a case fit it; what is read together is whole; no material change leaves the revision |
| Correspondence (`correspondence`) | captured messages and their bindings to cases | capture, bind, correct | two corrections of one binding | chains are linear |
| Production context and prompts (`production`, `prompts`) | immutable prompt snapshots | assemble, digest, generate | the context changes between a review and the request for a prompt; the digest covers some records and not others | a prompt shows what was reviewed |
| Candidates (`candidates`) | candidates: parent, version, supersession | import, revise, supersede | concurrent revisions; no index forbids a fork | linear chains, dense versions |
| Technical validation (`validation`) | validation runs and their issues | validate (receipt, snapshot, evaluation, commit) | the inputs change while the rules run outside any transaction | a run is recorded only for current inputs; a pass means the text was drafted from what is recorded |
| Assessments (`assessments`) | gate assessments, their supports and supersession | record, supersede | two reviews supersede the same one; supports change afterwards | linear chains per gate; a review counts only in its epoch |
| Readiness and export (`readiness`) | completed exports (idempotency records) | derive, export, replay | time boundaries pass; a replay is judged much later | nothing is released that is not ready at the instant it is judged |
| Audit (`infrastructure/audit`) | append-only events | insert in the writer's transaction | none of its own | atomic with the write |
| Web client: session and writes (`apps/web/src/app/auth`, `directory/hooks.tsx`) | the session each tab believes in, per-intent idempotency keys | login, logout, revalidate, submit, retry with a fresh CSRF token | late answers of an older session; two tabs share a cookie | a write takes effect for the user shown; a change resubmitted takes effect once |
| Web client: pages (`apps/web/src/app/cases`, `directory`, `representation`, `sources`) | what was read, generations of the candidate page | offer commands, show results | rules written a second time; answers of different pages of time on one screen | a page offers what the server would accept; it shows nothing outdated |
| Canonical JSON, configuration, scripts | none, or build-time | conversions and tooling | - | - |

### 1.2 How they interact

* Every contracted mutation - of the directory, representation, cases, sources,
  candidates, prompts, validation, assessments, export - runs inside
  `WriteExecutor.execute`. It gives the business code one transaction, checks If-Match
  on the locked target, retries deadlocks, and stores the identity of the outcome under
  the client's key. `IdempotentWrite` models it once for all of them; the other modules
  assume what it promises (`WritePromise`) and model a command as one execution.
* The guard runs before every controller, reads the session and the user, and writes
  activity. The CLI changes the user and the sessions from outside. They share two
  tables and no lock, except inside each transaction. `RequestPipeline` composes the way
  of a request with the sessions of `SignIn`.
* Rows of the directory, representation, cases and sources are protected by row locks
  taken in an agreed order (`records.ts`). `RowLocks` is that mechanism;
  `DirectoryRecords` and `AuthorityRecords` use it (the latter with its own lock plans).
* The production pipeline is chained through the *dependency digest*: a prompt freezes
  it, a validation run and an assessment record it, readiness compares it with the
  present one. Two records with the same digest belong to one *epoch*. What moves the
  digest (a material case write, a link state, an authority record, a listed source) and
  what does not (an unlisted source, time) decides what may be relied on.
* Case-scoped commands serialize on `SELECT ... FOR UPDATE` of the case row
  (`lockCase`). Validation, prompts, assessment and export run SERIALIZABLE; everything
  else at the executor's default, READ COMMITTED (`write-executor.ts:52`). Validation evaluates *outside* its
  transaction and checks again on commit.
* A page decides what to offer by its own copy of the server's rules over what it has
  read; its writes carry the ETag read, an idempotency key per intent and the CSRF token
  of the session it shows.

The hazards this creates are listed line by line in `PROJECT.json`, each with the
properties that would catch it going wrong, or a note saying why none does.

## 2 Modules and how they correspond to the code

`PROJECT.json` maps every definition to the lines it translates. An operator whose
comment begins with "(mutant)" or "Fault:" is not part of a specification: it is a
plausible mistake in the operator that follows it, kept so that each property can be
shown to notice one. `MC*` modules only give constants their values.

### `IdempotentWrite` and `WritePromise` - the write path

A request is one call of `WriteExecutor.execute`; a client's retry is another request
with the same key. Every statement that reaches the database is a step of its own.

| State | Code |
|---|---|
| `rows[k]` | the `idempotency_records` row of (actor, operation, key); its id is the request that inserted it |
| `rowLock[k]`, `targetLock` | the row locks of uncommitted transactions |
| `version` | `rowVersion` of the target of If-Match |
| `intent[r]` | key, digest, If-Match and the instant sampled before the claim (`request.now`) |
| `round`, `attempt`, `found`, `failure`, `answer` | the local variables of `claim` and `execute` |
| `applied`, `source` | history: each committed business write; whose write an answer describes |

| Action | Code |
|---|---|
| `InsertClaim`, `FindExisting`, `DropExpired`, `DropAbandoned`, `RoundsExhausted` | the rounds of `IdempotencyStore.claim` |
| `Prepare` | `definition.prepare` may reject before any transaction |
| `Work`, `Complete`, `Commit`, `TransactionFails` | one attempt: lock and check the target, write, `complete` in the same transaction, commit; the acknowledgement of a commit may be lost, and a deadlock repeats the attempt |
| `Release` | `IdempotencyStore.release` after a failure |
| `Crash`, `Tick` | the process stops anywhere; time passes |

`WritePromise` is what clients rely on, without claims, rounds, leases or locks: a key
performs at most one write per horizon, a replay describes it, another digest is
refused. `IdempotentWrite` implements it with `outcome` read from COMPLETED rows and
`applied` from the history.

### `LoginThrottle`

`tracked`, `failures`, `inFlight`, `globalFailures`, `globalInFlight` are the fields of
the `LoginThrottle` class (`tracked` is the insertion order of its `Map`). `Refused`,
`Allowed` and `Track` are the outcomes of `begin`; `fail`, `succeed`, `release` the three
ends of a ticket; all are synchronous in the code and hence atomic. `ticket` says which
account's ticket each sign-in under way holds, `rejected` and `allRejected` (history)
when credentials were refused. What the code filters, `Filtered` picks by position.

### `SignIn` - login, sessions, guard and the recovery commands

`user` and `session` are the two tables for one account. `login`, `request` and
`command` are the local state of the three kinds of process. A login reads the user
(`ReadForLogin`), verifies the hash for as long as that takes (`Verify`, `Reject`), and
then opens a session bound to the epoch it *read* (`Open`: the presented sessions are
revoked, the new row is inserted, the user is not read again); an authenticated request reads the
session (`ReadSession`) and the user (`ReadUser`) in separate statements, decides
(`Accept`, `Refuse`) and writes its activity later (`RecordActivity`). A command is two
steps: it looks whether there is anything to do, then runs its transaction. `Logout`
revokes one session. History: `changes`, `ended`, `activity`.

### `Readiness` - validation, assessment, readiness, export, replay

`db` is the committed database as far as readiness reads it, so a REPEATABLE READ
snapshot is a copy of it. SERIALIZABLE write transactions are single steps; a
validation is three (`Receive`, `Capture` from a snapshot, `Commit`), as is a replay
(`ReceiveReplay`, `ReadForReplay`, `JudgeReplay`), because nothing is locked between
them. `TouchCase`, `SetLinkState`, `ArchiveOrRestore`, `ChangeAuthority`,
`ChangeStanding` and `Supersede` are the writes elsewhere in the API that move the
digest, the supports or the candidate. `Ready(db, clock)` is what `GET readiness` answers.

Abstractions: the artifact and the rule set are fixed, so an epoch is a digest; of the
technical rules, those remain that depend on more than the candidate's immutable text
(`TechnicalRules` has them all);
ERROR stands for every run that did not complete; PAUSED stands for UNLINKED; HOLD for
BLOCKED, MISSING and CONFLICT; an assessment's asks are kept only where they are
evaluated (G6), its review time only where it is (G1); `standing` says a source
applies to the case and is its latest revision; a refused export leaves nothing behind.
A civil date is the window from its start at UTC+14 to its end at UTC-12.

### `CandidateChain` - import, revision, supersession

`candidates` are the committed rows, `lock` the case row's lock, `written` the rows of
an open transaction. A command reads the candidate (`Find`), locks its case
(`LockCase`), reads again and checks (`Check`), inserts, marks the predecessor, commits;
`Abort` is a deadlock or a lost unique index, and repeats the attempt up to
`MAX_TRANSACTION_ATTEMPTS` times. The idempotency key is assumed used once
(`IdempotentWrite`).

### `AuthorityRecords` - representation, authority selection, route binding, owners of sources

One request is one READ COMMITTED transaction. `Begin` looks the request's rows up by
their immutable columns (`Found`, the unlocked reads of `versionParents` and
`coverageParents`) and fixes the locks its service asks for, in order (`RecordPlan`);
`TakeLock` takes the next one when no other transaction holds a conflicting one;
`Check` evaluates everything the service reads under them (`Permitted`) and appends the
locks on the sources it cites (`assertSourcesUsable`, `lockSourcesForUpdate`);
`CheckSources` asks whether another owner uses them; the operation then writes and
commits in one step, because nobody sees its writes earlier. `Refuse` is every error
path, a deadlock broken by the database included: nothing is written.

| State | Code |
|---|---|
| `routes`, `versions`, `coverages`, `entries`, `events`, `cases`, `selections` | the rows of Route, MandateVersion, MandateCoverage, CoverageSigner, AuthorityEvent, CaseRecord, CaseAuthoritySelection, with the columns that the rules compare |
| `agencyArchived`, `usable`, `archivedMandates` | the state columns of Agency, Signer (neither archived nor ENDED) and Mandate |
| `command`, `pc` | the request and how far its handler is |
| `plan`, `taken` | the row locks it asks for, in order, and how many it holds |

The operations bear the names of the contract's operation ids; `setMandateArchived`,
`setRouteState`, `setAgencyArchived` and `setSignerState` stand for the two to four
operations that differ in one column. Abstractions: one agency; a route stands for itself
and its owner, legal subject and association, which every path locks for share together
with it; a selection pins one coverage; a version has one source; the sources of a case's
uses are given; an owner's own sources are left out, so an owner uses a source through
routes only. If-Match and the rules over immutable data may refuse and are `Refuse`.

### `RowLocks` and `DirectoryRecords` - the directory and what names it

`RowLocks` is the locking of a READ COMMITTED transaction: `plan[r]` is what its code
asks for, in order, `taken[r]` how far it is, and a wait is for a transaction that holds
a conflicting lock (`WaitInCircle`). `DirectoryRecords` is every write of the services of
agencies, legal subjects, owners, associations and signers, and those of routes,
mandates, cases and sources that name them: `Begin` fixes the plan (`RecordPlan`),
`TakeLock` proceeds through it, `Check` evaluates `Permitted`, and the action named after
the service's method writes and commits. `rows[i]` keeps what the rules of other rows
read: the state, the archive flag, whether its identity is bound, and what it names
(`also`; what it names for good is a constant). `dependencyReasons` and `establishedBy`
are those of `records.ts`: a record is used when a foreign key or a snapshot column
names it, which is read and never stored. Names, codes and other fields are one bit of
identity. An id is used once.

### `SourceScope`, `CaseIntake` - the records of a case

`SourceScope` has the rules of `source-scope.ts`: what a source may be used for, by the
agency, subjects and cases it is restricted to, the owner it serves and whether it was
revised. `CaseIntake` has `cases` and one sequence per table (`links`, `works`, `items`,
`mappings`, `facts`, `bindings`, `selections`, `prompts`); `outside` is what other parts
record: archived parties, route states, which owner's records cite a source, revisions,
captured messages, the authority of a route. Each write of a case first locks the case
row, so it is one step; its name is that of the service method. A row's id is its place
in its table.

### `ProductionContext`, `TechnicalRules`, `CandidateValidation` - from the records to a judged candidate

`ProductionContext` is what one snapshot reads of a case for a task (`Readable`,
`ContextSources`, what is missing and in conflict) and the digest over it, modelled as
the content it covers; a reader holds a `review` and asks for a prompt with it
(`Generate`). `TechnicalRules` has every rule of the ruleset as an operator from what it
reads to what it finds, and the engine that runs them; a text is modelled by what the
rules tell apart in it. `CandidateValidation` imports drafts (`StoreCandidate`, with the
envelope and plan rules), and validates them in the code's two transactions:
`CaptureCandidate` reads one snapshot and evaluates, `RecordRun` records if what was read
still stands, `DropCapture` is the refusal.

### `Contract`, `Handlers`, `ApiClient`, `RequestPipeline` - a request through the HTTP layer

Three tables, each from its own part of the code: `Contract.Operations` (what
`operations.ts` declares of the 145 operations), `Handlers.Routes` (what each controller
method parses, answers and may refuse with), `ApiClient.WebCalls` (what the web client
sends and awaits). The components come in the same order in the three, joined by `++`
(the first's row counts), so that the proofs can compare them component by component.
`RequestPipeline` extends `SignIn` by one HTTP request, `call`, which
is the client's or departs from the contract in one thing: `Receive` is the middleware,
the body parser and the routing, `LookUpSession` and `LookUpUser` are the guard's two
reads (of `SignIn`, so recovery commands and logouts come between), then `Admit` or
`TurnAway`, `Attend`, and one of `RefuseInHandler`, `RefuseInService`, `Succeed`.

### `WebClient` - sessions and writes of the tabs of a browser

`cookie` is shared by the tabs; `view[t]` is the session a tab shows; `call[t]` is what
it has under way, one call each to check the session, to sign in or out, and to write;
`form[t]` the change its form holds and the ref of `useIntentKey`. The API is `live`
(sessions it accepts) and `recorded` (idempotency records). Every request is served,
answered and arrives in separate steps, answers set the cookie in any order, anything
may be lost. A write refused for its CSRF token asks for a fresh one and is repeated
once with the same key (`Freshened`). History: `performed`.

### `PageScope`, `CasePages`, `ProductionPages`, `AssessmentPages`, `DirectoryPages` - what the pages offer

The web client repeats rules of the server: the scope of a source (`app/sources/scope.ts`
by cases, `source-scope.ts` by dimensions), which buttons a record has, which choices a
picker leaves. Each page is a predicate (or a set of requests) over what it has read,
and an invariant of the module it extends compares it with what the server would do:
`ENABLED` of the action, or `Permitted`. What a page cannot read (another owner's use of
a source, archived parties, dependants) is listed, form by form, as its exceptions; these
are observations of section 5. A page that is behind is refused by its If-Match and is
not the question here.

A form of the directory may begin with what its address names. `DirectoryPages` keeps
the two apart: `Picked` is what pages offer of the lists and records they show, and it
mirrors the server; `Preset` is what the forms offer that a link opens with an agency
(from a filtered list of signers or mandates, or from a case without a route to bind) or
an owner (from the page of a link), archived or not. Those forms check only that there is
one. They do not mirror the server: `DirectoryPagesMirror` says that such a request is
refused exactly where that agency or owner is archived (`Overlooked`), unless the outcome
turns on what no page reads.

### `CandidatePage` - the page of a candidate and its requests

`server` is the stamp of the last committed change, the content readiness depends on and
whether it is ready; `exports` the completed exports; `calls` the requests and answers
under way. `generation` and `rendered` are `readinessGeneration` as set and as rendered,
`evaluation`, `handoff` and `intent` the states of the two sections and the key ref.
Rendering is a step of its own (`Render`), as a state set by an answer is rendered later.
History: `told`, `refusedAt`, `answered`, `endedEarly`.

## 3 What the runs check

| Run | Instance | Distinct states | Properties |
|---|---|---|---|
| `idempotent_write` | 2 live requests and one that died before, 2 keys (1 conditional), 2 digests, horizon 2, lease 1, 2 rounds, 2 attempts, clock 2 | 301,045 | `OneWritePerHorizon`, `ReplayIsFaithful`, `NoLostUpdate`; `EveryRequestEnds`; `KeepsPromise` (refinement of `WritePromise`) |
| `login_throttle` | 4 sign-ins under way, 3 accounts, table of 2, budgets 2 and 3, windows of 3, 2 ticks a second, clock 5 | 136,505 | `BudgetsHold` with overlapping attempts and eviction; `RetryAfterSuffices` |
| `sign_in` | 2 logins, 1 request, 2 commands; TTL 3, idle limit 1, activity interval 1, clock 3; one HTTP request to any operation in quiet states | 888,281 | `EpochOutdatesSessions`, `EndedSessionsStayOut`, `AcceptedInTime`; `AnswersAreDeclared`, `CallsAreUnderstood` |
| `readiness_records` | gate G2, 2 runs, 3 assessments, 2 validators, 1 revision, a plan of a listed and an unlisted source, no time | 978,448 | `PassIsUnanimous`, `ChainsSound`, `ReviewFormMirrorsTheRules` |
| `readiness_time` | G1 and G6 of a reply, an authority dated [1, 2) with an event at 3, review times 0, 2, 3, time 3, 1 run, 2 assessments, 1 export, 1 replay | 599,744 | `ExportsAreSound` |
| `readiness_diagnostic` | no gates, 2 runs, 2 validators, time 1 | (violation) | the finding of section 5 |
| `candidate_chain` | 4 requests, 1 case, 2 tasks, 2 attempts | 287,274 | `ChainsDoNotFork`, `RefusalsNameTheHead` |
| `authority_records` | 2 requests of any of 22 kinds; 2 routes of 2 owners, 1 mandate with a frozen and a draft version, a coverage and signer in each, 2 cases, 2 sources | 173,997 | `ChecksStand`, `SelectionsKeepTheirChain`, `SourcesServeOneOwner`, `OnlyRebindingsDeadlock`, `FrozenRecordsNeverChange` |
| `case_context` | three first cases (`bare`, without history; `ripe`, with everything a context can show; `clear`, with nothing missing), 2 changes for `bare` and 1 each for the others, 2 routes, 2 sources, 1 prompt, 1 candidate of 8 drafts, 1 run | 278,769 | `SourcesFitTheCase`, `ReadsStaySound`, `PromptsShowWhatWasReviewed`, `VerdictsStand`, `PassesAreFaithful`, `PagesMirrorTheRules`, `MaterialMovesRevision` |
| `directory_records` | 2 requests of any kind on 11 ids, from ten first states | 127,005 | `NothingDangles`, `LinksStand`, `WaitsNeverCircle`, `EstablishedIdentityStays`, `DirectoryPagesMirror` |
| `web_client` | 2 tabs (one writes and is refocused), 2 users, 2 sessions, 1 revalidation, 1 change, 2 keys | 1,975,386 | `WritesShowTheirUser`, `ChangesHappenOnce` |
| `candidate_page` | 2 evaluations, 3 preparations, 2 writes, 1 change by others | 2,738,008 | `ShowsNothingOutdated`, `RetriesAreSafe` |

*Why the bounds are enough.* Each race named in the hazards needs at most three actors
(an owner, the request that takes over, and a third that uses the row it finds), and one
deadlock retry; the clocks are long enough to pass a lease, then the horizon, and for the
throttle a whole window and the announced wait. In `idempotent_write` the actor that
leaves an abandoned claim dies before the other two begin and before
time passes (`GoneFirst`), which leaves them the whole of its lease. `readiness_time` orders every
pair of review, judgement and boundary: before, at, inside, at the end, after. In
`authority_records` and `directory_records` two requests suffice for every race between a
check and a commit: each invariant relates what one transaction read to what one other
wrote, and the rows there are at first are those a third would have made. Three requests
exceed the time there is, so a circle of three waits is excluded only by the order of the
lock types. In `case_context` a change is a write of the intake or of the records
outside (`MaxChanges` bounds their number together with the versions the first case has
had); every first case is one or two writes from each state in which a check could go
stale. In
`sign_in` the HTTP request arrives when there is one session, open or logged out, and at
most one recovery command under way, which may revoke the session between the guard's
reads; it departs from the contract in at most
one thing, because the first layer that refuses answers alone. `candidate_page` has one
request more of each kind than a race needs, so that a late answer can meet a newer one
and a retry. The invariants proved in section 4 hold for all bounds; for the rest each
property has a mutant in `PROJECT.json` that TLC finds within the same bounds, so the
case does happen in them.

*Fairness.* Only `EveryRequestEnds` needs it: `FairSpec` has weak fairness of each
request's steps, as the event loop resumes every handler whose statement was answered
and InnoDB answers every statement (by its lock-wait timeout at the latest). Nothing is
assumed of arrivals, failures, crashes or the clock. A request that crashed counts as ended.

*Deadlock* of the model is not checked where a model may really stop (all requests done and the clock
at its bound); `candidate_chain` has no such state and is checked for it.

## 4 What is proved

Checked by TLAPS for all values of the constants that satisfy the named assumptions.

* `IdempotentWriteProofs`. The properties are not inductive: a replay is faithful only
  because the row found was written by a transaction that also did the business write.
  The invariant adds what rows record of intents (`RowsRecordIntents`), how far each
  request is (`Progress`), who holds which lock (`LocksHeld`) and that a COMPLETED row
  has its write in the history (`OutcomesKept`). From it: `TypeCorrect`,
  `WritesOncePerHorizon`, `ReplaysFaithfully`, `LosesNoUpdate`, and `ImplementsPromise`:
  each step is a step of `WritePromise` or a stutter. Also, without a run of their own,
  `StoresOnlyRealSuccess` and `KeepsRows`. The second part proves `WebClient`
  (`ClientSpec`), for any tabs, users and sessions: `ClientWritesShowTheirUser` and
  `ClientChangesHappenOnce`. A write under way carries the CSRF token of a session whose
  user its tab has shown, and the API takes it only with that session's cookie
  (`TabCallsFit`); a change is one tab's, under one key while anything of it is under
  way, and whoever has performed it is recorded under that key (`ChangesHold`).
* `SignInProofs`. What each process knows is bounded by what was true when it read it:
  the number of account changes is the epoch (`Rows`), a login in progress and the
  session it opens carry the epoch of its read (`LoginsKnow`, `SessionsBound`), and a
  request that began with a session no longer good holds a row, or an epoch, that shows
  it (`RequestsKnow`). `CommandsKnow` types the commands in progress. From it:
  `TypeCorrect`, `EpochOutdates`, `EndedStayOut`, `AcceptsInTime`, and, without a run,
  `EndsRevokeRows`. `PipelineImplementsSignIn`: the HTTP layer adds a call and takes
  nothing away, every step of `RequestPipeline` is one of `SignIn` or leaves its
  variables; hence `PipelineKeepsSessionsSound`, the same guarantees behind the pipeline.
  `AnswersAreAlwaysDeclared` and `CallsAreAlwaysUnderstood` come in two halves. The
  tables: what the contract declares, the handler may answer and the client sends
  matches for each kind of row, hence component by component (`Corresponds`), hence for
  all of them (`TablesFit`), so every status a stage can answer with is declared
  (`StatusesDeclared`) and no stage refuses what the client sends for its form
  (`WebStatuses`). The session: a 401 must mean that it has ended, although the guard
  reads the row and the user apart. `RowsTell` (a row is revoked only by what announces
  the end of its session) and `InFlight` (an epoch that is not the row's is a change the
  session's login has not seen) say that it does, under the bound of the model named at
  `Quiet`: one session, clock 0 and only revocations while a request is on its way.
  The last part proves `LoginThrottle` (`ThrottleSpec`), for any number of sign-ins and
  accounts. That a budget holds now says nothing of the next attempt; the invariant adds
  that the code's lists and counters know enough: the counters count the tickets
  (`TicketsCounted`), a list keeps every refusal a window still holds (`WindowsKept`), and
  an account that is not tracked has neither (`OthersEmpty`). From it: `BudgetsAlwaysHold`,
  `TableAlwaysBounded`, and `RetryAfterAlwaysSuffices`: of a list in order, all but the
  entries the announced wait lets go fit the budget. The lists are filtered by position
  (`Filtered`), so that counting, not an induction, says what is left.
* `ReadinessProofs`. `RunsEvaluated` and `CapturesEvaluated` (a run's findings are those
  of its own digest and plan), `ReviewsSupported`, `ReplaysRead` (a snapshot is a past
  database, judged no earlier than read), with the chain invariant. From it: `TypeCorrect`,
  `PassesStand`, `ChainsStaySound`, `ExportsStaySound`, and, without a run,
  `RunsStayCurrent`, `SupportsStand`, `TimeReadies`, `ReplaysRespect`. The page of the
  reviews computes by itself which reviews would be accepted, from lists of its own;
  `ReviewFormAlwaysMirrors` shows that it agrees with the service, and `FormAlwaysMirrors`
  that it would for any review, not only for those the run enters.
* `CandidateChainProofs`. `ChainsStayLinear`. A command past `LockCase` is the only one
  of its case, and what it has checked - that nothing revises its candidate, that it is
  not superseded - only the commit of another could change. The invariant says that a row
  is inserted once (`Inserted`), what a request has located and locked (`Located`), that
  what was checked still holds (`Checked`), and what is about to be committed
  (`Pending`). The second part proves `CandidatePage` (`PageSpec`), for any
  number of requests and of changes by others: `PageShowsNothingOutdated` and
  `PageRetriesAreSafe`. Each section waits for at most one request of the generation
  shown (`SectionsWait`), nothing is later than the server (`NothingAhead`), and what
  such a request is answered with is no older than the last write the page was told of
  (`ToldHolds`) or the last refusal it has shown (`RefusalHolds`). Contents never come
  back, so a key that is not done is the one of the intent, or of a content the page has
  moved past (`KeysHold`).
* `RowLocksProofs`. What the two modules about locks share: locks that conflict are never
  held together (`Compatible` is kept by `Take` and by any release), and transactions
  that ask for their locks in one ascending order never wait in a circle (`NoCircle`).
* `DirectoryRecordsProofs` and `AuthorityRecordsProofs`. What a transaction checked is
  about rows it has locked, and any write that could make it false needs a lock that
  conflicts; so what was true at the check is true at the commit. The invariant has one
  part for each kind of fact: the tables' types, the plan a request has (`Asked`),
  `Compatible`, ids that are nobody else's until they are committed (`OwnIds`, `NewIds`),
  what a checked request relies on (`Relied`; `ParentsThere`, `ChecksStand`), sources
  that are claimed under their lock (`Claimed`). From it, in the directory:
  `NothingEverDangles`, `LinksAlwaysStand`, `IdentitiesStay`, and `WaitsNeverClose`, as
  every plan ascends; in the authority records: `ChecksAlwaysStand`, `ChainsKept`,
  `OneOwnerPerSource`, `FrozenForever`, and `OnlyRebindingsWait`: every plan ascends but
  that of a rebinding, which sorts the sources of each use and not all of them.
  The directory's second part is about its pages. A row keeps to the states of its type
  and no association is archived (`RowsFit`), so what may be asked of a record can be said
  from its type, its row and a few lists alone (`Visible`). Each page offers nothing else
  (`PickedGood`), some page offers each (`VisibleOffered`), and the server permits exactly
  these, unless it knows what no page reads (`Judged`, `Unseen`). What a form with a preset
  offers can be seen to be wrong only by the state of the agency or the owner
  (`CreatesForForms`, `RouteCreateForms`, `PresetTold`). Hence `PagesAlwaysMirror`.
  The property is about states at rest; its proof asks nothing of the requests.
* `CaseContextProofs`. The invariant says more than the rows a context may read fit the
  party of the case: so does every link and mapping a fact was ever recorded upon, or
  that may come back into use, because a row that is relinked or restored is checked by
  itself alone (`SourcesFit`); names stay within a case and a group of facts has one head
  (`NamesHold`). Most writes touch one case, whose revision moves and whose tables grow
  (`Touch`, `Grows`), so each operation has a lemma that says what it touches and one
  that says what it keeps. From it: `CitedSourcesFit`, `ReadsAlwaysSound`,
  `IntakeMovesTheRevision`. A digest tells the case data: `DataTold` writes each part of
  the data as a function of the digest and the revision, and with it what was reviewed
  is what the prompt shows (`PromptsAreAsReviewed`). The same of validations: a second
  invariant (`RunsInvariant`) says that prompts, candidates and verdicts are functions of
  the digest they keep, which later steps cannot touch. Two digests with the same
  dependencies are the same (`SameDigest`); a plan that names a source outside the digest
  never passes (`OutOfContext`); so the digest alone decides (`VerdictsAlwaysStand`), and
  a pass says what each rule would have found (`PassesAlwaysFaithful`).
  `PickersFollowTheServer`: the source picker of the web client, which decides case by
  case, has a reason against a source exactly when the server, which decides by
  dimension, has one.

The assumptions are about the constants alone, and every run evaluates those of its
module: bounds are natural numbers, requests are finitely many, marks such as `None` are
nothing else's value, records of the routes, sources and messages have their fields
(`RecordsAssumption`, `ScopeAssumption`), and the tables an instance begins with are ones
that the invariants are true of, each row in a state of its type (`FirstsAssumption`), as
an empty database is.

Only model-checked:

* `EveryRequestEnds`: liveness under fairness is out of the prover's reach.
* `RefusalsNameTheHead` follows a chain by a recursive operator.
* `PagesMirrorTheRules` compares forms with `ENABLED` of the server's actions.

`TypeOK` of each module serves the proofs and was checked while the module was written;
the runs spend their properties on other questions.

## 5 Where code and documents disagree

*The run that counts is not the latest recorded* (`readiness_diagnostic`). ADR-0011
(line 66, Decision 4) and `readiness-rules.ts:434-438` speak of the latest recorded
run. `createdAt` is the request's receipt instant (`validation.service.ts:284`), so of
two overlapping validations the one received first may be recorded last, and does
not count although it is an incomplete run that should have suspended the pass.

Observed while modelling, and modelled as the code does it:

* Replays. `write-executor.ts:21-24` says a replay reads an immutable record back. An
  import replayed after its candidate was superseded shows `supersededAt`
  (`candidates.service.ts:266-269`, `candidate-views.ts:32`); a replayed handoff shows the
  readiness kept with it, not the present one.
* Lock order. `records.ts:15-16` says rows of one type are locked in id order.
  `assertCaseSourcesFit` (`case-rules.ts:276-278`) locks the sources of a case one use
  after the other, so two rebindings that share two sources may wait for each other; the
  database breaks the circle and the executor retries. `OnlyRebindingsDeadlock` and
  `WaitsNeverCircle` show that no other path does this.
* Sessions. Enabling an account moves the epoch although disabling it has done so; a
  delayed `recordActivity` moves `lastSeenAt` backwards by at most the distance of two
  overlapping requests (`session.service.ts:167`).
* Tabs of one browser. A late 401 clears the cookie of a newer session
  (`auth.guard.ts:59`); the 401 of a write's retry does not return the tab to the login
  page, although `session.tsx:58` and `hooks.tsx:81` say any does; a write submitted while
  the tab shows one user is repeated as another if the cookie changed and the CSRF token
  is refreshed, and the tab then shows that user (this is why `WritesShowTheirUser` speaks of the
  user shown when the write was last sent); a fresh token may revive the view of a tab
  that signed out, until its next call; edits that return to an earlier content get a new
  key.
* Candidate page. The late answer to one preparation ends the intent of a newer one
  (R14-AUD-022, a known open item of `docs/CURRENT_STATE.md`); `RetriesAreSafe` exempts it
  (`endedEarly`), and without the exemption TLC finds it in 20 steps. A failed write of
  unknown outcome leaves the readiness shown (REV-FINAL-06, known as well).
* Pages that offer what the server refuses: an OUTCOME binding without an item; a mapping
  by reviewed document whose basis was not reviewed; edits of a mapping whose work or item
  is archived; deletion of records with dependants; restoring or relinking while a party
  is archived; a new signer, mandate or route of an archived agency that the address of the
  form names (`signers.tsx:302`, `mandates.tsx:496`, `routes.tsx:504`; linked to by
  `signers.tsx:86`, `mandates.tsx:82`, `cases.tsx:731`), although the picker disables it or
  leaves it out; a new route for an archived owner preset by the page it was opened from; a
  context with a corrected binding that an old address still names
  (`production-context.tsx:377`; a page that is behind, and not modelled); a
  revision of a superseded candidate. A PREVIOUSLY_SUPPLIED document is only hinted at.
* The API accepts more than the forms offer: an ask may cite sources not linked to the
  case, and be recorded for any gate. Single-record reads ignore undeclared query
  parameters. `getMeta` is contracted and has no handler.
* A route may be PAUSED over an association that is UNLINKED.
* `relatedCaseIds` of a fact is checked without a lock or a foreign key
  (`case-facts.service.ts:339`). The page of a case reads its lists by several requests
  (`facts.tsx:825`), so a fresh ETag may stand beside older lists.

## 6 What is not modelled

* Field schemas (`packages/contracts/src/api/schemas`), generated types, views, wording
  and layout: data. That an operation takes a body, and which statuses it answers with,
  is modelled (`Contract`).
* Audit rows (inserted in the writer's transaction, atomic with it), health,
  configuration, scripts, migrations: no interleaving of their own.
* Canonical JSON and digests: modelled as injective; equal digests mean equal inputs.
* Of the technical ruleset, the ARTIFACT rules, which compare a stored candidate with
  itself, and malformed stored values: an import stores neither. In `Readiness` the
  candidate's own verdict is fixed.
* Password hashing, the derivation of CSRF tokens: compared, not computed.
* Readiness tiers beyond READY_FOR_SIGNER, which no record can reach yet.
* Supersession of authority events and predecessor coverages (each guarded by a unique
  key), and the date rules of versions and coverages in `AuthorityRecords`.
* Lists: search, order and paging. A list is ordered by `createdAt`, the instant of
  receipt, so a row committed late sorts into a page already read (`pagination.ts:61`).
* The pages of mandate versions, coverages, authority events and correspondence: they
  submit as `WebClient` says and call as `ApiClient` says; what their forms offer is not
  compared with the server.
* Failures of the database in the HTTP pipeline: there, 500 stands for an error of the
  wiring. `IdempotentWrite` has the failures.
* The creation of the first account by the CLI, and its terminal handling.
* MySQL itself: SERIALIZABLE transactions are taken as atomic steps, REPEATABLE READ
  snapshots as copies; where the code relies on a particular row lock or unique index,
  that one is modelled. Left out are, in `AuthorityRecords`, the share locks that
  foreign-key checks take on parents; everywhere, gap locks, and the order in which
  InnoDB grants a lock to waiting transactions (any order is allowed).

## 7 Plan

The modules were written in the order of what a wrong step would cost: the write path
that everything passes through, who may act, what may be released, the records it is
released from, then the records those rest on (the case, the directory), and the client
that shows them. What is left, in this order:

1. *The remaining pages* (representation versions, correspondence) as in `CasePages`.
2. *Pagination*: a keyset over `createdAt` while late commits sort into pages already
   read.
