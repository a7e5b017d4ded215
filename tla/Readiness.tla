------------------------------ MODULE Readiness ------------------------------
(***************************************************************************)
(* One notice candidate on its way to an unsigned export: technical        *)
(* validation runs, gate assessments, the readiness derived from them, the *)
(* export and its guarded replay (modules/validation, assessments,         *)
(* readiness, with the parts of cases, sources and candidates that move    *)
(* the production context).                                                *)
(*                                                                         *)
(* `db' is the committed database as far as readiness reads it, so a       *)
(* REPEATABLE READ snapshot is a copy of it.  The SERIALIZABLE write       *)
(* transactions are single steps; a validation is three (receipt, capture  *)
(* from a snapshot, commit) and a replay three (receipt, snapshot,         *)
(* judgement), because nothing is locked between them.                     *)
(***************************************************************************)
EXTENDS Integers, FiniteSets

CONSTANTS
  Gates,           \* the review gates: all of "G1".."G6", or some of them
  Reply,           \* BOOLEAN: the task is NMI_REPLY, not INITIAL
  Sources,         \* source revisions the candidate and its reviews name
  Listed,          \* those among the context's dependencies
  SupportSource,   \* the source behind the case link that supports reviews
  Plans,           \* the source sets a candidate's document plan may name
  Authorities,     \* contents of the selected authority's records
  FirstAuthority,  \* the one the candidate's prompt was generated under
  Boundaries,      \* [Authorities -> set of temporal boundaries]
  Starts,          \* [Authorities -> those that are effective dates]
  Conflicted,      \* authorities whose context records a conflict or a gap
  ReviewTimes,     \* the review times reviewers state (some state none)
  RunIds, AssessmentIds, NoAssessment, Validators,
  MaxTime, MaxRevision, MaxExports, MaxReplays

\* A boundary as the window in which it may be reached: a civil date from
\* its start at UTC+14 to its end at UTC-12 (dateWindow), an instant as the
\* empty window at itself.
Boundary == {b \in [from : Nat, to : Nat] : b.from <= b.to}

ASSUME GatesAssumption == Gates \subseteq {"G1", "G2", "G3", "G4", "G5", "G6"}
ASSUME ReplyAssumption == Reply \in BOOLEAN
ASSUME SourcesAssumption ==
  /\ Listed \subseteq Sources
  /\ SupportSource \in Listed
  /\ Plans \subseteq SUBSET Sources
ASSUME AuthoritiesAssumption ==
  /\ FirstAuthority \in Authorities
  /\ Conflicted \subseteq Authorities
  /\ Boundaries \in [Authorities -> SUBSET Boundary]
  /\ Starts \in [Authorities -> SUBSET Boundary]
  /\ \A a \in Authorities : Starts[a] \subseteq Boundaries[a]
ASSUME ReviewTimesAssumption == ReviewTimes \subseteq Nat
ASSUME IdsAssumption == RunIds \subseteq Nat /\ NoAssessment \notin AssessmentIds
ASSUME BoundsAssumption ==
  MaxTime \in Nat /\ MaxRevision \in Nat /\ MaxExports \in Nat /\ MaxReplays \in Nat

VARIABLES
  clock,        \* the server's clock
  db,           \* what readiness reads, as committed
  validations,  \* [Validators -> a validateCandidate request]
  exports,      \* the completed unsigned exports, as the write path keeps them
  replays       \* replays of completed exports

vars == <<clock, db, validations, exports, replays>>

Time == 0 .. MaxTime
UnknownTime == -1
LinkStates == {"LINKED", "PAUSED"}     \* UNLINKED supports nothing either
Standings == [Sources -> BOOLEAN]     \* whether each source applies to the case now
Results == {"TECHNICAL_PASS", "REVIEW_REQUIRED", "BLOCKED", "ERROR"}
AskRecords == {"NONE", "RESOLVED", "OPEN"}
ReviewResults == {"CONFIRMED", "PASS", "HOLD"}

----------------------------------------------------------------------------
(* The context's digest and the technical rules.                           *)

\* The digest covers the case (contextRevision and archive flag), its links,
\* the authority records and the listed sources' applicability - nothing of
\* a source the context does not list.
Digest(s) ==
  [revision |-> s.revision, archived |-> s.archived, link |-> s.link,
   authority |-> s.authority, standing |-> [x \in Listed |-> s.standing[x]]]

Digests ==
  [revision : 0 .. MaxRevision, archived : BOOLEAN, link : LinkStates,
   authority : Authorities, standing : [Listed -> BOOLEAN]]

\* The digest the candidate's prompt snapshot froze.
PromptDigest ==
  [revision |-> 0, archived |-> FALSE, link |-> "LINKED",
   authority |-> FirstAuthority, standing |-> [x \in Listed |-> TRUE]]

Rules == {"PLAN.SOURCE_APPLIES", "PLAN.SOURCE_IN_CONTEXT",
          "CONTEXT.CONFLICTS", "CONTEXT.PROMPT_DRIFT"}

\* (mutant) The plan is not compared with the context's dependencies.
ReportsOutsideContext(rule, d, plan, standing) ==
  \/ rule = "PLAN.SOURCE_APPLIES" /\ \E x \in plan : ~standing[x]
  \/ rule = "CONTEXT.CONFLICTS" /\ d.authority \in Conflicted
  \/ rule = "CONTEXT.PROMPT_DRIFT" /\ d # PromptDigest

\* The rules that depend on more than the candidate's own immutable text.
Reports(rule, d, plan, standing) ==
  \/ rule = "PLAN.SOURCE_APPLIES" /\ \E x \in plan : ~standing[x]
  \/ rule = "PLAN.SOURCE_IN_CONTEXT" /\ ~(plan \subseteq Listed)
  \/ rule = "CONTEXT.CONFLICTS" /\ d.authority \in Conflicted
  \/ rule = "CONTEXT.PROMPT_DRIFT" /\ d # PromptDigest

Findings(d, plan, standing) == {rule \in Rules : Reports(rule, d, plan, standing)}

ResultOf(findings) ==
  IF "PLAN.SOURCE_APPLIES" \in findings THEN "BLOCKED"
  ELSE IF findings # {} THEN "REVIEW_REQUIRED" ELSE "TECHNICAL_PASS"

\* What the commit compares again of the planned sources: the context's
\* digest says nothing of the ones it does not list.
PlanFingerprint(plan, standing) == {x \in plan : standing[x]}

----------------------------------------------------------------------------
(* Readiness: pure rules over one snapshot s at one instant.               *)

EpochRuns(s) == {r \in s.runs : r.digest = Digest(s)}

Completed(r) == r.result # "ERROR"

\* (createdAt DESC, id DESC)
LaterRecorded(r, q) ==
  q.createdAt < r.createdAt \/ (q.createdAt = r.createdAt /\ q.id <= r.id)

RunsAgree(runs) ==
  \A r, q \in runs :
    Completed(r) /\ Completed(q) => r.result = q.result /\ r.issues = q.issues

\* The run that counts, if one does: the latest, unless completed runs disagree.
Counted(s) ==
  {r \in EpochRuns(s) : /\ RunsAgree(EpochRuns(s))
                        /\ \A q \in EpochRuns(s) : LaterRecorded(r, q)}

TechnicallyClear(s) ==
  \E r \in Counted(s) : r.result = "TECHNICAL_PASS" /\ r.issues = {}

Superseded(assessments) == {a.supersedes : a \in assessments}

Heads(s, gate) ==
  {a \in s.assessments : a.gate = gate /\ a.id \notin Superseded(s.assessments)}

CurrentHeads(s, gate) == {a \in Heads(s, gate) : a.digest = Digest(s)}

\* A review at `reviewed' is fresh against b: made after the whole window,
\* or made before it while it is still ahead.  An unknown or future review
\* time counts only while the window is ahead.
Fresh(b, reviewed, now) ==
  IF reviewed = UnknownTime \/ reviewed > now
  THEN now < b.from
  ELSE b.to <= reviewed \/ (reviewed < b.from /\ now < b.from)

SupportsIntact(s) == s.link = "LINKED" /\ s.standing[SupportSource]

\* (mutant) The sources an ask cites are checked when recorded, never again.
AsksResolvedOnce(s, a) == a.gate = "G6" /\ Reply => a.asks = "RESOLVED"

AsksResolved(s, a) ==
  a.gate = "G6" /\ Reply => a.asks = "RESOLVED" /\ \A x \in a.cites : s.standing[x]

GatePasses(s, gate, now) ==
  \E a \in CurrentHeads(s, gate) :
    /\ CurrentHeads(s, gate) = {a}
    /\ a.result = "CONFIRMED"
    /\ SupportsIntact(s)
    /\ AsksResolved(s, a)
    /\ gate = "G1" => \A b \in Boundaries[s.authority] : Fresh(b, a.assessedAt, now)

\* READY_FOR_SIGNER: evaluateReadiness finds no reason code.
Ready(s, now) ==
  /\ ~s.superseded
  /\ ~s.archived
  /\ s.authority \notin Conflicted
  /\ TechnicallyClear(s)
  /\ \A b \in Starts[s.authority] : b.to <= now
  /\ \A gate \in Gates : GatePasses(s, gate, now)

\* exportRefusal finds nothing to refuse a request for epoch `digest' and `run'.
Releases(s, now, digest, run) ==
  /\ digest = Digest(s)
  /\ Ready(s, now)
  /\ \E r \in Counted(s) : r.id = run

----------------------------------------------------------------------------
NoRequest ==
  [stage |-> "IDLE", receivedAt |-> 0, digest |-> PromptDigest,
   usable |-> {}, issues |-> {}, thrown |-> FALSE]

Ended == [NoRequest EXCEPT !.stage = "DONE"]

\* The case as a candidate with this plan was imported from its prompt: an
\* import refuses a planned source that does not apply.
Imported(plan) ==
  [revision |-> 0, archived |-> FALSE, link |-> "LINKED",
   authority |-> FirstAuthority, standing |-> [x \in Sources |-> TRUE],
   plan |-> plan, superseded |-> FALSE, runs |-> {}, assessments |-> {}]

Init ==
  /\ clock = 0
  /\ \E plan \in Plans : db = Imported(plan)
  /\ validations = [v \in Validators |-> NoRequest]
  /\ exports = {}
  /\ replays = {}

(* ------------------------------ the context ---------------------------- *)

\* A material write of the case - an intake record, a route, a new authority
\* selection - moves contextRevision in its own transaction (touchCase).
TouchCase(authority) ==
  /\ ~db.archived /\ db.revision < MaxRevision
  /\ db' = [db EXCEPT !.revision = @ + 1, !.authority = authority]
  /\ UNCHANGED <<clock, validations, exports, replays>>

\* setCaseSourceLinkState on the link that supports the reviews.
SetLinkState(state) ==
  /\ ~db.archived /\ db.revision < MaxRevision
  /\ db.link # state
  /\ state = "LINKED" => db.standing[SupportSource]
  /\ db' = [db EXCEPT !.link = state, !.revision = @ + 1]
  /\ UNCHANGED <<clock, validations, exports, replays>>

\* ArchiveCase and RestoreCase change the flag and no contextRevision.
ArchiveOrRestore ==
  /\ db' = [db EXCEPT !.archived = ~@]
  /\ UNCHANGED <<clock, validations, exports, replays>>

\* The authority's records change (an event, a coverage's successor, a
\* restored party): no write of the case.
ChangeAuthority(authority) ==
  /\ db' = [db EXCEPT !.authority = authority]
  /\ UNCHANGED <<clock, validations, exports, replays>>

\* Another record comes to use, or stops using, a source: it starts or stops
\* applying to this case.
ChangeStanding(x) ==
  /\ db' = [db EXCEPT !.standing[x] = ~@]
  /\ UNCHANGED <<clock, validations, exports, replays>>

\* supersedeCandidate
Supersede ==
  /\ ~db.archived /\ ~db.superseded
  /\ db' = [db EXCEPT !.superseded = TRUE]
  /\ UNCHANGED <<clock, validations, exports, replays>>

Tick ==
  /\ clock < MaxTime
  /\ clock' = clock + 1
  /\ UNCHANGED <<db, validations, exports, replays>>

(* ------------------------------ validation ----------------------------- *)

\* The request's instant is sampled here; it becomes the run's createdAt.
Receive(v) ==
  /\ validations[v].stage = "IDLE"
  /\ validations' = [validations EXCEPT ![v].stage = "RECEIVED",
                                        ![v].receivedAt = clock]
  /\ UNCHANGED <<clock, db, exports, replays>>

\* What a request carries from its snapshot to its commit.
Captured(w, thrown) ==
  [w EXCEPT !.stage = "CAPTURED",
            !.digest = Digest(db),
            !.usable = PlanFingerprint(db.plan, db.standing),
            !.issues = IF thrown THEN {} ELSE Findings(Digest(db), db.plan, db.standing),
            !.thrown = thrown]

\* One snapshot, then the rules outside any transaction; a rule may throw.
\* A request that names another digest, or an archived case, is refused.
Capture(v) ==
  /\ validations[v].stage = "RECEIVED"
  /\ \/ /\ ~db.archived
        /\ \E thrown \in BOOLEAN :
             validations' = [validations EXCEPT ![v] = Captured(@, thrown)]
     \/ validations' = [validations EXCEPT ![v] = Ended]
  /\ UNCHANGED <<clock, db, exports, replays>>

RunOf(w, id) ==
  [id |-> id, digest |-> w.digest, issues |-> w.issues, createdAt |-> w.receivedAt,
   result |-> IF w.thrown THEN "ERROR" ELSE ResultOf(w.issues)]

\* The commit's recheck, under the case lock.
StillCurrent(w) ==
  /\ ~db.archived
  /\ w.digest = Digest(db)
  /\ w.usable = PlanFingerprint(db.plan, db.standing)

Unrecorded == {id \in RunIds : \A r \in db.runs : r.id # id}

Commit(v) ==
  /\ validations[v].stage = "CAPTURED"
  /\ IF StillCurrent(validations[v])
     THEN \E id \in Unrecorded :
            db' = [db EXCEPT !.runs = @ \union {RunOf(validations[v], id)}]
     ELSE db' = db
  /\ validations' = [validations EXCEPT ![v] = Ended]
  /\ UNCHANGED <<clock, exports, replays>>

(* ------------------------------ assessment ----------------------------- *)

\* What a capture may record.  CONFIRMED is a PASS confirmed for the candidate,
\* PASS one recorded and not adopted, HOLD any other result.  Ask dispositions
\* answer the parent the prompt named, which only a reply's prompt names;
\* they are evaluated for G6 alone, as the review time is for G1.
Reviews ==
  {review \in [gate : Gates, result : ReviewResults, asks : AskRecords,
                cites : SUBSET Sources, assessedAt : ReviewTimes \union {UnknownTime},
                supersedes : AssessmentIds \union {NoAssessment}] :
     /\ review.gate # "G6" \/ ~Reply => review.asks = "NONE"
     /\ review.asks = "NONE" => review.cites = {}
     /\ review.gate # "G1" => review.assessedAt = UnknownTime}

\* (mutant) Any assessment of the gate may be superseded, head or not.
MaySupersedeAny(review) ==
  \/ review.supersedes = NoAssessment
  \/ \E a \in db.assessments : a.id = review.supersedes /\ a.gate = review.gate

\* The record a new assessment may supersede: none, or the head of a chain
\* of the same gate, of whatever epoch.
MaySupersede(review) ==
  \/ review.supersedes = NoAssessment
  \/ \E a \in db.assessments :
       /\ a.id = review.supersedes
       /\ a.gate = review.gate
       /\ a.id \notin Superseded(db.assessments)

\* Supports are linked and, for a PASS, apply; so do the sources asks cite.
SourcesUsable(review) ==
  /\ db.link = "LINKED"
  /\ review.result # "HOLD" => db.standing[SupportSource]
  /\ \A x \in review.cites : db.standing[x]

AssessmentOf(review, id) ==
  [id |-> id, digest |-> Digest(db), gate |-> review.gate, result |-> review.result,
   asks |-> review.asks, cites |-> review.cites, assessedAt |-> review.assessedAt,
   supersedes |-> review.supersedes]

Assessable(review) ==
  ~db.archived /\ EpochRuns(db) # {} /\ MaySupersede(review) /\ SourcesUsable(review)

Assess(review) ==
  /\ Assessable(review)
  /\ \E id \in AssessmentIds :
       /\ \A a \in db.assessments : a.id # id
       /\ db' = [db EXCEPT !.assessments = @ \union {AssessmentOf(review, id)}]
  /\ UNCHANGED <<clock, validations, exports, replays>>

(* --------------------------- export and replay ------------------------- *)

\* One SERIALIZABLE transaction: a refused request leaves nothing behind.
Export(digest, run) ==
  /\ Cardinality(exports) < MaxExports
  /\ Releases(db, clock, digest, run)
  /\ exports' = exports \union {[digest |-> digest, run |-> run, at |-> clock]}
  /\ UNCHANGED <<clock, db, validations, replays>>

\* A replay of a completed export arrives ...
ReceiveReplay(kept) ==
  /\ Cardinality(replays) < MaxReplays
  /\ replays' = replays \union {[stage |-> "RECEIVED", export |-> kept,
                                 snapshot |-> Imported({}), receivedAt |-> clock,
                                 readAt |-> clock]}
  /\ UNCHANGED <<clock, db, validations, exports>>

\* ... reads in one snapshot ...
ReadForReplay(p) ==
  /\ p.stage = "RECEIVED"
  /\ replays' = (replays \ {p})
                  \union {[p EXCEPT !.stage = "READ", !.snapshot = db, !.readAt = clock]}
  /\ UNCHANGED <<clock, db, validations, exports>>

\* (mutant) The guard judges at the request's own instant.
JudgedAtReceipt(p) == p.receivedAt

\* ... and samples its own instant after the reads it judges.
JudgedAt(p) == clock

JudgeReplay(p) ==
  /\ p.stage = "READ"
  /\ replays' = (replays \ {p}) \union
       {[p EXCEPT !.stage =
           IF Releases(p.snapshot, JudgedAt(p), p.export.digest, p.export.run)
           THEN "RELEASED" ELSE "REFUSED"]}
  /\ UNCHANGED <<clock, db, validations, exports>>

----------------------------------------------------------------------------
Context ==
  \/ \E a \in Authorities : TouchCase(a) \/ ChangeAuthority(a)
  \/ \E state \in LinkStates : SetLinkState(state)
  \/ \E x \in Sources : ChangeStanding(x)
  \/ ArchiveOrRestore
  \/ Supersede

Validate == \E v \in Validators : Receive(v) \/ Capture(v) \/ Commit(v)

Release ==
  \/ \E r \in db.runs : Export(r.digest, r.id)
  \/ \E e \in exports : ReceiveReplay(e)
  \/ \E p \in replays : ReadForReplay(p) \/ JudgeReplay(p)

Next == Tick \/ Context \/ Validate \/ (\E review \in Reviews : Assess(review)) \/ Release

Spec == Init /\ [][Next]_vars
----------------------------------------------------------------------------
(* Properties.                                                             *)

Runs ==
  [id : RunIds, digest : Digests, issues : SUBSET Rules, createdAt : Time,
   result : Results]

Assessments ==
  [id : AssessmentIds, digest : Digests, gate : Gates, result : ReviewResults,
   asks : AskRecords, cites : SUBSET Sources,
   assessedAt : ReviewTimes \union {UnknownTime}, supersedes : AssessmentIds \union {NoAssessment}]

Databases ==
  [revision : 0 .. MaxRevision, archived : BOOLEAN, link : LinkStates,
   authority : Authorities, standing : Standings, plan : SUBSET Sources,
   superseded : BOOLEAN, runs : SUBSET Runs, assessments : SUBSET Assessments]

Validations ==
  [stage : {"IDLE", "RECEIVED", "CAPTURED", "DONE"}, receivedAt : Time,
   digest : Digests, usable : SUBSET Sources, issues : SUBSET Rules,
   thrown : BOOLEAN]

Exports == [digest : Digests, run : RunIds, at : Time]

Replays ==
  [stage : {"RECEIVED", "READ", "RELEASED", "REFUSED"}, export : Exports,
   snapshot : Databases, receivedAt : Time, readAt : Time]

\* The variables keep their types: stored records, requests in progress and
\* kept exports stay within what the code writes.
TypeOK ==
  /\ clock \in Time
  /\ db \in Databases
  /\ validations \in [Validators -> Validations]
  /\ exports \subseteq Exports
  /\ replays \subseteq Replays

\* No run of an epoch that holds a TECHNICAL_PASS disagrees with it, unless it
\* did not complete: a PASS can never be contradicted by a re-run of the same
\* digest, although the digest covers neither the plan's unlisted sources nor
\* what another record makes of them (PLAN.SOURCE_IN_CONTEXT sees to it).
PassIsUnanimous ==
  \A r, q \in db.runs :
    r.digest = q.digest /\ r.result = "TECHNICAL_PASS" /\ Completed(q)
      => q.result = "TECHNICAL_PASS" /\ q.issues = r.issues

\* A run is recorded only while what it evaluated is still what the database
\* says: evaluating the rules again at the instant of the commit finds the
\* same issues, however long ago the snapshot was taken, and a writable case.
RunsAreCurrent ==
  [][\A r \in db'.runs \ db.runs :
       /\ ~db.archived
       /\ r.digest = Digest(db)
       /\ Completed(r) => r.issues = Findings(Digest(db), db.plan, db.standing)]_vars

\* A PASS of the current epoch still stands on its supports: every change to
\* a case link or to a listed source's applicability moves the digest, so the
\* support checks of evaluateGate only ever meet corrupt rows (ADR-0011 7).
SupportsHold ==
  \A a \in db.assessments :
    a.result # "HOLD" /\ a.digest = Digest(db) => SupportsIntact(db)

\* The stored supersession chains are sound, so that no reader answers 500:
\* a record supersedes one of its own gate, no record has two successors, and
\* a gate with history has a head.
ChainsSound ==
  LET assessments == db.assessments IN
  /\ \A a, b \in assessments :
       /\ a.id = b.id => a = b
       /\ a.supersedes = b.supersedes /\ a.supersedes # NoAssessment => a = b
  /\ \A a \in assessments : a.supersedes # NoAssessment =>
       \E b \in assessments : b.id = a.supersedes /\ b.gate = a.gate
  /\ \A gate \in Gates :
       (\E a \in assessments : a.gate = gate) => Heads(db, gate) # {}

\* The review of `a' was made after every boundary of the authority that may
\* have been reached by `now'.
ReviewedSince(a, authority, now) ==
  \A b \in Boundaries[authority] : b.from <= now => b.to <= a.assessedAt

\* Each gate has one unsuperseded review of the current epoch, a confirmed
\* PASS.
OnePassPerGate(s) ==
  \A gate \in Gates :
    \E a \in CurrentHeads(s, gate) :
      CurrentHeads(s, gate) = {a} /\ a.result = "CONFIRMED"

\* Nothing is exported that the database of that instant would not clear: the
\* technical rules evaluated afresh on the present context and the present
\* plan sources find nothing, the case is open and the candidate active, every
\* gate's one current conclusion is a PASS on sources that apply, and G1 was
\* reviewed after every boundary the authority may have reached, by now.
ExportsAreSound ==
  [][exports' # exports =>
       /\ ~db.archived /\ ~db.superseded
       /\ Findings(Digest(db), db.plan, db.standing) = {}
       /\ OnePassPerGate(db)
       /\ \A gate \in Gates : \A a \in CurrentHeads(db, gate) :
            /\ a.gate = "G6" /\ Reply =>
                 a.asks = "RESOLVED" /\ \A x \in a.cites : db.standing[x]
            /\ a.gate = "G1" => /\ ReviewedSince(a, db.authority, clock)
                                /\ \/ a.assessedAt <= clock
                                   \/ \A b \in Boundaries[db.authority] : clock < b.from]_vars

\* The passing of time alone never makes a candidate ready, except by reaching
\* a review time that a reviewer had stated in the future: effective dates
\* arrive, but then the review must have followed them.
TimeReadiesOnlyFutureReviews ==
  [][Ready(db, clock') /\ ~Ready(db, clock) =>
       \E a \in CurrentHeads(db, "G1") : a.assessedAt > clock]_clock

\* A replay that released the export judged it no earlier than its reads: its
\* snapshot cleared the candidate, and G1 was reviewed after every boundary
\* the authority may have reached when the snapshot was taken.
ReplaysRespectBoundaries ==
  \A p \in replays : p.stage = "RELEASED" =>
    /\ ~p.snapshot.superseded
    /\ Findings(p.export.digest, p.snapshot.plan, p.snapshot.standing) = {}
    /\ \A a \in CurrentHeads(p.snapshot, "G1") :
         "G1" \in Gates => ReviewedSince(a, p.snapshot.authority, p.readAt)

\* What ADR-0011 Decision 4 says of a newer diagnostic run: once a run that
\* did not complete is recorded, no older PASS is relied on.
LatestRecordedRunCounts ==
  [][\A r \in db'.runs \ db.runs :
       r.result = "ERROR" => ~\E q \in Counted(db') : q.result = "TECHNICAL_PASS"]_vars
=============================================================================
