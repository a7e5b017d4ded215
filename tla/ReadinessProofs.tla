--------------------------- MODULE ReadinessProofs ---------------------------
(* Proofs about Readiness for every set of gates, sources, boundaries, runs *)
(* and reviews, and about the form that records the reviews.                *)
EXTENDS AssessmentPages, TLAPS

----------------------------------------------------------------------------
(* The inductive invariant.                                                *)

\* The issues are what the rules find for `digest' and some standing of the
\* sources that agrees with the digest on the listed ones.
Evaluates(issues, digest, plan, standing) ==
  /\ \A x \in Listed : standing[x] = digest.standing[x]
  /\ issues = Findings(digest, plan, standing)

\* A completed run of s was evaluated for its own digest.
RunsEvaluated(s) ==
  \A r \in s.runs : Completed(r) =>
    /\ r.result = ResultOf(r.issues)
    /\ \E standing \in Standings : Evaluates(r.issues, r.digest, s.plan, standing)

\* So was a captured request, and its fingerprint is of the same standing.
CapturesEvaluated ==
  \A v \in Validators :
    validations[v].stage = "CAPTURED" /\ ~validations[v].thrown =>
      \E standing \in Standings :
        /\ Evaluates(validations[v].issues, validations[v].digest, db.plan, standing)
        /\ validations[v].usable = PlanFingerprint(db.plan, standing)

\* A PASS was recorded on a linked support that applied.
ReviewsSupported ==
  \A a \in db.assessments : a.result # "HOLD" =>
    a.digest.link = "LINKED" /\ a.digest.standing[SupportSource]

\* A replay has read no later than now, a database as sound as this one.
ReplaysRead ==
  \A p \in replays : p.readAt <= clock /\ RunsEvaluated(p.snapshot)

IInv ==
  /\ TypeOK
  /\ RunsEvaluated(db)
  /\ CapturesEvaluated
  /\ ReviewsSupported
  /\ ChainsSound
  /\ ReplaysRead
  /\ ReplaysRespectBoundaries

----------------------------------------------------------------------------
(* Lemmas on the operators.                                                *)

LEMMA DigestType ==
  ASSUME NEW s \in Databases
  PROVE  Digest(s) \in Digests
  BY SourcesAssumption DEF Databases, Digest, Digests, Standings

LEMMA PromptDigestType == PromptDigest \in Digests
  BY AuthoritiesAssumption, BoundsAssumption
  DEF PromptDigest, Digests, LinkStates

LEMMA ImportedType ==
  ASSUME NEW plan \in SUBSET Sources
  PROVE  Imported(plan) \in Databases
  BY AuthoritiesAssumption, BoundsAssumption
  DEF Imported, Databases, LinkStates, Standings

LEMMA EndedType == NoRequest \in Validations /\ Ended \in Validations
  <1>1. 0 \in Time
    BY BoundsAssumption DEF Time
  <1>2. NoRequest \in Validations
    BY <1>1, PromptDigestType DEF NoRequest, Validations
  <1> QED
    BY <1>2 DEF Ended, Validations

LEMMA ResultType ==
  ASSUME NEW issues
  PROVE  ResultOf(issues) \in Results /\ ResultOf(issues) # "ERROR"
  BY DEF ResultOf, Results

\* What the rules find depends on the sources only through the fingerprint.
LEMMA FingerprintDecides ==
  ASSUME NEW d, NEW plan, NEW st1 \in Standings, NEW st2 \in Standings,
         plan \subseteq Sources,
         PlanFingerprint(plan, st1) = PlanFingerprint(plan, st2)
  PROVE  Findings(d, plan, st1) = Findings(d, plan, st2)
  <1>1. \A x \in plan : st1[x] <=> st2[x]
    BY DEF PlanFingerprint
  <1>2. \A rule : Reports(rule, d, plan, st1) <=> Reports(rule, d, plan, st2)
    BY <1>1 DEF Reports
  <1> QED
    BY <1>2 DEF Findings

\* An evaluation that finds nothing holds for every standing that agrees with
\* the digest: the plan is then within the listed sources.
LEMMA NothingFoundIsDigestBound ==
  ASSUME NEW digest, NEW plan, NEW st \in Standings, NEW now \in Standings,
         plan \subseteq Sources,
         Evaluates({}, digest, plan, st),
         \A x \in Listed : now[x] = digest.standing[x]
  PROVE  Findings(digest, plan, now) = {}
  <1>1. plan \subseteq Listed
    BY DEF Evaluates, Findings, Reports, Rules
  <1>2. PlanFingerprint(plan, st) = PlanFingerprint(plan, now)
    BY <1>1 DEF Evaluates, PlanFingerprint
  <1> QED
    BY <1>2, FingerprintDecides DEF Evaluates

----------------------------------------------------------------------------
(* Type correctness.                                                       *)

\* What every step of the context leaves alone.
Frame ==
  /\ db'.plan = db.plan /\ db'.runs = db.runs /\ db'.assessments = db.assessments
  /\ UNCHANGED <<clock, validations, exports, replays>>

LEMMA ContextFrame ==
  ASSUME TypeOK, Context
  PROVE  db' \in Databases /\ Frame
  <1> USE DEF TypeOK, Databases, Frame
  <1>1. ASSUME NEW a \in Authorities, TouchCase(a) PROVE db' \in Databases /\ Frame
    <2>1. db.revision + 1 \in 0 .. MaxRevision
      BY <1>1, BoundsAssumption DEF TouchCase
    <2> QED
      BY <1>1, <2>1 DEF TouchCase
  <1>2. ASSUME NEW a \in Authorities, ChangeAuthority(a) PROVE db' \in Databases /\ Frame
    BY <1>2 DEF ChangeAuthority
  <1>3. ASSUME NEW state \in LinkStates, SetLinkState(state)
        PROVE  db' \in Databases /\ Frame
    <2>1. db.revision + 1 \in 0 .. MaxRevision
      BY <1>3, BoundsAssumption DEF SetLinkState
    <2> QED
      BY <1>3, <2>1 DEF SetLinkState
  <1>4. ASSUME NEW x \in Sources, ChangeStanding(x) PROVE db' \in Databases /\ Frame
    BY <1>4 DEF ChangeStanding, Standings
  <1>5. CASE ArchiveOrRestore
    BY <1>5 DEF ArchiveOrRestore
  <1>6. CASE Supersede
    BY <1>6 DEF Supersede
  <1> QED
    BY <1>1, <1>2, <1>3, <1>4, <1>5, <1>6 DEF Context

LEMMA ReviewTypes ==
  ASSUME NEW review \in Reviews
  PROVE  /\ review.gate \in Gates /\ review.result \in ReviewResults
         /\ review.asks \in AskRecords /\ review.cites \in SUBSET Sources
         /\ review.assessedAt \in ReviewTimes \union {UnknownTime}
         /\ review.supersedes \in AssessmentIds \union {NoAssessment}
  BY DEF Reviews

LEMMA AssessmentType ==
  ASSUME TypeOK, NEW review \in Reviews, NEW id \in AssessmentIds
  PROVE  AssessmentOf(review, id) \in Assessments
  <1>1. Digest(db) \in Digests
    BY DigestType DEF TypeOK
  <1> QED
    BY <1>1, ReviewTypes DEF AssessmentOf, Assessments

LEMMA RunType ==
  ASSUME NEW w \in Validations, NEW id \in RunIds
  PROVE  RunOf(w, id) \in Runs
  BY ResultType DEF RunOf, Runs, Validations, Results

LEMMA TypeStep ==
  ASSUME TypeOK, [Next]_vars
  PROVE  TypeOK'
  <1> USE DEF TypeOK
  <1>1. CASE Tick
    BY <1>1, BoundsAssumption DEF Tick, Time
  <1>2. CASE Context
    BY <1>2, ContextFrame DEF Frame
  <1>3. ASSUME NEW v \in Validators, Receive(v) PROVE TypeOK'
    BY <1>3 DEF Receive, Validations
  <1>4. ASSUME NEW v \in Validators, Capture(v) PROVE TypeOK'
    <2>1. Digest(db) \in Digests
      BY DigestType
    <2>2. PlanFingerprint(db.plan, db.standing) \in SUBSET Sources
      BY DEF PlanFingerprint, Databases
    <2>3. Findings(Digest(db), db.plan, db.standing) \in SUBSET Rules
      BY DEF Findings
    <2>4. validations' \in [Validators -> Validations]
      <3>1. ASSUME NEW thrown \in BOOLEAN
            PROVE  Captured(validations[v], thrown) \in Validations
        BY <2>1, <2>2, <2>3 DEF Captured, Validations
      <3> QED
        BY <1>4, <3>1, EndedType DEF Capture
    <2> QED
      BY <1>4, <2>4 DEF Capture
  <1>5. ASSUME NEW v \in Validators, Commit(v) PROVE TypeOK'
    <2>1. db' \in Databases
      <3>1. ASSUME NEW id \in RunIds,
                   db' = [db EXCEPT !.runs = @ \union {RunOf(validations[v], id)}]
            PROVE  db' \in Databases
        BY <3>1, RunType DEF Databases
      <3> QED
        BY <1>5, <3>1 DEF Commit, Unrecorded
    <2> QED
      BY <1>5, <2>1, EndedType DEF Commit
  <1>6. ASSUME NEW review \in Reviews, Assess(review) PROVE TypeOK'
    BY <1>6, AssessmentType DEF Assess, Databases
  <1>7. ASSUME NEW r \in db.runs, Export(r.digest, r.id) PROVE TypeOK'
    <2>1. r.digest \in Digests /\ r.id \in RunIds
      BY DEF Databases, Runs
    <2> QED
      BY <1>7, <2>1 DEF Export, Exports
  <1>8. ASSUME NEW e \in exports, ReceiveReplay(e) PROVE TypeOK'
    BY <1>8, ImportedType DEF ReceiveReplay, Replays
  <1>9. ASSUME NEW p \in replays, ReadForReplay(p) \/ JudgeReplay(p) PROVE TypeOK'
    BY <1>9 DEF ReadForReplay, JudgeReplay, Replays
  <1>10. CASE UNCHANGED vars
    BY <1>10 DEF vars
  <1> QED
    BY <1>1, <1>2, <1>3, <1>4, <1>5, <1>6, <1>7, <1>8, <1>9, <1>10
    DEF Next, Validate, Release

----------------------------------------------------------------------------
(* Runs and captures.                                                      *)

\* What a capture or a commit does to the evaluations, every other step leaves.
LEMMA EvaluatedStep ==
  ASSUME TypeOK, RunsEvaluated(db), CapturesEvaluated, [Next]_vars
  PROVE  RunsEvaluated(db)' /\ CapturesEvaluated' /\ db'.plan = db.plan
  <1>1. ASSUME UNCHANGED validations, db'.runs = db.runs, db'.plan = db.plan
        PROVE  RunsEvaluated(db)' /\ CapturesEvaluated' /\ db'.plan = db.plan
    BY <1>1 DEF RunsEvaluated, CapturesEvaluated
  <1>2. ASSUME NEW v \in Validators, Receive(v)
        PROVE  RunsEvaluated(db)' /\ CapturesEvaluated' /\ db'.plan = db.plan
    BY <1>2 DEF Receive, RunsEvaluated, CapturesEvaluated, TypeOK, Validations
  <1>3. ASSUME NEW v \in Validators, Capture(v)
        PROVE  RunsEvaluated(db)' /\ CapturesEvaluated' /\ db'.plan = db.plan
    <2>1. Evaluates(Findings(Digest(db), db.plan, db.standing), Digest(db),
                    db.plan, db.standing)
      BY SourcesAssumption DEF Evaluates, Digest
    <2>2. db.standing \in Standings
      BY DEF TypeOK, Databases
    <2>3. ASSUME NEW u \in Validators,
                 validations'[u].stage = "CAPTURED", ~validations'[u].thrown
          PROVE  \E standing \in Standings :
                   /\ Evaluates(validations'[u].issues, validations'[u].digest,
                                db.plan, standing)
                   /\ validations'[u].usable = PlanFingerprint(db.plan, standing)
      <3>1. CASE validations'[u] = validations[u]
        BY <2>3, <3>1 DEF CapturesEvaluated
      <3>2. ASSUME NEW thrown \in BOOLEAN,
                   validations'[u] = Captured(validations[u], thrown)
            PROVE  \E standing \in Standings :
                     /\ Evaluates(validations'[u].issues, validations'[u].digest,
                                  db.plan, standing)
                     /\ validations'[u].usable = PlanFingerprint(db.plan, standing)
        <4>1. /\ validations'[u].digest = Digest(db)
              /\ validations'[u].usable = PlanFingerprint(db.plan, db.standing)
              /\ validations'[u].issues = IF thrown THEN {}
                   ELSE Findings(Digest(db), db.plan, db.standing)
              /\ validations'[u].thrown = thrown
          BY <3>2 DEF Captured, TypeOK, Validations
        <4> QED
          BY <2>1, <2>2, <2>3, <4>1
      <3>3. validations'[u] # Ended
        BY <2>3 DEF Ended, NoRequest
      <3> QED
        BY <1>3, <3>1, <3>2, <3>3 DEF Capture, TypeOK
    <2>4. UNCHANGED db
      BY <1>3 DEF Capture
    <2> QED
      BY <2>3, <2>4 DEF CapturesEvaluated, RunsEvaluated
  <1>4. ASSUME NEW v \in Validators, Commit(v)
        PROVE  RunsEvaluated(db)' /\ CapturesEvaluated' /\ db'.plan = db.plan
    <2>1. db'.plan = db.plan
      BY <1>4 DEF Commit, TypeOK, Databases
    <2>2. CapturesEvaluated'
      BY <1>4, <2>1 DEF Commit, CapturesEvaluated, Ended, NoRequest, TypeOK
    <2>3. ASSUME NEW r \in db'.runs, r \notin db.runs, Completed(r)
          PROVE  /\ r.result = ResultOf(r.issues)
                 /\ \E standing \in Standings :
                      Evaluates(r.issues, r.digest, db.plan, standing)
      <3>1. PICK id \in RunIds : r = RunOf(validations[v], id)
        BY <1>4, <2>3 DEF Commit, Unrecorded, TypeOK, Databases
      <3>2. ~validations[v].thrown /\ validations[v].stage = "CAPTURED"
        BY <1>4, <2>3, <3>1 DEF Commit, RunOf, Completed
      <3>3. /\ r.result = ResultOf(r.issues) /\ r.issues = validations[v].issues
            /\ r.digest = validations[v].digest
        BY <3>1, <3>2 DEF RunOf
      <3> QED
        BY <3>2, <3>3 DEF CapturesEvaluated
    <2> QED
      BY <2>1, <2>2, <2>3 DEF RunsEvaluated
  <1>5. ASSUME NEW review \in Reviews, Assess(review)
        PROVE  UNCHANGED validations /\ db'.runs = db.runs /\ db'.plan = db.plan
    BY <1>5 DEF Assess, TypeOK, Databases
  <1>6. Release => UNCHANGED <<validations, db>>
    BY DEF Release, Export, ReceiveReplay, ReadForReplay, JudgeReplay
  <1>7. Context => UNCHANGED validations /\ db'.runs = db.runs /\ db'.plan = db.plan
    BY ContextFrame DEF Frame
  <1>8. Tick \/ UNCHANGED vars => UNCHANGED <<validations, db>>
    BY DEF Tick, vars
  <1> QED
    BY <1>1, <1>2, <1>3, <1>4, <1>5, <1>6, <1>7, <1>8 DEF Next, Validate

\* The sources of a captured request's standing and of the present one differ
\* only where neither the digest nor the fingerprint looks.
LEMMA CommitIsCurrent ==
  ASSUME TypeOK, CapturesEvaluated, NEW v \in Validators,
         validations[v].stage = "CAPTURED", ~validations[v].thrown,
         StillCurrent(validations[v])
  PROVE  validations[v].issues = Findings(Digest(db), db.plan, db.standing)
  <1>1. PICK st \in Standings :
          /\ Evaluates(validations[v].issues, validations[v].digest, db.plan, st)
          /\ validations[v].usable = PlanFingerprint(db.plan, st)
    BY DEF CapturesEvaluated
  <1>2. db.standing \in Standings /\ db.plan \subseteq Sources
    BY DEF TypeOK, Databases
  <1>3. PlanFingerprint(db.plan, st) = PlanFingerprint(db.plan, db.standing)
    BY <1>1 DEF StillCurrent
  <1>4. Findings(Digest(db), db.plan, st) = Findings(Digest(db), db.plan, db.standing)
    BY <1>2, <1>3, FingerprintDecides
  <1> QED
    BY <1>1, <1>4 DEF StillCurrent, Evaluates

LEMMA RunsCurrentStep ==
  ASSUME TypeOK, CapturesEvaluated, [Next]_vars, NEW r \in db'.runs \ db.runs
  PROVE  /\ ~db.archived
         /\ r.digest = Digest(db)
         /\ Completed(r) => r.issues = Findings(Digest(db), db.plan, db.standing)
  <1>1. ASSUME NEW v \in Validators, Commit(v)
        PROVE  /\ ~db.archived
               /\ r.digest = Digest(db)
               /\ Completed(r) => r.issues = Findings(Digest(db), db.plan, db.standing)
    <2>1. StillCurrent(validations[v]) /\ validations[v].stage = "CAPTURED"
      BY <1>1 DEF Commit
    <2>2. PICK id \in RunIds : r = RunOf(validations[v], id)
      BY <1>1, <2>1 DEF Commit, Unrecorded, TypeOK, Databases
    <2>3. Completed(r) => ~validations[v].thrown
      BY <2>2 DEF RunOf, Completed
    <2> QED
      BY <2>1, <2>2, <2>3, CommitIsCurrent DEF RunOf, StillCurrent
  <1>2. \A review \in Reviews : Assess(review) => db'.runs = db.runs
    BY DEF Assess, TypeOK, Databases
  <1>3. Context => db'.runs = db.runs
    BY ContextFrame DEF Frame
  <1>4. ~(Tick \/ Release \/ UNCHANGED vars \/ \E v \in Validators : Receive(v) \/ Capture(v))
    BY DEF Tick, Release, Export, ReceiveReplay, ReadForReplay, JudgeReplay,
       Receive, Capture, vars
  <1> QED
    BY <1>1, <1>2, <1>3, <1>4 DEF Next, Validate

\* A PASS found nothing, so any completed run of its digest found nothing.
LEMMA PassesAgree ==
  ASSUME TypeOK, RunsEvaluated(db)
  PROVE  PassIsUnanimous
  <1> SUFFICES ASSUME NEW r \in db.runs, NEW q \in db.runs,
                      r.digest = q.digest, r.result = "TECHNICAL_PASS", Completed(q)
               PROVE  q.result = "TECHNICAL_PASS" /\ q.issues = r.issues
    BY DEF PassIsUnanimous
  <1>1. r.issues = {}
    BY DEF RunsEvaluated, Completed, ResultOf
  <1>2. PICK st \in Standings : Evaluates({}, r.digest, db.plan, st)
    BY <1>1 DEF RunsEvaluated, Completed
  <1>3. PICK st2 \in Standings : Evaluates(q.issues, q.digest, db.plan, st2)
    BY DEF RunsEvaluated
  <1>4. \A x \in Listed : st2[x] = r.digest.standing[x]
    BY <1>3 DEF Evaluates
  <1>5. db.plan \subseteq Sources
    BY DEF TypeOK, Databases
  <1>6. Findings(r.digest, db.plan, st2) = {}
    BY <1>2, <1>4, <1>5, NothingFoundIsDigestBound
  <1>7. q.issues = {}
    BY <1>3, <1>6 DEF Evaluates
  <1> QED
    BY <1>1, <1>7 DEF RunsEvaluated, ResultOf

----------------------------------------------------------------------------
(* Reviews and their chains.                                               *)

LEMMA AssessEffect ==
  ASSUME TypeOK, NEW review \in Reviews, Assess(review)
  PROVE  \E id \in AssessmentIds :
           /\ \A a \in db.assessments : a.id # id
           /\ db'.assessments = db.assessments \union {AssessmentOf(review, id)}
  BY DEF Assess, TypeOK, Databases

LEMMA AssessmentsKept ==
  ASSUME TypeOK, [Next]_vars, ~\E review \in Reviews : Assess(review)
  PROVE  db'.assessments = db.assessments
  <1>1. \A v \in Validators : Commit(v) => db'.assessments = db.assessments
    BY DEF Commit, TypeOK, Databases
  <1>2. Context => db'.assessments = db.assessments
    BY ContextFrame DEF Frame
  <1>3. (Tick \/ Release \/ UNCHANGED vars \/ \E v \in Validators : Receive(v) \/ Capture(v))
          => UNCHANGED db
    BY DEF Tick, Release, Export, ReceiveReplay, ReadForReplay, JudgeReplay,
       Receive, Capture, vars
  <1> QED
    BY <1>1, <1>2, <1>3 DEF Next, Validate

LEMMA ReviewsStep ==
  ASSUME TypeOK, ReviewsSupported, [Next]_vars
  PROVE  ReviewsSupported'
  <1>1. ASSUME NEW review \in Reviews, Assess(review)
        PROVE  ReviewsSupported'
    <2>1. PICK id \in AssessmentIds :
            db'.assessments = db.assessments \union {AssessmentOf(review, id)}
      BY <1>1, AssessEffect
    <2>2. SourcesUsable(review)
      BY <1>1 DEF Assess, Assessable
    <2>3. LET a == AssessmentOf(review, id) IN
          a.result # "HOLD" => a.digest.link = "LINKED" /\ a.digest.standing[SupportSource]
      BY <2>2, SourcesAssumption DEF AssessmentOf, SourcesUsable, Digest
    <2> QED
      BY <2>1, <2>3 DEF ReviewsSupported
  <1> QED
    BY <1>1, AssessmentsKept DEF ReviewsSupported

\* A PASS of the current digest is supported as its digest says.
LEMMA SupportsFollow ==
  ASSUME ReviewsSupported
  PROVE  SupportsHold
  BY SourcesAssumption DEF ReviewsSupported, SupportsHold, SupportsIntact, Digest

LEMMA ChainsStep ==
  ASSUME TypeOK, ChainsSound, [Next]_vars
  PROVE  ChainsSound'
  <1>1. ASSUME NEW review \in Reviews, Assess(review)
        PROVE  ChainsSound'
    <2>1. PICK id \in AssessmentIds :
            /\ \A a \in db.assessments : a.id # id
            /\ db'.assessments = db.assessments \union {AssessmentOf(review, id)}
      BY <1>1, AssessEffect
    <2> DEFINE new == AssessmentOf(review, id)
    <2>2. /\ new.id = id /\ new.gate = review.gate /\ new.supersedes = review.supersedes
      BY DEF AssessmentOf
    <2>3. \/ new.supersedes = NoAssessment
          \/ \E a \in db.assessments :
               /\ a.id = new.supersedes /\ a.gate = new.gate
               /\ \A b \in db.assessments : b.supersedes # a.id
      BY <1>1, <2>2 DEF Assess, Assessable, MaySupersede, Superseded
    <2>4. id # NoAssessment
      BY IdsAssumption
    <2> HIDE DEF new
    <2>5. \A a, b \in db'.assessments :
            /\ a.id = b.id => a = b
            /\ a.supersedes = b.supersedes /\ a.supersedes # NoAssessment => a = b
      BY <2>1, <2>2, <2>3 DEF ChainsSound, new
    <2>6. \A a \in db'.assessments : a.supersedes # NoAssessment =>
            \E b \in db'.assessments : b.id = a.supersedes /\ b.gate = a.gate
      BY <2>1, <2>3 DEF ChainsSound, new
    <2>7. ASSUME NEW gate \in Gates, \E a \in db'.assessments : a.gate = gate
          PROVE  Heads(db', gate) # {}
      <3>1. \A a \in db'.assessments : a.supersedes # id
        BY <2>1, <2>2, <2>3, <2>4 DEF ChainsSound, new
      <3>2. CASE gate = new.gate
        BY <2>1, <2>2, <3>1, <3>2 DEF Heads, Superseded, new
      <3>3. CASE gate # new.gate
        <4>1. PICK a \in Heads(db, gate) : TRUE
          BY <2>1, <2>7, <3>3 DEF ChainsSound, new
        <4>2. a.id # new.supersedes
          BY <2>3, <3>3, <4>1, IdsAssumption DEF Heads, ChainsSound, TypeOK, Databases, Assessments
        <4> QED
          BY <2>1, <4>1, <4>2 DEF Heads, Superseded, new
      <3> QED
        BY <3>2, <3>3
    <2> QED
      BY <2>5, <2>6, <2>7 DEF ChainsSound
  <1>2. CASE db'.assessments = db.assessments
    BY <1>2 DEF ChainsSound, Heads, Superseded
  <1> QED
    BY <1>1, <1>2, AssessmentsKept
----------------------------------------------------------------------------
(* Readiness at an instant.                                                *)

\* A candidate ready in s was evaluated for the sources of s, whatever has
\* happened to their standing since the run was recorded.
LEMMA ReadyFindsNothing ==
  ASSUME NEW s \in Databases, RunsEvaluated(s), NEW now, Ready(s, now)
  PROVE  Findings(Digest(s), s.plan, s.standing) = {}
  <1>1. PICK r \in s.runs :
          r.digest = Digest(s) /\ r.result = "TECHNICAL_PASS" /\ r.issues = {}
    BY DEF Ready, TechnicallyClear, Counted, EpochRuns
  <1>2. PICK st \in Standings : Evaluates({}, Digest(s), s.plan, st)
    BY <1>1 DEF RunsEvaluated, Completed
  <1>3. s.standing \in Standings /\ s.plan \subseteq Sources
    BY DEF Databases
  <1>4. \A x \in Listed : s.standing[x] = Digest(s).standing[x]
    BY DEF Digest
  <1> QED
    BY <1>2, <1>3, <1>4, NothingFoundIsDigestBound

LEMMA HeadType ==
  ASSUME NEW s \in Databases, NEW gate, NEW a \in CurrentHeads(s, gate)
  PROVE  a.assessedAt \in Int /\ a.gate = gate
  <1>1. a \in s.assessments /\ a.gate = gate
    BY DEF CurrentHeads, Heads
  <1>2. s.assessments \subseteq Assessments
    BY DEF Databases
  <1>3. a \in Assessments
    BY <1>1, <1>2
  <1>4. a.assessedAt \in ReviewTimes \union {UnknownTime}
    BY <1>3 DEF Assessments
  <1> QED
    <2>1. UnknownTime \in Int
      BY DEF UnknownTime
    <2>2. ReviewTimes \subseteq Int
      BY ReviewTimesAssumption
    <2> QED
      BY <1>1, <1>4, <2>1, <2>2

LEMMA BoundaryType ==
  ASSUME NEW s \in Databases, NEW b \in Boundaries[s.authority]
  PROVE  b.from \in Nat /\ b.to \in Nat /\ b.from <= b.to
  BY AuthoritiesAssumption DEF Databases, Boundary

\* A gate that passes has one current head; G1's was reviewed after every
\* boundary that may have been reached, and states no future review time
\* unless all of them are ahead.
LEMMA ReadyReviews ==
  ASSUME NEW s \in Databases, NEW now \in Nat, Ready(s, now),
         NEW gate \in Gates, NEW a \in CurrentHeads(s, gate)
  PROVE  /\ CurrentHeads(s, gate) = {a}
         /\ a.result = "CONFIRMED"
         /\ AsksResolved(s, a)
         /\ gate = "G1" =>
              /\ ReviewedSince(a, s.authority, now)
              /\ a.assessedAt <= now \/ \A b \in Boundaries[s.authority] : now < b.from
  <1>1. /\ CurrentHeads(s, gate) = {a}
        /\ a.result = "CONFIRMED"
        /\ AsksResolved(s, a)
        /\ gate = "G1" => \A b \in Boundaries[s.authority] : Fresh(b, a.assessedAt, now)
    <2>1. PICK c \in CurrentHeads(s, gate) :
            /\ CurrentHeads(s, gate) = {c}
            /\ c.result = "CONFIRMED"
            /\ AsksResolved(s, c)
            /\ gate = "G1" => \A b \in Boundaries[s.authority] : Fresh(b, c.assessedAt, now)
      BY DEF Ready, GatePasses
    <2>2. c = a
      BY <2>1
    <2> QED
      BY <2>1, <2>2
  <1>2. ASSUME gate = "G1", NEW b \in Boundaries[s.authority]
        PROVE  /\ b.from <= now => b.to <= a.assessedAt
               /\ a.assessedAt <= now \/ now < b.from
    <2>1. Fresh(b, a.assessedAt, now)
      BY <1>1, <1>2
    <2>2. a.assessedAt \in Int /\ b.from \in Nat /\ b.to \in Nat
      BY HeadType, BoundaryType
    <2> QED
      BY <2>1, <2>2 DEF Fresh, UnknownTime
  <1> QED
    BY <1>1, <1>2 DEF ReviewedSince

----------------------------------------------------------------------------
(* Replays.                                                                *)

\* A replay judged at the clock read its snapshot no later.
LEMMA JudgedReplay ==
  ASSUME NEW p \in Replays, clock \in Nat, p.readAt <= clock,
         RunsEvaluated(p.snapshot),
         Releases(p.snapshot, clock, p.export.digest, p.export.run)
  PROVE  /\ ~p.snapshot.superseded
         /\ Findings(p.export.digest, p.snapshot.plan, p.snapshot.standing) = {}
         /\ \A a \in CurrentHeads(p.snapshot, "G1") :
              "G1" \in Gates => ReviewedSince(a, p.snapshot.authority, p.readAt)
  <1> DEFINE s == p.snapshot
  <1>1. s \in Databases /\ p.readAt \in Int
    BY DEF Replays, Time
  <1>2. Ready(s, clock) /\ p.export.digest = Digest(s)
    BY DEF Releases
  <1>3. Findings(Digest(s), s.plan, s.standing) = {}
    BY <1>1, <1>2, ReadyFindsNothing
  <1>4. ASSUME NEW a \in CurrentHeads(s, "G1"), "G1" \in Gates
        PROVE  ReviewedSince(a, s.authority, p.readAt)
    <2>1. ReviewedSince(a, s.authority, clock)
      BY <1>1, <1>2, <1>4, ReadyReviews
    <2>2. \A b \in Boundaries[s.authority] : b.from \in Nat
      BY <1>1, BoundaryType
    <2> QED
      BY <1>1, <2>1, <2>2 DEF ReviewedSince
  <1> QED
    BY <1>2, <1>3, <1>4 DEF Ready

\* What is asked of each replay.
ReplaySound(p) ==
  /\ p.readAt <= clock /\ RunsEvaluated(p.snapshot)
  /\ p.stage = "RELEASED" =>
       /\ ~p.snapshot.superseded
       /\ Findings(p.export.digest, p.snapshot.plan, p.snapshot.standing) = {}
       /\ \A a \in CurrentHeads(p.snapshot, "G1") :
            "G1" \in Gates => ReviewedSince(a, p.snapshot.authority, p.readAt)

LEMMA ReplaysSplit ==
  ReplaysRead /\ ReplaysRespectBoundaries <=> \A p \in replays : ReplaySound(p)
  BY DEF ReplaysRead, ReplaysRespectBoundaries, ReplaySound

LEMMA ReplaysStep ==
  ASSUME TypeOK, RunsEvaluated(db), ReplaysRead, ReplaysRespectBoundaries, [Next]_vars
  PROVE  ReplaysRead' /\ ReplaysRespectBoundaries'
  <1>1. \A p \in replays : ReplaySound(p)
    BY ReplaysSplit
  <1>2. clock \in Nat /\ clock' \in Nat /\ clock <= clock' /\ (clock' # clock => replays' = replays)
    <2>1. Context \/ Validate \/ (\E review \in Reviews : Assess(review)) => UNCHANGED clock
      BY ContextFrame DEF Frame, Validate, Receive, Capture, Commit, Assess
    <2>2. Release => UNCHANGED clock
      BY DEF Release, Export, ReceiveReplay, ReadForReplay, JudgeReplay
    <2> QED
      BY <2>1, <2>2 DEF Next, Tick, vars, TypeOK, Time
  <1>3. \A p \in Replays : p.readAt \in Int
    BY DEF Replays, Time
  <1>4. \A p \in replays : ReplaySound(p)'
    BY <1>1, <1>2, <1>3 DEF ReplaySound, TypeOK
  <1>5. ASSUME NEW q \in replays', q \notin replays
        PROVE  ReplaySound(q)'
    <2>1. clock' = clock
      BY <1>2, <1>5
    <2>2. ASSUME NEW e \in exports, ReceiveReplay(e) PROVE ReplaySound(q)'
      <3>1. q.stage = "RECEIVED" /\ q.snapshot = Imported({}) /\ q.readAt = clock
        BY <1>5, <2>2 DEF ReceiveReplay
      <3>2. RunsEvaluated(q.snapshot)
        BY <3>1 DEF RunsEvaluated, Imported
      <3> QED
        BY <1>2, <2>1, <3>1, <3>2 DEF ReplaySound
    <2>3. ASSUME NEW p \in replays, ReadForReplay(p) PROVE ReplaySound(q)'
      <3>1. q = [p EXCEPT !.stage = "READ", !.snapshot = db, !.readAt = clock]
        BY <1>5, <2>3 DEF ReadForReplay
      <3>2. q.stage = "READ" /\ q.snapshot = db /\ q.readAt = clock
        BY <3>1 DEF TypeOK, Replays
      <3> QED
        BY <1>2, <2>1, <3>2 DEF ReplaySound
    <2>4. ASSUME NEW p \in replays, JudgeReplay(p) PROVE ReplaySound(q)'
      <3>1. q = [p EXCEPT !.stage =
                   IF Releases(p.snapshot, clock, p.export.digest, p.export.run)
                   THEN "RELEASED" ELSE "REFUSED"]
        BY <1>5, <2>4 DEF JudgeReplay, JudgedAt
      <3>2. /\ q.snapshot = p.snapshot /\ q.readAt = p.readAt /\ q.export = p.export
            /\ q.stage = "RELEASED" =>
                 Releases(p.snapshot, clock, p.export.digest, p.export.run)
        BY <3>1 DEF TypeOK, Replays
      <3>3. p \in Replays /\ p.readAt <= clock /\ RunsEvaluated(p.snapshot)
        BY <1>1 DEF ReplaySound, TypeOK
      <3> QED
        BY <1>2, <2>1, <3>2, <3>3, JudgedReplay DEF ReplaySound
    <2>5. Context \/ Validate \/ (\E review \in Reviews : Assess(review)) => UNCHANGED replays
      BY ContextFrame DEF Frame, Validate, Receive, Capture, Commit, Assess
    <2>6. Tick \/ UNCHANGED vars \/ (\E r \in db.runs : Export(r.digest, r.id))
            => UNCHANGED replays
      BY DEF Tick, vars, Export
    <2> QED
      BY <1>5, <2>2, <2>3, <2>4, <2>5, <2>6 DEF Next, Release
  <1> QED
    BY <1>4, <1>5 DEF ReplaySound, ReplaysRead, ReplaysRespectBoundaries

----------------------------------------------------------------------------
(* The theorems.                                                           *)

LEMMA Initially ==
  ASSUME Init
  PROVE  IInv
  <1>1. TypeOK
    BY ImportedType, EndedType, SourcesAssumption, BoundsAssumption DEF Init, TypeOK, Time
  <1>2. RunsEvaluated(db) /\ ReviewsSupported /\ ChainsSound
    BY DEF Init, Imported, RunsEvaluated, ReviewsSupported, ChainsSound
  <1>3. CapturesEvaluated
    BY DEF Init, NoRequest, CapturesEvaluated
  <1>4. ReplaysRead /\ ReplaysRespectBoundaries
    BY DEF Init, ReplaysRead, ReplaysRespectBoundaries
  <1> QED
    BY <1>1, <1>2, <1>3, <1>4 DEF IInv

\* Completed runs and captures are evaluations of the rules for a standing
\* their digest allows, reviews stand on their supports, supersession chains
\* are sound and replays judge after they read: the inductive invariant.
THEOREM Invariant == Spec => []IInv
  <1>1. IInv /\ [Next]_vars => IInv'
    BY TypeStep, EvaluatedStep, ReviewsStep, ChainsStep, ReplaysStep DEF IInv
  <1> QED
    BY <1>1, Initially, PTL DEF Spec

\* Stored records, requests in progress and kept exports stay within what
\* the code writes.
THEOREM TypeCorrect == Spec => []TypeOK
  <1>1. IInv => TypeOK
    BY DEF IInv
  <1> QED
    BY <1>1, Invariant, PTL

\* A TECHNICAL_PASS is never contradicted by a completed run of its digest.
THEOREM PassesStand == Spec => []PassIsUnanimous
  <1>1. IInv => PassIsUnanimous
    BY PassesAgree DEF IInv
  <1> QED
    BY <1>1, Invariant, PTL

\* A run is recorded only while its findings are still those of the database.
THEOREM RunsStayCurrent == Spec => RunsAreCurrent
  <1>1. IInv /\ [Next]_vars =>
          [\A r \in db'.runs \ db.runs :
             /\ ~db.archived
             /\ r.digest = Digest(db)
             /\ Completed(r) => r.issues = Findings(Digest(db), db.plan, db.standing)]_vars
    BY RunsCurrentStep DEF IInv
  <1> QED
    BY <1>1, Invariant, PTL DEF Spec, RunsAreCurrent

\* A PASS of the current epoch still stands on its supports.
THEOREM SupportsStand == Spec => []SupportsHold
  <1>1. IInv => SupportsHold
    BY SupportsFollow DEF IInv
  <1> QED
    BY <1>1, Invariant, PTL

\* Stored supersession chains never fork, cross gates or lose their head.
THEOREM ChainsStaySound == Spec => []ChainsSound
  <1>1. IInv => ChainsSound
    BY DEF IInv
  <1> QED
    BY <1>1, Invariant, PTL

\* Whatever is exported is cleared by the database of that instant.
THEOREM ExportsStaySound == Spec => ExportsAreSound
  <1> DEFINE Sound ==
        /\ ~db.archived /\ ~db.superseded
        /\ Findings(Digest(db), db.plan, db.standing) = {}
        /\ OnePassPerGate(db)
        /\ \A gate \in Gates : \A a \in CurrentHeads(db, gate) :
             /\ a.gate = "G6" /\ Reply =>
                  a.asks = "RESOLVED" /\ \A x \in a.cites : db.standing[x]
             /\ a.gate = "G1" =>
                  /\ ReviewedSince(a, db.authority, clock)
                  /\ \/ a.assessedAt <= clock
                     \/ \A b \in Boundaries[db.authority] : clock < b.from
  <1>1. ASSUME IInv, [Next]_vars, exports' # exports
        PROVE  Sound
    <2>1. PICK r \in db.runs : Export(r.digest, r.id)
      <3>1. Context => UNCHANGED exports
        BY <1>1, ContextFrame DEF IInv, Frame
      <3> QED
        BY <1>1, <3>1 DEF Next, Validate, Release, Tick, Receive, Capture, Commit,
           Assess, ReceiveReplay, ReadForReplay, JudgeReplay, vars
    <2>2. Ready(db, clock)
      BY <2>1 DEF Export, Releases
    <2>3. db \in Databases /\ clock \in Nat
      BY <1>1 DEF IInv, TypeOK, Time
    <2>4. Findings(Digest(db), db.plan, db.standing) = {}
      BY <1>1, <2>2, <2>3, ReadyFindsNothing DEF IInv
    <2>5. OnePassPerGate(db)
      BY <2>2 DEF OnePassPerGate, Ready, GatePasses
    <2>6. ASSUME NEW gate \in Gates, NEW a \in CurrentHeads(db, gate)
          PROVE  /\ a.gate = "G6" /\ Reply =>
                      a.asks = "RESOLVED" /\ \A x \in a.cites : db.standing[x]
                 /\ a.gate = "G1" =>
                      /\ ReviewedSince(a, db.authority, clock)
                      /\ \/ a.assessedAt <= clock
                         \/ \A b \in Boundaries[db.authority] : clock < b.from
      <3>1. a.gate = gate
        BY <2>3, <2>6, HeadType
      <3> QED
        BY <2>2, <2>3, <2>6, <3>1, ReadyReviews DEF AsksResolved
    <2> QED
      BY <2>2, <2>4, <2>5, <2>6 DEF Ready
  <1>2. IInv /\ [Next]_vars => [exports' # exports => Sound]_vars
    BY <1>1
  <1> QED
    BY <1>2, Invariant, PTL DEF Spec, ExportsAreSound

\* Time alone readies a candidate only by reaching a stated review time.
THEOREM TimeReadies == "G1" \in Gates => (Spec => TimeReadiesOnlyFutureReviews)
  <1> SUFFICES ASSUME "G1" \in Gates PROVE Spec => TimeReadiesOnlyFutureReviews
    OBVIOUS
  <1>1. ASSUME IInv, Tick, Ready(db, clock'),
               \A a \in CurrentHeads(db, "G1") : ~(a.assessedAt > clock)
        PROVE  Ready(db, clock)
    <2>1. db \in Databases /\ clock \in Nat /\ clock' = clock + 1
      BY <1>1 DEF IInv, TypeOK, Time, Tick
    <2>2. PICK a \in CurrentHeads(db, "G1") :
            \A b \in Boundaries[db.authority] : Fresh(b, a.assessedAt, clock')
      BY <1>1 DEF Ready, GatePasses
    <2>3. a.assessedAt \in Int /\ a.assessedAt <= clock
      BY <1>1, <2>1, HeadType
    <2>4. ASSUME NEW b \in Boundaries[db.authority]
          PROVE  /\ Fresh(b, a.assessedAt, clock)
                 /\ b.to <= clock' => b.to <= clock
      <3>1. b.from \in Nat /\ b.to \in Nat /\ b.from <= b.to
        BY <2>1, BoundaryType
      <3>2. Fresh(b, a.assessedAt, clock')
        BY <2>2
      <3> QED
        BY <2>1, <2>3, <3>1, <3>2 DEF Fresh, UnknownTime
    <2>5. \A b \in Starts[db.authority] : b.to <= clock
      <3>1. Starts[db.authority] \subseteq Boundaries[db.authority]
        BY <2>1, AuthoritiesAssumption DEF Databases
      <3> QED
        BY <1>1, <2>4, <3>1 DEF Ready
    <2>6. ASSUME NEW gate \in Gates PROVE GatePasses(db, gate, clock)
      <3>1. PICK c \in CurrentHeads(db, gate) :
              /\ CurrentHeads(db, gate) = {c}
              /\ c.result = "CONFIRMED"
              /\ SupportsIntact(db)
              /\ AsksResolved(db, c)
        BY <1>1 DEF Ready, GatePasses
      <3>2. gate = "G1" => c = a
        BY <3>1
      <3> QED
        BY <2>4, <3>1, <3>2 DEF GatePasses
    <2> QED
      BY <1>1, <2>5, <2>6 DEF Ready
  <1>2. ASSUME IInv, [Next]_vars, clock' # clock
        PROVE  Tick
    <2>1. Context => UNCHANGED clock
      BY <1>2, ContextFrame DEF IInv, Frame
    <2> QED
      BY <1>2, <2>1 DEF Next, Validate, Release, Receive, Capture, Commit, Assess,
         Export, ReceiveReplay, ReadForReplay, JudgeReplay, vars
  <1>3. IInv /\ [Next]_vars =>
          [Ready(db, clock') /\ ~Ready(db, clock) =>
             \E a \in CurrentHeads(db, "G1") : a.assessedAt > clock]_clock
    BY <1>1, <1>2
  <1> QED
    BY <1>3, Invariant, PTL DEF Spec, TimeReadiesOnlyFutureReviews

\* A released replay was judged no earlier than its reads.
THEOREM ReplaysRespect == Spec => []ReplaysRespectBoundaries
  <1>1. IInv => ReplaysRespectBoundaries
    BY DEF IInv
  <1> QED
    BY <1>1, Invariant, PTL

----------------------------------------------------------------------------
(* The page.                                                               *)

\* The form has a support to offer exactly when a review has one to rest on.
LEMMA SupportsAgree ==
  ASSUME NEW review
  PROVE  SupportPicker(review.result) # {} <=>
           db.link = "LINKED" /\ (review.result # "HOLD" => db.standing[SupportSource])
  <1>1. linked = IF db.link = "LINKED" THEN {SupportSource} ELSE {}
    BY DEF linked
  <1>2. SupportSource \in notApplicable <=> ~db.standing[SupportSource]
    BY SourcesAssumption DEF notApplicable
  <1> QED
    BY <1>1, <1>2 DEF SupportPicker

\* It names as superseded what the API lets a review supersede.
LEMMA SuccessorsAgree ==
  ASSUME NEW review
  PROVE  review.supersedes \in SupersedesField(review.gate) <=> MaySupersede(review)
  BY DEF SupersedesField, heads, MaySupersede, Superseded

\* It lets an ask cite what is linked and applies.
LEMMA CitesAgree ==
  ASSUME NEW review,
         review.asks \in AskRecords,
         review.gate # "G6" \/ ~Reply => review.asks = "NONE",
         review.asks = "NONE" => review.cites = {}
  PROVE  /\ review.asks \in AskEditor(review.gate).asks
         /\ review.cites \subseteq AskEditor(review.gate).cites <=>
              review.cites \subseteq linked /\ \A x \in review.cites : db.standing[x]
  <1>1. \A x \in linked : x \in notApplicable <=> ~db.standing[x]
    BY SourcesAssumption DEF linked, notApplicable
  <1>2. CASE Reply /\ review.gate = "G6"
    <2>1. /\ AskEditor(review.gate).asks = AskRecords
          /\ AskEditor(review.gate).cites = linked \ notApplicable
      BY <1>2 DEF AskEditor
    <2> QED
      BY <1>1, <2>1
  <1>3. CASE ~(Reply /\ review.gate = "G6")
    <2>1. AskEditor(review.gate).asks = {"NONE"} /\ review.asks = "NONE" /\ review.cites = {}
      BY <1>3 DEF AskEditor
    <2> QED
      BY <2>1
  <1> QED
    BY <1>2, <1>3

LEMMA FormsAgree ==
  ASSUME NEW review,
         review.asks \in AskRecords,
         review.gate # "G6" \/ ~Reply => review.asks = "NONE",
         review.asks = "NONE" => review.cites = {}
  PROVE  FormMirrors(review)
  <1>1. epochRuns = EpochRuns(db)
    BY DEF epochRuns, EpochRuns
  <1> QED
    BY <1>1, SupportsAgree, SuccessorsAgree, CitesAgree
    DEF FormMirrors, CaptureForm, Assessable, SourcesUsable

(* For every review a reviewer may enter, whatever validations are under   *)
(* way, the form of the candidate's page decides as the API does.          *)
THEOREM FormAlwaysMirrors == Spec => [](\A review \in Reviews : FormMirrors(review))
  <1>1. \A review \in Reviews : FormMirrors(review)
    BY FormsAgree DEF Reviews
  <1> QED
    BY <1>1, PTL

(* The review form offers exactly the reviews that would be recorded, and  *)
(* the provenances that the rule for the performer allows.                 *)
THEOREM ReviewFormAlwaysMirrors == Spec => []ReviewFormMirrorsTheRules
  <1>1. \A review \in Entries : FormMirrors(review)
    <2>1. SUFFICES ASSUME NEW review \in Entries PROVE FormMirrors(review)
      OBVIOUS
    <2>2. /\ review.asks \in AskRecords
          /\ review.gate # "G6" \/ ~Reply => review.asks = "NONE"
          /\ review.asks = "NONE" => review.cites = {}
      BY DEF Entries, AskRecords
    <2> QED
      BY <2>2, FormsAgree
  <1>2. ASSUME NEW performer \in Performers, NEW provenance \in Provenances
        PROVE  provenance \in ProvenanceField(performer) <=> ~provenanceProblem(performer, provenance)
    BY DEF ProvenanceField, provenanceProblem
  <1>3. ReviewFormMirrorsTheRules
    BY <1>1, <1>2 DEF ReviewFormMirrorsTheRules
  <1> QED
    BY <1>3, PTL
=============================================================================
