--------------------------- MODULE TechnicalRules ---------------------------
(***************************************************************************)
(* The technical ruleset (modules/validation/technical-ruleset.ts): what   *)
(* each rule finds in a candidate, given the prompt it was drafted from,   *)
(* the context its validation evaluates and the sources its plan names.    *)
(*                                                                         *)
(* A stored candidate is what an import stored: nothing updates its text,  *)
(* envelope, plan or hashes.  The rules that only compare a stored value   *)
(* with itself (ARTIFACT), and what the others do with a value that is     *)
(* not in its stored form, are therefore left out.                         *)
(*                                                                         *)
(* A text is modelled by what the rules tell apart in it:                  *)
(*   slots       how often its body has the pending signer slot            *)
(*   marks       which patterns occur in which of its fields               *)
(*   named       the name that follows the slot, or None                   *)
(*   mentions    which records' ids occur in which of its fields           *)
(***************************************************************************)
EXTENDS Naturals, FiniteSets

CONSTANTS
  None,
  Blocking         \* the codes of missing items a draft cannot do without

Fields == {"subject", "bodyText"}

\* Findings: which rule, how severe, where.
Finding(rule, severity, places) ==
  {[rule |-> rule, severity |-> severity, where |-> p] : p \in places}
Blocker(rule, places) == Finding(rule, "BLOCKER", places)
Review(rule, places) == Finding(rule, "REVIEW_REQUIRED", places)

When(condition, place) == IF condition THEN {place} ELSE {}

Marked(text, pattern) == {f \in Fields : <<pattern, f>> \in text.marks}

----------------------------------------------------------------------------
(* The text                                                                *)

PendingSlotOnce(in) ==
  Blocker("SIGNATURE.PENDING_SLOT_ONCE",
    When(in.candidate.text.slots # 1, "bodyText")
    \union When(<<"SLOT", "subject">> \in in.candidate.text.marks, "subject"))

\* Signals a person must read.
Heuristics == {"SIGNATURE.SLOT_LOOKALIKE", "SIGNATURE.ADOPTION_WORDING", "MARKER.GATE_LABELS"}
SignalsToRead(in) == UNION {Review(h, Marked(in.candidate.text, h)) : h \in Heuristics}

\* The recorded name of the context's signer below the slot.
NameAfterSlot(in) ==
  Review("SIGNATURE.NAME_AFTER_SLOT",
    When(in.evaluated.signer # None /\ in.candidate.text.slots > 0
         /\ in.candidate.text.named = in.evaluated.signer, "bodyText"))

\* What is left of the prompt in what was drafted from it.
Leftovers == {"MARKER.DECLARATION_PLACEHOLDER", "MARKER.INPUT_PLACEHOLDERS",
              "MARKER.PROMPT_STRUCTURE"}
LeftoversOfThePrompt(in) == UNION {Blocker(l, Marked(in.candidate.text, l)) : l \in Leftovers}

Identity(dependencies) == {<<d[1], d[2]>> : d \in dependencies}

InternalIdentifiers(in) ==
  LET known == Identity(in.evaluated.dependencies) \union Identity(in.prompt.dependencies)
      text == in.candidate.text
  IN Review("MARKER.INTERNAL_IDENTIFIERS",
       Marked(text, "INTERNAL_CODE") \union {f \in Fields : \E i \in known : <<i, f>> \in text.mentions})

PreparedForAttachment(plan) ==
  \E e \in plan : e.state = "PREPARED_FOR_ATTACHMENT" /\ e.file

AttachmentClaim(in) ==
  Finding("WORDING.ATTACHMENT_CLAIM",
    IF PreparedForAttachment(in.candidate.plan) THEN "WARNING" ELSE "REVIEW_REQUIRED",
    Marked(in.candidate.text, "ATTACHMENT"))

----------------------------------------------------------------------------
(* The envelope                                                            *)

PromptCaseTask(in) ==
  Blocker("ENVELOPE.PROMPT_CASE_TASK",
    When(in.candidate.case # in.prompt.case, "caseId")
    \union When(in.candidate.task # in.prompt.task, "taskType"))

Thread(in) ==
  Blocker("ENVELOPE.THREAD",
    When(in.candidate.envelope.parent # in.prompt.parent, "envelope.parentBindingId"))

\* The sender is the mailbox of the selection; without one nothing backs it.
Sender(in) ==
  IF in.evaluated.mailbox = None THEN Review("ENVELOPE.SENDER", {"envelope.from"})
  ELSE Blocker("ENVELOPE.SENDER",
         When(in.candidate.envelope.from # in.evaluated.mailbox, "envelope.from"))

\* A reply goes where its parent asks, or else where it came from.
RecordedRecipient(message) == IF message.replyTo # None THEN message.replyTo ELSE message.from

ReplyRecipient(in) ==
  Review("ENVELOPE.REPLY_RECIPIENT",
    When(/\ in.prompt.task = "NMI_REPLY" /\ in.evaluated.parentMessage # None
         /\ LET recipient == RecordedRecipient(in.evaluated.parentMessage)
            IN recipient = None \/ in.candidate.envelope.to # recipient,
         "envelope.to"))

----------------------------------------------------------------------------
(* The document plan.  planSources says of each source the plan names      *)
(* whether it exists, applies, is the latest of its group, and its hash.   *)

Exists(in, e) == in.planSources[e.source].exists

PlanSourceExists(in) ==
  Blocker("PLAN.SOURCE_EXISTS", {e \in in.candidate.plan : ~Exists(in, e)})

PlanSourceApplies(in) ==
  Blocker("PLAN.SOURCE_APPLIES",
    {e \in in.candidate.plan : Exists(in, e) /\ in.planSources[e.source].problem # None})

PlanSourceInContext(in) ==
  Review("PLAN.SOURCE_IN_CONTEXT",
    {e \in in.candidate.plan :
       Exists(in, e) /\ <<"SourceReference", e.source>> \notin Identity(in.evaluated.dependencies)})

PlanSourceLatest(in) ==
  Review("PLAN.SOURCE_LATEST_REVISION",
    {e \in in.candidate.plan : Exists(in, e) /\ ~in.planSources[e.source].latest})

PlanContentSha256(in) ==
  Blocker("PLAN.CONTENT_SHA256",
    {e \in in.candidate.plan :
       Exists(in, e) /\ e.hash \notin {None, in.planSources[e.source].hash}})

\* How the transmissions the context names as prior ones record the source.
Supplied(messages, s) == UNION {m.attached[s] : m \in {n \in messages : s \in DOMAIN n.attached}}

PlanPreviouslySupplied(in) ==
  LET claimed == {e \in in.candidate.plan : e.state = "PREVIOUSLY_SUPPLIED"}
      postures(e) == Supplied(in.evaluated.priorMessages, e.source)
  IN Blocker("PLAN.PREVIOUSLY_SUPPLIED", {e \in claimed : postures(e) = {}})
     \union Review("PLAN.PREVIOUSLY_SUPPLIED",
              {e \in claimed : postures(e) # {} /\ "OBSERVED_IN_RAW_MIME" \notin postures(e)})

----------------------------------------------------------------------------
(* The recorded context                                                    *)

GenerationMode(in) ==
  Blocker("CONTEXT.GENERATION_MODE", When(in.prompt.mode # "DRAFTING", "promptSnapshotId"))

ContextMissing(in) ==
  Blocker("CONTEXT.MISSING", {t \in in.evaluated.missing : t[1] \in Blocking})
  \union Review("CONTEXT.MISSING", {t \in in.evaluated.missing : t[1] \notin Blocking})

ContextConflicts(in) == Review("CONTEXT.CONFLICTS", in.evaluated.conflicts)

\* (mutant) Only the records that are new are found.
NewRecordsOnly(in) ==
  Review("CONTEXT.PROMPT_DRIFT",
    Identity(in.evaluated.dependencies) \ Identity(in.prompt.dependencies))

\* Every record added, removed or changed since the prompt was generated.
PromptDrift(in) ==
  Review("CONTEXT.PROMPT_DRIFT",
    Identity((in.prompt.dependencies \ in.evaluated.dependencies)
             \union (in.evaluated.dependencies \ in.prompt.dependencies)))

----------------------------------------------------------------------------
(* The engine                                                              *)

Findings(in) ==
  UNION {PendingSlotOnce(in), SignalsToRead(in), NameAfterSlot(in), PromptCaseTask(in),
         Thread(in), Sender(in), ReplyRecipient(in), PlanSourceExists(in), PlanSourceApplies(in),
         PlanSourceInContext(in), PlanSourceLatest(in), PlanContentSha256(in),
         PlanPreviouslySupplied(in), AttachmentClaim(in), LeftoversOfThePrompt(in),
         InternalIdentifiers(in), GenerationMode(in), ContextMissing(in), ContextConflicts(in),
         PromptDrift(in)}

\* The rules in `failed' met an internal error: they find nothing, and only a
\* heuristic one's diagnostic is no BLOCKER.
HeuristicRules ==
  Heuristics \union {"SIGNATURE.NAME_AFTER_SLOT", "WORDING.ATTACHMENT_CLAIM"}
Diagnostics(failed) ==
  UNION {Finding(rule, IF rule \in HeuristicRules THEN "REVIEW_REQUIRED" ELSE "BLOCKER", {None})
         : rule \in failed}

evaluateCandidate(in, failed) ==
  LET findings == {f \in Findings(in) : f.rule \notin failed} \union Diagnostics(failed)
      severities == {f.severity : f \in findings}
  IN [findings |-> findings,
      result |-> IF failed # {} THEN "ERROR"
                 ELSE IF "BLOCKER" \in severities THEN "BLOCKED"
                 ELSE IF "REVIEW_REQUIRED" \in severities THEN "REVIEW_REQUIRED"
                 ELSE "TECHNICAL_PASS"]
=============================================================================
