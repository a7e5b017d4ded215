------------------------ MODULE CandidateValidation ------------------------
(***************************************************************************)
(* Candidates drafted from prompts (modules/candidates) and their          *)
(* technical validation (modules/validation), over the cases and contexts  *)
(* they are about.  A validation reads the candidate, the context of its   *)
(* prompt's scope and the sources its plan names in one snapshot, runs the *)
(* rules outside any transaction, and records the run if what it read      *)
(* still stands under the lock of the case.                                *)
(*                                                                         *)
(* CandidateChain has the order of versions and their supersession, and    *)
(* Readiness what the runs are good for.                                   *)
(***************************************************************************)
EXTENDS ProductionContext

CONSTANTS
  Drafts,           \* what a writer may have drafted
  Mailbox, Signer,  \* [Routes -> what the selections of the route name]
  Hash,             \* [Sources -> the SHA-256 recorded on each, or None]
  Noticed,          \* the cases whose candidates the instance has
  MaxCandidates, MaxRuns,  \* bounds of the model
  Failing           \* the sets of rules that an internal error may befall

VARIABLES candidates, captured, runs     \* captured: a validation under way, or None

validationVars == <<candidates, captured, runs>>
allVars == <<contextVars, validationVars>>

INSTANCE TechnicalRules

----------------------------------------------------------------------------
(* What a validation reads                                                 *)

\* A digest covers these dependencies: a type, an id and a fingerprint each.
Entries(type, content) == {<<type, i, content[i]>> : i \in DOMAIN content}

dependenciesOf(digest) ==
  LET records == digest.records
      c == digest.scope.case
  IN UNION {
       {<<"CaseRecord", c, digest.case>>, <<"Party", c, digest.parties>>,
        <<"Authority", digest.scope.selection, records.authority>>},
       Entries("ReportedItem", records.items), Entries("CaseWork", records.works),
       Entries("UseMapping", records.mappings), Entries("CaseFact", records.facts),
       Entries("CorrespondenceBinding", records.bindings), Entries("CaseSource", digest.links),
       Entries("SourceReference", digest.sources)}

\* The prior bindings are not stored with a prompt: its dependencies show them.
validationScope(prompt) ==
  LET bound == {d[2] : d \in {e \in dependenciesOf(prompt.digest) : e[1] = "CorrespondenceBinding"}}
      named == prompt.data.scope
  IN [case |-> prompt.case, task |-> prompt.task, mode |-> named.mode,
      selection |-> named.selection, parent |-> named.parent, priors |-> bound \ {named.parent}]

\* A corrected binding cannot be read for the scope any more.
Readable(scope) == Named(scope) \subseteq Current(bindings, scope.case)

ScopeOf(k) == validationScope(prompts[candidates[k].prompt])

PlanSources(k) ==
  LET c == candidates[k].case
  IN [s \in {e.source : e \in candidates[k].draft.plan} |->
       [exists |-> s \in Sources, problem |-> Problem(s, c),
        latest |-> s \notin outside.superseded, hash |-> Hash[s]]]

Evaluated(scope) ==
  [dependencies |-> dependenciesOf(dependencyDigest(scope)),
   missing |-> missing(scope), conflicts |-> conflicts(scope),
   mailbox |-> IF scope.selection = None THEN None ELSE Mailbox[selections[scope.selection].route],
   signer |-> IF scope.selection = None THEN None ELSE Signer[selections[scope.selection].route],
   parentMessage |-> IF scope.parent = None THEN None ELSE Message[bindings[scope.parent].message],
   priorMessages |-> {Message[bindings[b].message] : b \in scope.priors}]

ValidationInput(k) ==
  LET row == candidates[k]
      prompt == prompts[row.prompt]
      scope == ScopeOf(k)
  IN [candidate |-> [case |-> row.case, task |-> row.task, text |-> row.draft.text,
                     envelope |-> row.draft.envelope, plan |-> row.draft.plan],
      prompt |-> [case |-> prompt.case, task |-> prompt.task, mode |-> scope.mode,
                  parent |-> scope.parent, dependencies |-> dependenciesOf(prompt.digest)],
      evaluated |-> Evaluated(scope),
      planSources |-> PlanSources(k)]

----------------------------------------------------------------------------
(* Storing a candidate (candidates.service.ts, candidate-rules.ts).  It is *)
(* checked against its prompt as frozen, and against the sources as they   *)
(* are now.                                                                *)

EnvelopeFits(prompt, envelope) ==
  /\ envelope.parent = prompt.data.scope.parent
  /\ LET selection == prompt.data.scope.selection
     IN selection # None => envelope.from = Mailbox[selections[selection].route]

FrozenPriors(prompt) == {Message[bindings[b].message] : b \in prompt.data.scope.priors}

PlanFits(prompt, plan) ==
  \A e \in plan :
    /\ Usable(e.source, caseTarget(prompt.case))
    /\ e.hash \in {None, Hash[e.source]}
    /\ e.state = "PREVIOUSLY_SUPPLIED" =>
         \E m \in FrozenPriors(prompt) : e.source \in DOMAIN m.attached

StoreCandidate(p, draft) ==
  LET prompt == prompts[p]
  IN /\ Writable(prompt.case)
     /\ EnvelopeFits(prompt, draft.envelope)
     /\ PlanFits(prompt, draft.plan)
     /\ candidates' = Append(candidates,
          [case |-> prompt.case, task |-> prompt.task, prompt |-> p, draft |-> draft])
     /\ UNCHANGED <<contextVars, captured, runs>>

----------------------------------------------------------------------------
(* Validating one (validation.service.ts).  The client names the digest it *)
(* has reviewed: a capture that goes on has read that digest.              *)

Capturable(k) ==
  Writable(candidates[k].case) /\ Readable(ScopeOf(k)) /\ Deliverable(ScopeOf(k))

CaptureCandidate(k, failed) ==
  /\ captured = None /\ Capturable(k)
  /\ captured' = [candidate |-> k, failed |-> failed, digest |-> dependencyDigest(ScopeOf(k)),
                  plan |-> PlanSources(k),
                  evaluation |-> evaluateCandidate(ValidationInput(k), failed)]
  /\ UNCHANGED <<contextVars, candidates, runs>>

\* (mutant) The case stands as it was read.
StandsByRevision(run) ==
  Readable(ScopeOf(run.candidate))
  /\ cases[candidates[run.candidate].case].revision = run.digest.case.revision

\* The digest that was read is still the current one.
Stands(run) ==
  LET scope == ScopeOf(run.candidate)
  IN Readable(scope) /\ dependencyDigest(scope) = run.digest

RecordRun ==
  /\ captured # None
  /\ Writable(candidates[captured.candidate].case)
  /\ Stands(captured)
  /\ PlanSources(captured.candidate) = captured.plan
  /\ runs' = Append(runs, captured)
  /\ captured' = None
  /\ UNCHANGED <<contextVars, candidates>>

\* It is refused, or its process stops: nothing is recorded.
DropCapture ==
  /\ captured # None
  /\ captured' = None
  /\ UNCHANGED <<contextVars, candidates, runs>>

----------------------------------------------------------------------------

ValidationInit == Init /\ candidates = <<>> /\ captured = None /\ runs = <<>>

ValidationSteps ==
  \/ /\ Len(candidates) < MaxCandidates
     /\ \E p \in Rows(prompts), d \in Drafts :
          prompts[p].case \in Noticed /\ StoreCandidate(p, d)
  \/ /\ Len(runs) < MaxRuns
     /\ \E k \in Rows(candidates), failed \in Failing : CaptureCandidate(k, failed)
  \/ RecordRun
  \/ DropCapture

ValidationNext == (Next /\ UNCHANGED validationVars) \/ ValidationSteps

ValidationSpec == ValidationInit /\ [][ValidationNext]_allVars

----------------------------------------------------------------------------
(* Properties                                                              *)

Verdict(k) == evaluateCandidate(ValidationInput(k), {})

(* Readiness reads nothing of a run but its digest and its result.  That   *)
(* is enough: as long as the digest of a completed run is the current one, *)
(* to validate again would pass if and only if the run has; and would find *)
(* the same, if the sources of the plan are as they were, too.             *)
VerdictsStand ==
  \A r \in Rows(runs) :
    Stands(runs[r]) /\ runs[r].failed = {} =>
      LET now == Verdict(runs[r].candidate)
      IN /\ runs[r].evaluation.result = "TECHNICAL_PASS" <=> now.result = "TECHNICAL_PASS"
         /\ PlanSources(runs[r].candidate) = runs[r].plan => runs[r].evaluation = now

(* A notice that passes, while its digest stands, was drafted to be sent   *)
(* from exactly the case data that is recorded now, in which nothing is    *)
(* missing or in conflict; it answers in the thread it was asked for; and  *)
(* every document it plans is cited by the case, is of its own scope and   *)
(* owner, is the latest revision, and if it has been supplied before, was  *)
(* seen in a message that was sent.                                        *)
PassesAreFaithful ==
  \A r \in Rows(runs) :
    Stands(runs[r]) /\ runs[r].evaluation.result = "TECHNICAL_PASS" =>
      LET row == candidates[runs[r].candidate]
          scope == ScopeOf(runs[r].candidate)
          data == prompts[row.prompt].data
      IN /\ scope = data.scope /\ scope.mode = "DRAFTING"
         /\ data = promptCaseData(scope)
         /\ data.missing = {} /\ data.conflicts = {}
         /\ scope.parent # None =>
              /\ row.draft.envelope.parent = scope.parent
              /\ row.draft.envelope.to =
                   RecordedRecipient(Message[bindings[scope.parent].message])
         /\ \A e \in row.draft.plan :
              /\ e.source \in ContextSources(scope) \ outside.superseded
              /\ scopeProblem(e.source, caseTarget(row.case)) = None
              /\ caseTarget(row.case).owner # None =>
                   outside.users[e.source] \subseteq {caseTarget(row.case).owner}
              /\ e.state = "PREVIOUSLY_SUPPLIED" =>
                   \E b \in scope.priors :
                     /\ e.source \in DOMAIN Message[bindings[b].message].attached
                     /\ "OBSERVED_IN_RAW_MIME" \in Message[bindings[b].message].attached[e.source]
=============================================================================
