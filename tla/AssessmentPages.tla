---------------------------- MODULE AssessmentPages ----------------------------
(***************************************************************************)
(* The reviews that the page of a candidate lets its user record           *)
(* (apps/web/src/app/cases/assessments.tsx).  The form decides by what it  *)
(* has read - the context of the prompt's scope, the links of the case,    *)
(* the runs of the epoch, the reviews so far - and by its own rules.  What *)
(* it has read is taken to be current here: a review names the digest it   *)
(* was made against, and is refused when that has changed.                 *)
(***************************************************************************)
EXTENDS Readiness

Performers == {"HUMAN", "AI_ASSISTED", "DOCUMENTED_EXTERNAL_REVIEW"}
Provenances == {"DOCUMENT_REVIEWED", "OTHER"}

----------------------------------------------------------------------------
(* What the form reads (CaptureForm)                                       *)

\* The sources behind the links of the case that are LINKED, and the marks of
\* the context on those it lists.
linked == {x \in {SupportSource} : db.link = "LINKED"}
notApplicable == {x \in Listed : ~db.standing[x]}

epochRuns == {r \in db.runs : r.digest = Digest(db)}

\* (mutant) The reviews of this epoch that nothing supersedes.
headsOfTheEpoch(gate) ==
  {a \in db.assessments : a.gate = gate /\ a.digest = Digest(db)
                          /\ \A b \in db.assessments : b.supersedes # a.id}

\* A successor names the latest review of its chain, of whatever epoch.
heads(gate) ==
  {a \in db.assessments : a.gate = gate /\ \A b \in db.assessments : b.supersedes # a.id}

----------------------------------------------------------------------------
(* What the form offers                                                    *)

\* A PASS rests on what applies: what does not is neither kept nor offered.
SupportPicker(result) == IF result = "HOLD" THEN linked ELSE linked \ notApplicable

\* Only a reply's G6 review records asks, and they cite what is linked and applies.
AskEditor(gate) ==
  IF Reply /\ gate = "G6" THEN [asks |-> AskRecords, cites |-> linked \ notApplicable]
  ELSE [asks |-> {"NONE"}, cites |-> {}]

SupersedesField(gate) == {NoAssessment} \union {a.id : a \in heads(gate)}

\* An analysis by an AI reviews no document: choosing it drops that provenance.
ProvenanceField(performer) ==
  IF performer = "AI_ASSISTED" THEN Provenances \ {"DOCUMENT_REVIEWED"} ELSE Provenances

\* At least one support, each concluding something.
CaptureForm(review) ==
  /\ ~db.archived /\ epochRuns # {}
  /\ SupportPicker(review.result) # {}
  /\ review.asks \in AskEditor(review.gate).asks
  /\ review.cites \subseteq AskEditor(review.gate).cites
  /\ review.supersedes \in SupersedesField(review.gate)

\* The API's rule for the performer (assessment-rules.ts).
provenanceProblem(performer, provenance) ==
  performer = "AI_ASSISTED" /\ provenance = "DOCUMENT_REVIEWED"

----------------------------------------------------------------------------
(* Properties                                                              *)

(* What a user may have entered, one thing at a time: the review corrects  *)
(* another, or it is a reply's G6 and has asks, and sources for them.      *)
Entries ==
  [gate : Gates, result : ReviewResults, asks : {"NONE"}, cites : {{}},
   supersedes : AssessmentIds \union {NoAssessment}]
  \union
  [gate : {"G6"}, result : {"PASS"}, asks : IF Reply THEN {"RESOLVED"} ELSE {},
   cites : SUBSET Sources, supersedes : {NoAssessment}]

(* The form lets a review through exactly when the API would record it and *)
(* all it cites is linked.                                                 *)
FormMirrors(review) ==
  CaptureForm(review) <=> Assessable(review) /\ review.cites \subseteq linked

(* The form offers exactly the reviews that would be recorded, whatever    *)
(* the links, the sources and the chains have been through: none that is   *)
(* always refused, and no wrong review that nobody could correct.  The API *)
(* takes more in one point: an ask may cite any source that applies,       *)
(* linked to the case or not.  (TLC looks at it while no validation is     *)
(* under way and the model has a review left to record.)                   *)
ReviewFormMirrorsTheRules ==
  (\A v \in Validators : validations[v].stage = "DONE" /\ clock = 0) =>
    /\ \A review \in Entries : FormMirrors(review)
    /\ \A performer \in Performers, provenance \in Provenances :
         provenance \in ProvenanceField(performer) <=> ~provenanceProblem(performer, provenance)
=============================================================================
