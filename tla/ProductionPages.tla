--------------------------- MODULE ProductionPages ---------------------------
(***************************************************************************)
(* What the web client's pages of the production context, of prompts, of   *)
(* candidates and of their validation offer and show                       *)
(* (apps/web/src/app/cases/production-context.tsx, prompts.tsx,            *)
(* candidates.tsx, validation.tsx), each by its own copy of the rules, on  *)
(* pages that are current (CasePages).                                     *)
(***************************************************************************)
EXTENDS CandidateValidation, CasePages

----------------------------------------------------------------------------
(* A context: what is asked for, and what is marked in what is shown       *)

\* The bindings a form leaves out: a later binding corrects them.  (One that an old
\* address still names is kept in the form: a page that is behind.)
correctedIds(c) == {bindings[b].supersedes : b \in RowsOf(bindings, c)} \ {None}

PickersOf(c, event) == {b \in RowsOf(bindings, c) \ correctedIds(c) : bindings[b].event = event}

ScopeForm(scope) ==
  LET reply == scope.task = "NMI_REPLY"
  IN /\ scope.selection \in OneOf(RowsOf(selections, scope.case))
     /\ scope.parent \in (IF reply THEN OneOf(PickersOf(scope.case, "NMI")) ELSE {None})
     /\ scope.priors \subseteq (IF reply THEN PickersOf(scope.case, "AS_SENT") ELSE {})

\* The gaps a refusal of a drafting read can name, as the page has them.
BLOCKING_TEXT ==
  {"CASE_ROUTE_UNBOUND", "AUTHORITY_SELECTION_NOT_SELECTED", "REPORTED_ITEMS_ABSENT",
   "WORKS_ABSENT", "USE_MAPPINGS_ABSENT", "REPLY_PARENT_NOT_SELECTED",
   "PRIOR_AS_SENT_NOT_SELECTED"}

\* The codes a refusal lists, and what the page offers to ask for in its place.
Refused(scope) == {t[1] : t \in missing(scope)} \intersect Blocking
ContextRefusal(scope) ==
  IF scope.mode = "DRAFTING" /\ Refused(scope) # {} THEN {[scope EXCEPT !.mode = "PREPARATION"]} ELSE {}

\* Where a context records a source as not applicable: the citations its conflicts name.
notApplicableCitations(data) ==
  {t[3] : t \in {x \in data.conflicts :
     x[1] \in {"SOURCE_NOT_APPLICABLE", "CORRESPONDENCE_SOURCE_NOT_APPLICABLE"}}}
MarkedSources(data) == {t.source : t \in notApplicableCitations(data)}

\* What each section marks.  A message marks its own citations, the others mark by source.
AuthoritySection(data) ==
  {Cites(selections[i].basis, "SELECTION_BASIS", i) : i \in {data.scope.selection} \ {None}}
IntakeSections(data) ==
  {Cites(data.records.mappings[m].basis, "MAPPING_BASIS", m) : m \in DOMAIN data.records.mappings}
ManifestSection(data) == {Cites(s, "MANIFEST", None) : s \in data.sources}
ContextMessage(data) ==
  UNION {{Cites(s, "CORRESPONDENCE", bindings[b].message) : s \in Message[bindings[b].message].sources}
         : b \in Named(data.scope)}

ContextSourceCitation(data, citation) ==
  IF citation.kind = "CORRESPONDENCE" THEN citation \in notApplicableCitations(data)
  ELSE citation.source \in MarkedSources(data)

ContextResult(data) ==
  {t \in AuthoritySection(data) \union IntakeSections(data) \union ManifestSection(data)
           \union ContextMessage(data) : ContextSourceCitation(data, t)}

----------------------------------------------------------------------------
(* Prompts, candidates and their validation                                *)

\* While a read is held that the server has not refused as changed.
ReviewAndGenerate == review # None

\* The sources some prior message of the prompt's context has among its attachments.
suppliedSources(prompt) ==
  UNION {DOMAIN Message[prompt.data.records.bindings[b].message].attached : b \in prompt.data.scope.priors}

\* A form sends the address of the selection, the parent of the prompt, and sources it froze.
CandidateForm(prompt, draft) ==
  LET selection == prompt.data.scope.selection
  IN /\ selection # None => draft.envelope.from = Mailbox[selections[selection].route]
     /\ draft.envelope.parent = prompt.data.scope.parent
     /\ \A e \in draft.plan : e.source \in prompt.data.sources /\ e.hash \in {None, Hash[e.source]}
ImportCandidateFlow(p, draft) == caseOpen(prompts[p].case) /\ CandidateForm(prompts[p], draft)

\* The scope a candidate is validated in, as the page takes it from the frozen manifest.
promptScopeOf(prompt) ==
  LET frozen == {d[2] : d \in {e \in dependenciesOf(prompt.digest) : e[1] = "CorrespondenceBinding"}}
  IN [prompt.data.scope EXCEPT !.priors = frozen \ {prompt.data.scope.parent}]

RunValidation(k) ==
  LET scope == promptScopeOf(prompts[candidates[k].prompt])
  IN caseOpen(candidates[k].case) /\ contextScope(scope) /\ Deliverable(scope)
----------------------------------------------------------------------------
(* Properties                                                              *)

\* Scopes an address can name for a case, right and wrong.
AddressScopes(c) ==
  [case : {c}, task : {"INITIAL", "NMI_REPLY"}, mode : {"DRAFTING"}, selection : OneOf(Rows(selections)),
   parent : OneOf(Rows(bindings)), priors : {{}} \union {{b} : b \in Rows(bindings)}]

ScopeMirrors(scope) ==
  /\ ScopeForm(scope) <=> contextScope(scope)
  /\ contextScope(scope) =>
       /\ Deliverable(scope) <=> ContextRefusal(scope) = {}
       /\ Refused(scope) \subseteq BLOCKING_TEXT
       /\ \A other \in ContextRefusal(scope) : contextScope(other) /\ Deliverable(other)

Unchanged(view) ==
  /\ view.scope.case \in DOMAIN cases
  /\ dependencyDigest(view.scope) = view.digest /\ promptCaseData(view.scope) = view.data

\* The marks are right when the view is shown.
ViewMirrors(view) ==
  /\ Unchanged(view) =>
       \A t \in AuthoritySection(view.data) \union IntakeSections(view.data)
                 \union ManifestSection(view.data) \union ContextMessage(view.data) :
         t \in ContextResult(view.data) <=> t.source # None /\ Problem(t.source, view.scope.case) # None
  /\ Mirrors(ReviewAndGenerate, ~Unchanged(view) \/ ~caseOpen(view.scope.case),
             ENABLED GeneratePrompt, FALSE)

(* On a current page of a case, whatever a form lets its user send the     *)
(* server accepts, but for what the page cannot see (another owner's       *)
(* material, a duplicate, the history of the route, the state of a record  *)
(* elsewhere); and what the server would accept some form offers, but for  *)
(* sources with a later revision.                                          *)
CasePagesMirror == prompts = <<>> /\ review = None => CaseFormsMirror

(* On a current page, a form asks for a context, a prompt, a candidate or  *)
(* a run exactly when the server would answer, but for what the page       *)
(* cannot see; a refusal for gaps names gaps the page explains, and the    *)
(* preparation it offers instead is answered; a source is marked as not    *)
(* applicable wherever it is cited, and no other is; and the scope the     *)
(* page reads for a run is the scope the server will read.                 *)
ProductionPagesMirror ==
  /\ \A c \in DOMAIN cases \intersect Reviewable :
       prompts = <<>> /\ review = None => \A scope \in AddressScopes(c) : ScopeMirrors(scope)
  /\ review # None => ViewMirrors(review)
  /\ \A p \in Rows(prompts) :
       /\ promptScopeOf(prompts[p]) = validationScope(prompts[p])
       /\ \A d \in Drafts :
            LET plan == d.plan
            IN Mirrors(ImportCandidateFlow(p, d),
                       \E e \in plan :
                         \/ ~Usable(e.source, caseTarget(prompts[p].case))
                         \/ e.state = "PREVIOUSLY_SUPPLIED" /\ e.source \notin suppliedSources(prompts[p]),
                       ENABLED StoreCandidate(p, d),
                       \E e \in plan : e.source \notin prompts[p].data.sources)
  /\ \A k \in Rows(candidates) : RunValidation(k) <=> Capturable(k)

(* The pages of a case decide by their own copy of the server's rules what *)
(* they offer: the copy has not drifted from the API (both of the above).  *)
PagesMirrorTheRules == CasePagesMirror /\ ProductionPagesMirror
=============================================================================
