------------------------------ MODULE CasePages ------------------------------
(***************************************************************************)
(* What the web client's pages of a case offer (apps/web/src/app/cases,    *)
(* directory/canonical-binding.tsx).  A page decides by its own copy of    *)
(* the rules, over what it has read: each predicate here says which        *)
(* commands a form lets its user send.  What was read is taken to be       *)
(* current; a page that is behind is refused by its If-Match               *)
(* (IdempotentWrite, MaterialMovesRevision).                               *)
(*                                                                         *)
(* A form sends only the fields its user has changed, and at least one.    *)
(***************************************************************************)
EXTENDS CaseIntake, PageScope

caseOpen(c) == ~cases[c].archived

\* A case, to a picker of sources: its agency and the subject of its route.
useCaseTarget(c) ==
  LET rt == cases[c].route
  IN Target("Case", c, CaseAgency[c], None, IF rt = None THEN None ELSE Route[rt].subject)

CaseSource(c, chosen) == SourceSelect(useCaseTarget(c), outside.superseded, chosen)
CaseSourceOrNone(c, chosen) == CaseSource(c, chosen) \union {None}

\* The one thing a picker cannot see: the source is already another owner's material.
AnotherOwners(s, c) ==
  s # None /\ cases[c].route # None /\ outside.users[s] \ {Route[cases[c].route].owner} # {}
Superseding(s) == s \in outside.superseded

----------------------------------------------------------------------------
(* The case itself (cases.tsx)                                             *)

CaseActions(c) ==
  IF cases[c].archived THEN {"restore"}
  ELSE {"edit", "workflow", "archive"} \union (IF cases[c].code = None THEN {"delete"} ELSE {})

\* (mutant) A route is judged by its own record alone.
routeLinked(rt) == outside.routes[rt] = "LINKED"

\* A route that can be chosen at all.
routeAvailable(rt) ==
  outside.routes[rt] = "LINKED" /\ {Route[rt].agency, Route[rt].owner} \intersect outside.archived = {}

NewCasePage(agency, rt, hint) ==
  /\ agency \notin outside.archived
  /\ hint # None => hint \notin outside.archived
  /\ rt # None => routeAvailable(rt) /\ Route[rt].agency = agency

CaseEditForm(c, hint, packet) ==
  /\ "edit" \in CaseActions(c)
  /\ hint \in OneOf({o \in Owners : o \notin outside.archived \/ o = cases[c].hint})
  /\ packet \in CaseSourceOrNone(c, cases[c].packet)
  /\ <<hint, packet>> # <<cases[c].hint, cases[c].packet>>

RouteBindingDialog(c, rt) ==
  caseOpen(c) /\ routeAvailable(rt) /\ Route[rt].agency = CaseAgency[c] /\ rt # cases[c].route

\* Only sources recorded as canonical records are listed.
BindDialog(c, s) ==
  caseOpen(c) /\ cases[c].code = None /\ s \in CaseSource(c, None) \intersect Canonical

SelectionForm(c, basis) ==
  caseOpen(c) /\ cases[c].route # None /\ basis \in CaseSourceOrNone(c, None)

----------------------------------------------------------------------------
(* Its source links, works, reported items and mappings                    *)

LinkCaseSource(c, s) == caseOpen(c) /\ s \in CaseSource(c, None)
LinkStateDialog(i, state) == caseOpen(links[i].case) /\ state # links[i].state

\* A record of a case is edited and archived, or restored.
IntakeActions(row) ==
  IF ~caseOpen(row.case) THEN {} ELSE IF row.archived THEN {"restore"} ELSE {"edit", "archive"}

NewWork(c) == caseOpen(c)
WorkEditForm(w, title) == "edit" \in IntakeActions(works[w]) /\ title # works[w].title

NewReportedItem(c) == caseOpen(c)
ReportedItemEditForm(i, title) == "edit" \in IntakeActions(items[i]) /\ title # items[i].title

NewMapping(c, w, i, basis) ==
  /\ caseOpen(c)
  /\ w \in Unarchived(works, c) /\ i \in Unarchived(items, c)
  /\ basis \in CaseSourceOrNone(c, None)
MappingEditForm(m, provenance, basis) ==
  /\ "edit" \in IntakeActions(mappings[m])
  /\ basis \in CaseSourceOrNone(mappings[m].case, mappings[m].basis)
  /\ <<provenance, basis>> # <<mappings[m].provenance, mappings[m].basis>>

\* Disabled without a basis; it can still be sent with one nobody reviewed.
ProvenanceFields(provenance, earlier, basis) ==
  provenance = "DOCUMENT_REVIEWED" => basis # None \/ earlier = provenance

----------------------------------------------------------------------------
(* Its facts (facts.tsx) and correspondence (case-correspondence.tsx)      *)

targetOptions(c, kind) ==
  IF kind = "CASE" THEN {None} ELSE {i \in RowsOf(TableOf(kind), c) : ~TableOf(kind)[i].archived}

\* A revision keeps the scope of what it revises, archived or not.
FactForm(c, head, scope, provenance, supports) ==
  /\ caseOpen(c)
  /\ supports \subseteq {i \in RowsOf(links, c) : links[i].state = "LINKED"}
  /\ provenance = "DOCUMENT_REVIEWED" =>
       \/ \E i \in supports : links[i].source \in Reviewed
       \/ head # None /\ facts[head].provenance = provenance
  /\ IF head = None THEN scope.row \in targetOptions(c, scope.kind) ELSE scope = facts[head].scope
FactDetail(c, head) == head # None => head \in RowsOf(facts, c) \ Superseded(facts)

\* A correction is of a message bound before, and may keep the item it named.
BindingFields(c, m, item, earlier) ==
  /\ item \in OneOf({i \in RowsOf(items, c) :
       ~items[i].archived \/ (earlier # None /\ bindings[earlier].item = i)})
  /\ IF earlier = None THEN m \in outside.captured /\ Message[m].agency = CaseAgency[c]
     ELSE m = bindings[earlier].message
BindCorrespondenceForm(c, m, item, earlier) ==
  /\ caseOpen(c)
  /\ earlier # None => earlier \in RowsOf(bindings, c) \ Superseded(bindings)
  /\ BindingFields(c, m, item, earlier)

----------------------------------------------------------------------------
(* How the pages relate to the commands of CaseIntake                      *)

HasRecords(c) ==
  \/ \E table \in {links, works, items, mappings, facts, bindings, selections, prompts} :
       RowsOf(table, c) # {}
  \/ \E s \in Sources : c \in Scope[s].cases

CaseRecordMirrors(c) ==
  LET row == cases[c]
      rt0 == row.route
  IN /\ \A hint \in OneOf(Owners), packet \in OneOf(Sources) :
          <<hint, packet>> # <<row.hint, row.packet>> =>
            Mirrors(CaseEditForm(c, hint, packet),
                    ~OwnerHintFits(hint, rt0) \/ AnotherOwners(packet, c),
                    ENABLED PatchCase(c, hint, packet), Superseding(packet))
     /\ Mirrors("delete" \in CaseActions(c), HasRecords(c), ENABLED DeleteCase(c), FALSE)
     /\ Mirrors("archive" \in CaseActions(c), FALSE, ENABLED ArchiveCase(c), FALSE)
     /\ Mirrors("restore" \in CaseActions(c),
                CaseAgency[c] \in outside.archived \/ (rt0 # None /\ outside.routes[rt0] = "ARCHIVED"),
                ENABLED RestoreCase(c), FALSE)
     /\ \A rt \in Routes :
          Mirrors(RouteBindingDialog(c, rt),
                  \/ rt0 # None /\ HasHistory(c)
                  \/ ~OwnerHintFits(row.hint, rt)
                  \/ ~CaseSourcesFit(c, rt),
                  ENABLED BindRoute(c, rt), FALSE)
     /\ \A s \in Sources, code \in Codes :
          Mirrors(BindDialog(c, s), AnotherOwners(s, c) \/ \E d \in DOMAIN cases : cases[d].code = code,
                  ENABLED BindCanonical(c, code, s), FALSE)
     /\ \A basis \in OneOf(Sources) :
          Mirrors(SelectionForm(c, basis), ~RouteUsable(rt0, c) \/ AnotherOwners(basis, c),
                  ENABLED SelectAuthority(c, basis), Superseding(basis))

IntakeMirrors(c) ==
  /\ \A s \in Sources, role \in Roles :
       Mirrors(LinkCaseSource(c, s),
               \/ AnotherOwners(s, c)
               \/ \E i \in RowsOf(links, c) : links[i].source = s /\ links[i].role = role,
               ENABLED LinkSource(c, s, role), Superseding(s))
  /\ \A i \in RowsOf(links, c), state \in {"LINKED", "PAUSED", "UNLINKED"} :
       Mirrors(LinkStateDialog(i, state), state = "LINKED" /\ ~Usable(links[i].source, caseTarget(c)),
               ENABLED SetLinkState(i, state), FALSE)
  /\ \A title \in Texts : Mirrors(NewWork(c), FALSE, ENABLED CreateWork(c, title), FALSE)
  /\ \A w \in RowsOf(works, c), title \in Texts :
       Mirrors(WorkEditForm(w, title), FALSE, ENABLED PatchWork(w, title), FALSE)
  /\ \A w \in RowsOf(works, c), flag \in BOOLEAN :
       Mirrors((IF flag THEN "archive" ELSE "restore") \in IntakeActions(works[w]), FALSE,
               ENABLED SetWorkArchived(w, flag), FALSE)
  /\ \A video \in Videos, title \in Texts :
       Mirrors(NewReportedItem(c), \E i \in RowsOf(items, c) : items[i].video = video,
               ENABLED CreateItem(c, video, title), FALSE)
  /\ \A i \in RowsOf(items, c), title \in Texts :
       Mirrors(ReportedItemEditForm(i, title), FALSE, ENABLED PatchItem(i, title), FALSE)
  /\ \A w \in Rows(works), i \in Rows(items), o \in Occurrences, p \in Provenances,
        basis \in OneOf(Sources) :
       Mirrors(NewMapping(c, w, i, basis) /\ ProvenanceFields(p, None, basis),
               \/ AnotherOwners(basis, c) \/ ~BasisReviewed(p, basis)
               \/ \E m \in Rows(mappings) :
                    <<mappings[m].work, mappings[m].item, mappings[m].occurrence>> = <<w, i, o>>,
               ENABLED CreateMapping(c, w, i, o, p, basis), Superseding(basis))
  /\ \A m \in RowsOf(mappings, c) :
       /\ \A p \in Provenances, basis \in OneOf(Sources) :
            Mirrors(MappingEditForm(m, p, basis) /\ ProvenanceFields(p, mappings[m].provenance, basis),
                    ~PartiesUnarchived(m) \/ AnotherOwners(basis, c) \/ ~BasisReviewed(p, basis),
                    ENABLED PatchMapping(m, p, basis), Superseding(basis))
       /\ Mirrors("archive" \in IntakeActions(mappings[m]), FALSE, ENABLED ArchiveMapping(m), FALSE)
       /\ Mirrors("restore" \in IntakeActions(mappings[m]),
                  ~PartiesUnarchived(m) \/ ~UsableOrNone(mappings[m].basis, caseTarget(c)),
                  ENABLED RestoreMapping(m), FALSE)

RevisionMirrors(c) ==
  /\ \A head \in OneOf(Rows(facts)), scope \in Scopes(c) \union {facts[f].scope : f \in RowsOf(facts, c)},
        p \in Provenances, supports \in SUBSET Rows(links) :
       Mirrors(FactDetail(c, head) /\ FactForm(c, head, scope, p, supports),
               \/ scope \notin Scopes(c)
               \/ \E i \in supports : ~Usable(links[i].source, caseTarget(c))
               \/ p = "DOCUMENT_REVIEWED" /\ \A i \in supports : links[i].source \notin Reviewed,
               ENABLED RecordFact(c, head, scope, p, supports), FALSE)
  /\ \A m \in Messages, item \in OneOf(Rows(items)), event \in {"NMI", "AS_SENT", "OUTCOME"},
        earlier \in OneOf(Rows(bindings)) :
       Mirrors(BindCorrespondenceForm(c, m, item, earlier),
               \/ event = "OUTCOME" /\ item = None
               \/ item # None /\ items[item].archived,
               ENABLED BindCorrespondence(c, m, item, event, earlier), FALSE)

\* Every form of the pages of cases and the commands it sends.
CaseFormsMirror ==
  /\ \A c \in Cases \ DOMAIN cases, rt \in OneOf(Routes), hint \in OneOf(Owners) :
       Mirrors(NewCasePage(CaseAgency[c], rt, hint), ~OwnerHintFits(hint, rt),
               ENABLED CreateCase(c, rt, hint), FALSE)
  /\ \A c \in DOMAIN cases : CaseRecordMirrors(c) /\ IntakeMirrors(c) /\ RevisionMirrors(c)
=============================================================================
