--------------------------- MODULE CaseContextProofs ---------------------------
(***************************************************************************)
(* Cases, their intake, the contexts read of them, the prompts made from   *)
(* these, and the validations of candidates drafted from a prompt: what    *)
(* ProductionContext and CandidateValidation state, for every instance.    *)
(*                                                                         *)
(* The invariant follows the records of a case.  Sources fit: not only     *)
(* what a case cites now but every link in use or ever recorded upon,      *)
(* every mapping in use or ever spoken of, and every selection, fits the   *)
(* party the case is bound to; so a row that is archived, unlinked or      *)
(* restored needs no more than the check its own write makes, and a case   *)
(* is bound to a route only after what it relies on was judged for it.     *)
(* Names hold: rows name rows of their own case, and each group of facts   *)
(* has one head.  And a review is a function of its digest and revision:   *)
(* the digest tells every part of the case data (DataTold), so that a      *)
(* prompt whose digest still stands shows what was reviewed.               *)
(* Likewise a validation's input is a function of its digest and of the    *)
(* sources its plan names (InputTold), and the plan matters only where it  *)
(* names what the case does not cite, which never passes (OutOfContext).   *)
(*                                                                         *)
(* Most writes touch one case (Touch): its revision moves, its tables grow *)
(* or change within it, and nothing of another case differs (Grows).       *)
(***************************************************************************)
EXTENDS CandidateValidation, PageScope, SequenceTheorems, FiniteSetTheorems, TLAPS

(* A case with rows is never deleted.                                      *)
RowsHaveCases ==
  /\ RowsOfCases(cases, links) /\ RowsOfCases(cases, works) /\ RowsOfCases(cases, items)
  /\ RowsOfCases(cases, mappings) /\ RowsOfCases(cases, facts) /\ RowsOfCases(cases, bindings)
  /\ RowsOfCases(cases, selections) /\ RowsOfCases(cases, prompts)

(* The columns of tables keep their types.                                 *)
Typed ==
  /\ DOMAIN cases \subseteq Cases /\ \A c \in DOMAIN cases : cases[c] \in CaseRows
  /\ links \in Seq(LinkRows) /\ works \in Seq(WorkRows) /\ items \in Seq(ItemRows)
  /\ mappings \in Seq(MappingRows) /\ facts \in Seq(FactRows)
  /\ bindings \in Seq(BindingRows) /\ selections \in Seq(SelectionRows)

\* The case's columns, and the rows that a context may still read.
SourcesFit ==
  /\ ColumnsFit(cases) /\ LinksFit(cases, links, facts) /\ MappingsFit(cases, mappings, facts)
  /\ SelectionsFit(cases, selections)

\* What rows name is of their own case.
NamesHold ==
  /\ MappingsName(works, items, mappings) /\ FactsName(links, works, items, mappings, facts)
  /\ FactsChain(facts) /\ BindingsName(items, bindings)

(* What a digest says of the case data (promptCaseData, part by part, with  *)
(* the rows as the digest covers them).                                    *)
Kept(content) == {i \in DOMAIN content : ~content[i].archived}
SupportsIn(digest) == UNION {digest.records.facts[f].supports : f \in DOMAIN digest.records.facts}

MissingIn(scope, digest) ==
  LET r == digest.records
  IN UNION {
       Absent("CASE_ROUTE_UNBOUND", digest.case.route = None),
       Absent("AUTHORITY_SELECTION_NOT_SELECTED", scope.selection = None),
       Absent("REPORTED_ITEMS_ABSENT", Kept(r.items) = {}),
       Absent("WORKS_ABSENT", Kept(r.works) = {}),
       Absent("USE_MAPPINGS_ABSENT", Kept(r.mappings) = {}),
       {<<"REPORTED_ITEM_UNMAPPED", i>> :
          i \in Kept(r.items) \ {r.mappings[m].item : m \in Kept(r.mappings)}},
       Absent("REPLY_PARENT_NOT_SELECTED", scope.task = "NMI_REPLY" /\ scope.parent = None),
       Absent("PRIOR_AS_SENT_NOT_SELECTED", scope.task = "NMI_REPLY" /\ scope.priors = {}),
       {<<"REPLY_PARENT_FULL_TEXT_ABSENT", r.bindings[b].message>> :
          b \in {p \in {scope.parent} \ {None} : Message[r.bindings[p].message].mode = "EXCERPT"}},
       {<<"PRIOR_AS_SENT_RAW_SOURCE_ABSENT", r.bindings[b].message>> :
          b \in {p \in scope.priors : Message[r.bindings[p].message].mode # "RAW_SOURCE"}},
       {<<"FACT_PROVENANCE_MISSING", f>> :
          f \in {g \in DOMAIN r.facts : r.facts[g].provenance = "MISSING"}}}

IntakeCitationsIn(c, digest) ==
  LET r == digest.records
  IN {t \in {Cites(digest.case.canonical, "CASE_CANONICAL", c), Cites(digest.case.packet, "CASE_PACKET", c)}
            \union {Cites(digest.links[i].source, "CASE_SOURCE", i) : i \in DOMAIN digest.links}
            \union {Cites(digest.links[i].source, "FACT_SUPPORT", i) : i \in SupportsIn(digest)}
            \union {Cites(r.mappings[m].basis, "MAPPING_BASIS", m) : m \in DOMAIN r.mappings}
      : t.source # None}
MessageCitationsIn(scope, digest) ==
  UNION {{Cites(s, "CORRESPONDENCE", m) : s \in Message[m].sources} :
           m \in {digest.records.bindings[b].message : b \in Named(scope)}}

ProblemIn(s, c, digest) ==
  LET problem == scopeProblem(s, caseTargetWith(c, digest.case.route))
  IN IF problem # None THEN problem
     ELSE IF digest.sources[s].other THEN "CROSS_OWNER_REFERENCE" ELSE None

NotApplicable(citations, code, c, digest) ==
  {<<code, ProblemIn(t.source, c, digest), t>> :
     t \in {u \in citations : ProblemIn(u.source, c, digest) # None}}
InConflict(content, code) == {<<code, i>> : i \in {j \in DOMAIN content : content[j].provenance = "CONFLICT"}}
ArchivedIn(content, kind) ==
  {<<"ARCHIVED_RECORD_REFERENCED", kind, i>> : i \in {j \in DOMAIN content : content[j].archived}}

ConflictsIn(scope, digest) ==
  LET c == scope.case
      r == digest.records
  IN UNION {
       ArchivedIn(r.items, "ReportedItem"), ArchivedIn(r.works, "CaseWork"),
       ArchivedIn(r.mappings, "UseMapping"),
       InConflict(r.mappings, "MAPPING_PROVENANCE_CONFLICT"),
       InConflict(r.facts, "FACT_PROVENANCE_CONFLICT"),
       {<<"SUPPORT_LINK_NOT_LINKED", i>> :
          i \in {j \in SupportsIn(digest) : digest.links[j].state # "LINKED"}},
       NotApplicable(IntakeCitationsIn(c, digest) \union SelectionCitations(scope),
                     "SOURCE_NOT_APPLICABLE", c, digest),
       NotApplicable(MessageCitationsIn(scope, digest), "CORRESPONDENCE_SOURCE_NOT_APPLICABLE",
                     c, digest)}

DataIn(scope, revision, digest) ==
  [scope |-> scope, revision |-> revision, code |-> digest.case.code,
   party |-> caseTargetWith(scope.case, digest.case.route), records |-> digest.records,
   sources |-> DOMAIN digest.sources, missing |-> MissingIn(scope, digest),
   conflicts |-> ConflictsIn(scope, digest)]

(* What a reader holds is what its digest says, and leaves room for the    *)
(* prompt.                                                                 *)
ReviewHolds ==
  review # None =>
    /\ Len(prompts) < MaxPrompts
    /\ review.scope.selection \in OneOf(Rows(selections))
    /\ review.data = DataIn(review.scope, review.revision, review.digest)

RowSet(table) == {table[i] : i \in Rows(table)}

PromptsTyped ==
  /\ prompts \in Seq(RowSet(prompts))
  /\ \A p \in Rows(prompts) : prompts[p].case \in Cases /\ prompts[p].version \in 1 .. MaxPrompts

IInv ==
  /\ Typed /\ outside \in OutsideRows /\ PromptsTyped
  /\ RowsHaveCases /\ SourcesFit /\ NamesHold
  /\ ReviewHolds /\ PromptsShowWhatWasReviewed
  /\ Len(prompts) <= MaxPrompts

----------------------------------------------------------------------------
(* Tables                                                                  *)

(* A table after a write of the case c: rows are added and changed, none   *)
(* is removed or moved to another case, and none of another case differs.  *)
Grows(old, new, c) ==
  /\ Rows(old) \subseteq Rows(new)
  /\ \A i \in Rows(old) : new[i].case = old[i].case /\ (old[i].case # c => new[i] = old[i])
  /\ \A i \in Rows(new) : i \in Rows(old) \/ new[i].case = c

LEMMA SameTable ==
  ASSUME NEW table, NEW c
  PROVE  Grows(table, table, c)
  BY DEF Grows

LEMMA AddRow ==
  ASSUME NEW T, NEW old \in Seq(T), NEW row \in T, NEW new, new = Append(old, row)
  PROVE  /\ new \in Seq(T) /\ Len(old) \in Nat /\ Rows(new) = Rows(old) \union {Len(old) + 1}
         /\ Len(old) + 1 \notin Rows(old) /\ new[Len(old) + 1] = row
         /\ \A i \in Rows(old) : new[i] = old[i]
         /\ Grows(old, new, row.case)
<1>1. /\ new \in Seq(T) /\ Len(old) \in Nat /\ Len(new) = Len(old) + 1
      /\ \A i \in 1 .. Len(old) : new[i] = old[i]
      /\ new[Len(old) + 1] = row
  BY AppendProperties, LenProperties
<1> QED
  BY <1>1 DEF Rows, Grows

Changed(table, i, row) == [table EXCEPT ![i] = row]

LEMMA Appended ==
  ASSUME NEW T, NEW old \in Seq(T), NEW row \in T
  PROVE  /\ Rows(Append(old, row)) = Rows(old) \union {Len(old) + 1}
         /\ Append(old, row)[Len(old) + 1] = row
         /\ \A i \in Rows(old) : Append(old, row)[i] = old[i]
<1>1. Len(old) \in Nat /\ Len(Append(old, row)) = Len(old) + 1
  BY AppendProperties, LenProperties
<1>2. Append(old, row)[Len(old) + 1] = row
  BY AppendProperties
<1>3. \A i \in 1 .. Len(old) : Append(old, row)[i] = old[i]
  BY AppendProperties
<1> QED
  BY <1>1, <1>2, <1>3 DEF Rows

LEMMA ChangeRow ==
  ASSUME NEW T, NEW old \in Seq(T), NEW i \in Rows(old), NEW row \in T, row.case = old[i].case,
         NEW new, new = Changed(old, i, row)
  PROVE  /\ new \in Seq(T) /\ Rows(new) = Rows(old)
         /\ \A j \in Rows(old) : new[j] = IF j = i THEN row ELSE old[j]
         /\ Grows(old, new, row.case)
<1>1. /\ new \in Seq(T) /\ Len(new) = Len(old)
      /\ \A j \in 1 .. Len(old) : new[j] = IF j = i THEN row ELSE old[j]
  BY ExceptSeq DEF Rows, Changed
<1> QED
  BY <1>1 DEF Rows, Grows

LEMMA RowOf ==
  ASSUME NEW T, NEW table \in Seq(T)
  PROVE  \A i \in Rows(table) : table[i] \in T /\ i \in Nat
  BY ElementOfSeq, LenProperties DEF Rows

LEMMA ContentStays ==
  ASSUME NEW old, NEW new, NEW c, NEW d, Grows(old, new, c), d # c
  PROVE  RowsOf(new, d) = RowsOf(old, d) /\ Content(new, RowsOf(new, d)) = Content(old, RowsOf(old, d))
  BY DEF Grows, RowsOf, Content

----------------------------------------------------------------------------
(* The scope rules do not see a route that is not bound.                   *)

LEMMA BindingNarrowsNothing ==
  ASSUME NEW s \in Sources, NEW c \in Cases, NEW rt \in Routes,
         scopeProblem(s, caseTargetWith(c, None)) = None
  PROVE  scopeProblem(s, caseTargetWith(c, rt)) = None
<1> DEFINE scope == Scope[s]
           unbound == caseTargetWith(c, None)
           bound == caseTargetWith(c, rt)
<1>1. /\ unbound.kind = "Case" /\ unbound.case = c /\ unbound.agency = CaseAgency[c]
      /\ unbound.subject = None
      /\ bound.kind = "Case" /\ bound.case = c /\ bound.agency = CaseAgency[c]
  BY RecordsAssumption DEF caseTargetWith, Target
<1>2. AgencyProblem(scope, bound) = AgencyProblem(scope, unbound)
  BY <1>1 DEF AgencyProblem
<1>3. None \notin scope.subjects
  BY ScopeAssumption
<1> HIDE DEF unbound, bound, scope
<1>4. AgencyProblem(scope, unbound) = None /\ SubjectProblem(scope, unbound) = None
  BY DEF scopeProblem, scope, unbound
<1>5. scope.subjects = {}
  <2>1. None # "CASE_SUBJECT_UNBOUND" /\ None # "SCOPED_TO_OTHER_SUBJECT"
    BY RecordsAssumption
  <2> QED
    BY <1>1, <1>3, <1>4, <2>1 DEF SubjectProblem
<1>6. SubjectProblem(scope, bound) = None
  BY <1>1, <1>5 DEF SubjectProblem
<1> QED
  BY <1>2, <1>4, <1>6 DEF scopeProblem, scope, bound

LEMMA UsableFits ==
  ASSUME NEW s, NEW c, NEW rt, Usable(s, caseTargetWith(c, rt))
  PROVE  scopeProblem(s, caseTargetWith(c, rt)) = None
  BY DEF Usable, applicabilityProblem

----------------------------------------------------------------------------
(* Writes that touch a case.                                               *)

(* A write of the intake of c: it moves the revision of c and leaves its   *)
(* parties and columns alone, and its rows are those of c.                 *)
Touch(c) ==
  /\ Writable(c)
  /\ \A d \in DOMAIN cases : d # c => cases'[d] = cases[d]
  /\ DOMAIN cases' = DOMAIN cases /\ cases'[c] \in CaseRows
  /\ cases'[c].route = cases[c].route /\ cases'[c].canonical = cases[c].canonical
  /\ cases'[c].packet = cases[c].packet /\ cases'[c].revision = cases[c].revision + 1
  /\ links' \in Seq(LinkRows) /\ works' \in Seq(WorkRows) /\ items' \in Seq(ItemRows)
  /\ mappings' \in Seq(MappingRows) /\ facts' \in Seq(FactRows)
  /\ bindings' \in Seq(BindingRows) /\ selections' \in Seq(SelectionRows)
  /\ Grows(links, links', c) /\ Grows(works, works', c) /\ Grows(items, items', c)
  /\ Grows(mappings, mappings', c) /\ Grows(facts, facts', c) /\ Grows(bindings, bindings', c)
  /\ Grows(selections, selections', c)
  /\ \A i \in Rows(selections) : selections'[i] = selections[i]
  /\ prompts' = prompts /\ outside' = outside

LEMMA MovedRow ==
  ASSUME NEW row \in CaseRows, NEW material \in BOOLEAN
  PROVE  /\ Moved(row, material) \in CaseRows
         /\ Moved(row, material).revision = IF material THEN row.revision + 1 ELSE row.revision
         /\ Moved(row, material).route = row.route /\ Moved(row, material).canonical = row.canonical
         /\ Moved(row, material).packet = row.packet /\ Moved(row, material).archived = row.archived
<1> DEFINE revision == IF material THEN row.revision + 1 ELSE row.revision
<1>1. row.revision \in Nat /\ row.version \in Nat
  BY DEF CaseRows
<1>2. revision \in Nat /\ row.version + 1 \in Nat
  BY <1>1
<1>3. Moved(row, material) = [row EXCEPT !.version = row.version + 1, !.revision = revision]
  BY DEF Moved, CaseRows
<1> HIDE DEF revision
<1>4. Moved(row, material) \in CaseRows
  BY <1>2, <1>3 DEF CaseRows
<1>5. /\ Moved(row, material).revision = revision
      /\ Moved(row, material).route = row.route /\ Moved(row, material).canonical = row.canonical
      /\ Moved(row, material).packet = row.packet /\ Moved(row, material).archived = row.archived
  BY <1>3 DEF CaseRows
<1> QED
  BY <1>4, <1>5 DEF revision

(* The case's row when a write of its intake touches it.                   *)
LEMMA Touched ==
  ASSUME Typed, NEW c, Writable(c), touchCase(c, TRUE)
  PROVE  /\ \A d \in DOMAIN cases : d # c => cases'[d] = cases[d]
         /\ DOMAIN cases' = DOMAIN cases /\ cases'[c] \in CaseRows
         /\ cases'[c].route = cases[c].route /\ cases'[c].canonical = cases[c].canonical
         /\ cases'[c].packet = cases[c].packet /\ cases'[c].revision = cases[c].revision + 1
<1>1. c \in DOMAIN cases /\ cases[c] \in CaseRows
  BY DEF Typed, Writable, lockCase
<1>2. cases'[c] = Moved(cases[c], TRUE)
  BY <1>1 DEF touchCase
<1> QED
  BY <1>1, <1>2, MovedRow DEF touchCase

LEMMA LinkSourceTouches ==
  ASSUME Typed, NEW c, NEW s \in Sources, NEW role \in Roles, LinkSource(c, s, role)
  PROVE  Touch(c)
<1> DEFINE row == [case |-> c, source |-> s, role |-> role, state |-> "LINKED"]
<1>1. row \in LinkRows /\ row.case = c /\ links' = Append(links, row)
  BY DEF LinkSource, Writable, lockCase, Typed, LinkRows
<1> HIDE DEF row
<1>2. links' \in Seq(LinkRows) /\ Grows(links, links', c)
  BY <1>1, AddRow DEF Typed
<1>3. Writable(c) /\ touchCase(c, TRUE) /\ UNCHANGED OtherThanLinks
  BY DEF LinkSource
<1> QED
  BY <1>2, <1>3, Touched, SameTable DEF Touch, OtherThanLinks, Typed

LEMMA SetLinkStateTouches ==
  ASSUME Typed, NEW i \in Rows(links), NEW state \in {"LINKED", "PAUSED", "UNLINKED"},
         SetLinkState(i, state)
  PROVE  Touch(links[i].case)
<1> DEFINE row == [links[i] EXCEPT !.state = state]
<1>1. links[i] \in LinkRows
  BY RowOf DEF Typed
<1>2. row \in LinkRows /\ row.case = links[i].case
  BY <1>1 DEF LinkRows
<1>3. links' = Changed(links, i, row)
  BY DEF SetLinkState, Changed
<1> HIDE DEF row
<1>4. links' \in Seq(LinkRows) /\ Grows(links, links', links[i].case)
  <2>1. links \in Seq(LinkRows)
    BY DEF Typed
  <2> QED
    BY <1>2, <1>3, <2>1, ChangeRow
<1>5. Writable(links[i].case) /\ touchCase(links[i].case, TRUE) /\ UNCHANGED OtherThanLinks
  BY DEF SetLinkState
<1> QED
  BY <1>4, <1>5, Touched, SameTable DEF Touch, OtherThanLinks, Typed

LEMMA CreateWorkTouches ==
  ASSUME Typed, outside \in OutsideRows, NEW c, NEW title \in Texts,
         CreateWork(c, title)
  PROVE  Touch(c)
<1> DEFINE row == [case |-> c, title |-> title, archived |-> FALSE]
<1>1. c \in Cases
  BY DEF CreateWork, Writable, lockCase, Typed
<1>2. row \in WorkRows /\ row.case = c
  BY <1>1 DEF WorkRows, OneOf
<1>3. works' = Append(works, row)
  BY DEF CreateWork
<1> HIDE DEF row
<1>4. works' \in Seq(WorkRows) /\ Grows(works, works', c)
  BY <1>2, <1>3, AddRow DEF Typed
<1>5. Writable(c) /\ touchCase(c, TRUE) /\ UNCHANGED OtherThanWorks
  BY DEF CreateWork
<1> QED
  BY <1>4, <1>5, Touched, SameTable DEF Touch, Typed, OtherThanWorks

LEMMA CreateItemTouches ==
  ASSUME Typed, outside \in OutsideRows, NEW c, NEW video \in Videos, NEW title \in Texts,
         CreateItem(c, video, title)
  PROVE  Touch(c)
<1> DEFINE row == [case |-> c, video |-> video, title |-> title, archived |-> FALSE]
<1>1. c \in Cases
  BY DEF CreateItem, Writable, lockCase, Typed
<1>2. row \in ItemRows /\ row.case = c
  BY <1>1 DEF ItemRows, OneOf
<1>3. items' = Append(items, row)
  BY DEF CreateItem
<1> HIDE DEF row
<1>4. items' \in Seq(ItemRows) /\ Grows(items, items', c)
  BY <1>2, <1>3, AddRow DEF Typed
<1>5. Writable(c) /\ touchCase(c, TRUE) /\ UNCHANGED OtherThanItems
  BY DEF CreateItem
<1> QED
  BY <1>4, <1>5, Touched, SameTable DEF Touch, Typed, OtherThanItems

LEMMA PatchWorkTouches ==
  ASSUME Typed, NEW w \in Rows(works), NEW title \in Texts, PatchWork(w, title)
  PROVE  Touch(works[w].case)
<1> DEFINE row == [works[w] EXCEPT !.title = title]
<1>1. works[w] \in WorkRows
  BY RowOf DEF Typed
<1>2. row \in WorkRows /\ row.case = works[w].case
  BY <1>1 DEF WorkRows
<1>3. works' = Changed(works, w, row)
  BY DEF PatchWork, Changed
<1> HIDE DEF row
<1>4. works' \in Seq(WorkRows) /\ Grows(works, works', works[w].case)
  <2>1. works \in Seq(WorkRows)
    BY DEF Typed
  <2> QED
    BY <1>2, <1>3, <2>1, ChangeRow
<1>5. /\ Writable(works[w].case) /\ touchCase(works[w].case, TRUE)
      /\ UNCHANGED OtherThanWorks
  BY DEF PatchWork
<1> QED
  BY <1>4, <1>5, Touched, SameTable DEF Touch, OtherThanWorks, Typed

LEMMA SetWorkArchivedTouches ==
  ASSUME Typed, NEW w \in Rows(works), NEW flag \in BOOLEAN, SetWorkArchived(w, flag)
  PROVE  Touch(works[w].case)
<1> DEFINE row == [works[w] EXCEPT !.archived = flag]
<1>1. works[w] \in WorkRows
  BY RowOf DEF Typed
<1>2. row \in WorkRows /\ row.case = works[w].case
  BY <1>1 DEF WorkRows
<1>3. works' = Changed(works, w, row)
  BY DEF SetWorkArchived, Changed, Archived
<1> HIDE DEF row
<1>4. works' \in Seq(WorkRows) /\ Grows(works, works', works[w].case)
  <2>1. works \in Seq(WorkRows)
    BY DEF Typed
  <2> QED
    BY <1>2, <1>3, <2>1, ChangeRow
<1>5. /\ Writable(works[w].case) /\ touchCase(works[w].case, TRUE)
      /\ UNCHANGED OtherThanWorks
  BY DEF SetWorkArchived
<1> QED
  BY <1>4, <1>5, Touched, SameTable DEF Touch, OtherThanWorks, Typed

LEMMA PatchItemTouches ==
  ASSUME Typed, NEW i \in Rows(items), NEW title \in Texts, PatchItem(i, title)
  PROVE  Touch(items[i].case)
<1> DEFINE row == [items[i] EXCEPT !.title = title]
<1>1. items[i] \in ItemRows
  BY RowOf DEF Typed
<1>2. row \in ItemRows /\ row.case = items[i].case
  BY <1>1 DEF ItemRows
<1>3. items' = Changed(items, i, row)
  BY DEF PatchItem, Changed
<1> HIDE DEF row
<1>4. items' \in Seq(ItemRows) /\ Grows(items, items', items[i].case)
  <2>1. items \in Seq(ItemRows)
    BY DEF Typed
  <2> QED
    BY <1>2, <1>3, <2>1, ChangeRow
<1>5. /\ Writable(items[i].case) /\ touchCase(items[i].case, TRUE)
      /\ UNCHANGED OtherThanItems
  BY DEF PatchItem
<1> QED
  BY <1>4, <1>5, Touched, SameTable DEF Touch, OtherThanItems, Typed

LEMMA SetItemArchivedTouches ==
  ASSUME Typed, NEW i \in Rows(items), NEW flag \in BOOLEAN, SetItemArchived(i, flag)
  PROVE  Touch(items[i].case)
<1> DEFINE row == [items[i] EXCEPT !.archived = flag]
<1>1. items[i] \in ItemRows
  BY RowOf DEF Typed
<1>2. row \in ItemRows /\ row.case = items[i].case
  BY <1>1 DEF ItemRows
<1>3. items' = Changed(items, i, row)
  BY DEF SetItemArchived, Changed, Archived
<1> HIDE DEF row
<1>4. items' \in Seq(ItemRows) /\ Grows(items, items', items[i].case)
  <2>1. items \in Seq(ItemRows)
    BY DEF Typed
  <2> QED
    BY <1>2, <1>3, <2>1, ChangeRow
<1>5. /\ Writable(items[i].case) /\ touchCase(items[i].case, TRUE)
      /\ UNCHANGED OtherThanItems
  BY DEF SetItemArchived
<1> QED
  BY <1>4, <1>5, Touched, SameTable DEF Touch, OtherThanItems, Typed

LEMMA CreateMappingTouches ==
  ASSUME Typed, outside \in OutsideRows, NEW c, NEW w \in Rows(works), NEW i \in Rows(items),
         NEW occurrence \in Occurrences,
         NEW provenance \in Provenances, NEW basis \in OneOf(Sources),
         CreateMapping(c, w, i, occurrence, provenance, basis)
  PROVE  Touch(c)
<1> DEFINE row == [case |-> c, work |-> w, item |-> i, occurrence |-> occurrence,
                   provenance |-> provenance, basis |-> basis, archived |-> FALSE]
<1>1. c \in Cases
  BY DEF CreateMapping, Writable, lockCase, Typed
<1>2. row \in MappingRows /\ row.case = c
  BY <1>1, RowOf DEF MappingRows, Typed
<1>3. mappings' = Append(mappings, row)
  BY DEF CreateMapping
<1> HIDE DEF row
<1>4. mappings' \in Seq(MappingRows) /\ Grows(mappings, mappings', c)
  BY <1>2, <1>3, AddRow DEF Typed
<1>5. Writable(c) /\ touchCase(c, TRUE) /\ UNCHANGED OtherThanMappings
  BY DEF CreateMapping
<1> QED
  BY <1>4, <1>5, Touched, SameTable DEF Touch, Typed, OtherThanMappings

LEMMA PatchMappingTouches ==
  ASSUME Typed, NEW m \in Rows(mappings), NEW provenance \in Provenances,
         NEW basis \in OneOf(Sources), PatchMapping(m, provenance, basis)
  PROVE  Touch(mappings[m].case)
<1> DEFINE row == [mappings[m] EXCEPT !.provenance = provenance, !.basis = basis]
<1>1. mappings[m] \in MappingRows
  BY RowOf DEF Typed
<1>2. row \in MappingRows /\ row.case = mappings[m].case
  BY <1>1 DEF MappingRows
<1>3. mappings' = Changed(mappings, m, row)
  BY DEF PatchMapping, Changed
<1> HIDE DEF row
<1>4. mappings' \in Seq(MappingRows) /\ Grows(mappings, mappings', mappings[m].case)
  <2>1. mappings \in Seq(MappingRows)
    BY DEF Typed
  <2> QED
    BY <1>2, <1>3, <2>1, ChangeRow
<1>5. /\ Writable(mappings[m].case) /\ touchCase(mappings[m].case, TRUE)
      /\ UNCHANGED OtherThanMappings
  BY DEF PatchMapping
<1> QED
  BY <1>4, <1>5, Touched, SameTable DEF Touch, OtherThanMappings, Typed

LEMMA ArchiveMappingTouches ==
  ASSUME Typed, NEW m \in Rows(mappings), ArchiveMapping(m)
  PROVE  Touch(mappings[m].case)
<1> DEFINE row == [mappings[m] EXCEPT !.archived = TRUE]
<1>1. mappings[m] \in MappingRows
  BY RowOf DEF Typed
<1>2. row \in MappingRows /\ row.case = mappings[m].case
  BY <1>1 DEF MappingRows
<1>3. mappings' = Changed(mappings, m, row)
  BY DEF ArchiveMapping, Changed, Archived
<1> HIDE DEF row
<1>4. mappings' \in Seq(MappingRows) /\ Grows(mappings, mappings', mappings[m].case)
  <2>1. mappings \in Seq(MappingRows)
    BY DEF Typed
  <2> QED
    BY <1>2, <1>3, <2>1, ChangeRow
<1>5. /\ Writable(mappings[m].case) /\ touchCase(mappings[m].case, TRUE)
      /\ UNCHANGED OtherThanMappings
  BY DEF ArchiveMapping
<1> QED
  BY <1>4, <1>5, Touched, SameTable DEF Touch, OtherThanMappings, Typed

LEMMA RestoreMappingTouches ==
  ASSUME Typed, NEW m \in Rows(mappings), RestoreMapping(m)
  PROVE  Touch(mappings[m].case)
<1> DEFINE row == [mappings[m] EXCEPT !.archived = FALSE]
<1>1. mappings[m] \in MappingRows
  BY RowOf DEF Typed
<1>2. row \in MappingRows /\ row.case = mappings[m].case
  BY <1>1 DEF MappingRows
<1>3. mappings' = Changed(mappings, m, row)
  BY DEF RestoreMapping, Changed, Archived
<1> HIDE DEF row
<1>4. mappings' \in Seq(MappingRows) /\ Grows(mappings, mappings', mappings[m].case)
  <2>1. mappings \in Seq(MappingRows)
    BY DEF Typed
  <2> QED
    BY <1>2, <1>3, <2>1, ChangeRow
<1>5. /\ Writable(mappings[m].case) /\ touchCase(mappings[m].case, TRUE)
      /\ UNCHANGED OtherThanMappings
  BY DEF RestoreMapping
<1> QED
  BY <1>4, <1>5, Touched, SameTable DEF Touch, OtherThanMappings, Typed

LEMMA RecordFactTouches ==
  ASSUME Typed, outside \in OutsideRows, NEW c, NEW head \in OneOf(Rows(facts)), NEW scope \in Scopes(c),
         NEW provenance \in Provenances, NEW supports \in SUBSET Rows(links),
         RecordFact(c, head, scope, provenance, supports)
  PROVE  Touch(c)
<1> DEFINE row == [case |-> c, group |-> HeadGroup(head), supersedes |-> head, scope |-> scope,
                   provenance |-> provenance, supports |-> supports]
<1>1. c \in Cases
  BY DEF RecordFact, Writable, lockCase, Typed
<1>11. /\ \A i \in Rows(facts) : facts[i] \in FactRows /\ i \in Nat
      /\ \A i \in Rows(links) : i \in Nat
  BY RowOf DEF Typed
<1>12. HeadGroup(head) \in Nat /\ head \in OneOf(Nat)
  <2>1. Len(facts) \in Nat
    BY LenProperties DEF Typed
  <2> QED
    BY <1>11, <2>1 DEF HeadGroup, OneOf, FactRows
<1>13. supports \in SUBSET Nat
  BY <1>11
<1>14. scope \in [kind : {"CASE", "WORK", "ITEM", "USE"}, row : OneOf(Nat)]
  <2>1. \A i \in Rows(works) \union Rows(items) \union Rows(mappings) : i \in Nat
    BY RowOf DEF Typed
  <2>2. \A k \in {"WORK", "ITEM", "USE"} : Unarchived(TableOf(k), c) \subseteq Nat
    BY <2>1 DEF TableOf, Unarchived, RowsOf
  <2> HIDE DEF row
  <2>3. CASE scope = [kind |-> "CASE", row |-> None]
    BY <2>3 DEF OneOf
  <2>4. ASSUME NEW k \in {"WORK", "ITEM", "USE"}, NEW i \in Unarchived(TableOf(k), c),
               scope = [kind |-> k, row |-> i]
        PROVE  scope \in [kind : {"CASE", "WORK", "ITEM", "USE"}, row : OneOf(Nat)]
    BY <2>2, <2>4 DEF OneOf
  <2> QED
    BY <2>3, <2>4 DEF Scopes
<1>2. row \in FactRows /\ row.case = c
  BY <1>1, <1>12, <1>13, <1>14 DEF FactRows
<1>3. facts' = Append(facts, row)
  BY DEF RecordFact
<1> HIDE DEF row
<1>4. facts' \in Seq(FactRows) /\ Grows(facts, facts', c)
  BY <1>2, <1>3, AddRow DEF Typed
<1>5. /\ Writable(c) /\ touchCase(c, TRUE)
      /\ UNCHANGED <<links, works, items, mappings, bindings, selections, prompts, outside>>
  BY DEF RecordFact
<1> QED
  BY <1>4, <1>5, Touched, SameTable DEF Touch, Typed

LEMMA BindCorrespondenceTouches ==
  ASSUME Typed, outside \in OutsideRows, NEW c, NEW m \in outside.captured, NEW item \in OneOf(Rows(items)),
         NEW event \in {"NMI", "AS_SENT", "OUTCOME"}, NEW earlier \in OneOf(Rows(bindings)),
         BindCorrespondence(c, m, item, event, earlier)
  PROVE  Touch(c)
<1> DEFINE row == [case |-> c, message |-> m, item |-> item, event |-> event, supersedes |-> earlier]
<1>1. c \in Cases
  BY DEF BindCorrespondence, Writable, lockCase, Typed
<1>11. m \in Messages
  BY DEF OutsideRows
<1>12. item \in OneOf(Nat) /\ earlier \in OneOf(Nat)
  BY RowOf DEF OneOf, Typed
<1>2. row \in BindingRows /\ row.case = c
  BY <1>1, <1>11, <1>12 DEF BindingRows
<1>3. bindings' = Append(bindings, row)
  BY DEF BindCorrespondence
<1> HIDE DEF row
<1>4. bindings' \in Seq(BindingRows) /\ Grows(bindings, bindings', c)
  BY <1>2, <1>3, AddRow DEF Typed
<1>5. /\ Writable(c) /\ touchCase(c, TRUE)
      /\ UNCHANGED <<links, works, items, mappings, facts, selections, prompts, outside>>
  BY DEF BindCorrespondence
<1> QED
  BY <1>4, <1>5, Touched, SameTable DEF Touch, Typed

LEMMA SelectAuthorityTouches ==
  ASSUME Typed, NEW c, NEW basis \in OneOf(Sources), SelectAuthority(c, basis)
  PROVE  Touch(c)
<1> DEFINE row == [case |-> c, route |-> cases[c].route, basis |-> basis]
           moved == [cases[c] EXCEPT !.selection = Len(selections) + 1]
<1>1. /\ c \in Cases /\ c \in DOMAIN cases /\ cases[c] \in CaseRows /\ Writable(c)
      /\ Len(selections) \in Nat
  BY LenProperties DEF SelectAuthority, Writable, lockCase, Typed
<1>2. cases[c].route \in Routes /\ row \in SelectionRows /\ row.case = c
  BY <1>1 DEF SelectAuthority, CaseRows, OneOf, SelectionRows
<1>3. /\ moved \in CaseRows /\ moved.route = cases[c].route /\ moved.canonical = cases[c].canonical
      /\ moved.packet = cases[c].packet /\ moved.revision = cases[c].revision
  BY <1>1 DEF CaseRows, OneOf
<1>4. /\ selections' = Append(selections, row)
      /\ UNCHANGED <<links, works, items, mappings, facts, bindings, prompts, outside>>
  BY DEF SelectAuthority
<1>5. cases' = [cases EXCEPT ![c] = Moved(moved, TRUE)]
  BY DEF SelectAuthority
<1> HIDE DEF row, moved
<1>6. /\ selections' \in Seq(SelectionRows) /\ Grows(selections, selections', c)
      /\ \A i \in Rows(selections) : selections'[i] = selections[i]
  <2>1. selections \in Seq(SelectionRows)
    BY DEF Typed
  <2>2. row \in SelectionRows /\ selections' = Append(selections, row) /\ row.case = c
    BY <1>2, <1>4
  <2>3. selections' \in Seq(SelectionRows)
    BY <2>1, <2>2, AddRow
  <2>4. Grows(selections, selections', row.case)
    BY <2>1, <2>2, AddRow
  <2>5. \A i \in Rows(selections) : selections'[i] = selections[i]
    BY <2>1, <2>2, AppendProperties DEF Rows
  <2> QED
    BY <2>2, <2>3, <2>4, <2>5
<1>7. /\ cases'[c] = Moved(moved, TRUE) /\ DOMAIN cases' = DOMAIN cases
      /\ \A d \in DOMAIN cases : d # c => cases'[d] = cases[d]
  BY <1>1, <1>5
<1>8. /\ cases'[c] \in CaseRows /\ cases'[c].route = cases[c].route
      /\ cases'[c].canonical = cases[c].canonical /\ cases'[c].packet = cases[c].packet
      /\ cases'[c].revision = cases[c].revision + 1
  <2>1. moved \in CaseRows
    BY <1>3
  <2>2. Moved(moved, TRUE) \in CaseRows
    BY <2>1, MovedRow
  <2>3. /\ Moved(moved, TRUE).revision = moved.revision + 1 /\ Moved(moved, TRUE).route = moved.route
        /\ Moved(moved, TRUE).canonical = moved.canonical
        /\ Moved(moved, TRUE).packet = moved.packet
    BY <2>1, MovedRow
  <2> QED
    BY <1>3, <1>7, <2>2, <2>3
<1> QED
  BY <1>1, <1>4, <1>6, <1>7, <1>8, SameTable DEF Touch, Typed

----------------------------------------------------------------------------
(* What such a write leaves as it was.                                     *)

LEMMA GrowsKeepsRows ==
  ASSUME NEW old, NEW new, NEW c, Grows(old, new, c)
  PROVE  \A d : RowsOf(old, d) \subseteq RowsOf(new, d)
  BY DEF Grows, RowsOf

LEMMA GrowsInCases ==
  ASSUME NEW old, NEW new, NEW cs, NEW c \in DOMAIN cs, Grows(old, new, c), RowsOfCases(cs, old)
  PROVE  RowsOfCases(cs, new)
  BY DEF Grows, RowsOfCases

LEMMA RowsOfSameCases ==
  ASSUME NEW table, NEW cs, NEW cn, DOMAIN cs \subseteq DOMAIN cn, RowsOfCases(cs, table)
  PROVE  RowsOfCases(cn, table)
  BY DEF RowsOfCases

LEMMA TouchFits ==
  ASSUME NEW c, Touch(c)
  PROVE  \A s : \A d \in DOMAIN cases : Fits(cases', s, d) <=> Fits(cases, s, d)
  BY DEF Touch, Fits, Writable, lockCase

LEMMA TouchKeeps ==
  ASSUME IInv, NEW c, Touch(c), review' = review
  PROVE  /\ Typed' /\ outside' \in OutsideRows /\ PromptsTyped' /\ RowsHaveCases'
         /\ ColumnsFit(cases') /\ ReviewHolds' /\ PromptsShowWhatWasReviewed'
         /\ Len(prompts') <= MaxPrompts
<1>1. Typed'
  BY DEF IInv, Typed, Touch
<1>2. outside' \in OutsideRows /\ PromptsTyped' /\ PromptsShowWhatWasReviewed'
      /\ Len(prompts') <= MaxPrompts
  BY DEF IInv, Touch, PromptsTyped, PromptsShowWhatWasReviewed
<1>3. c \in DOMAIN cases /\ DOMAIN cases' = DOMAIN cases
  BY DEF Touch, Writable, lockCase
<1>4. RowsHaveCases'
  BY <1>3, GrowsInCases, RowsOfSameCases DEF IInv, RowsHaveCases, Touch
<1>5. ColumnsFit(cases')
  BY <1>3, TouchFits DEF IInv, SourcesFit, ColumnsFit, Touch
<1>6. ReviewHolds'
  <2>1. \A scope : scope.selection \in OneOf(Rows(selections)) =>
          /\ SelectionCitations(scope)' = SelectionCitations(scope)
          /\ scope.selection \in OneOf(Rows(selections'))
    BY DEF Touch, Grows, SelectionCitations, OneOf
  <2>2. \A scope, revision, digest :
          scope.selection \in OneOf(Rows(selections)) =>
            DataIn(scope, revision, digest)' = DataIn(scope, revision, digest)
    BY <2>1 DEF DataIn, ConflictsIn
  <2> QED
    BY <2>1, <2>2 DEF IInv, ReviewHolds, Touch
<1> QED
  BY <1>1, <1>2, <1>4, <1>5, <1>6

LEMMA TouchLeaves ==
  ASSUME IInv, NEW c, Touch(c)
  PROVE  /\ links' = links /\ facts' = facts => LinksFit(cases', links', facts')
         /\ mappings' = mappings /\ facts' = facts => MappingsFit(cases', mappings', facts')
         /\ selections' = selections => SelectionsFit(cases', selections')
         /\ mappings' = mappings => MappingsName(works', items', mappings')
         /\ facts' = facts => FactsName(links', works', items', mappings', facts')
         /\ facts' = facts => FactsChain(facts')
         /\ bindings' = bindings => BindingsName(items', bindings')
<1>1. /\ RowsOfCases(cases, links) /\ RowsOfCases(cases, mappings) /\ RowsOfCases(cases, selections)
  BY DEF IInv, RowsHaveCases
<1>2. links' = links /\ facts' = facts => LinksFit(cases', links', facts')
  BY <1>1, TouchFits DEF IInv, SourcesFit, LinksFit, RowsOfCases
<1>3. mappings' = mappings /\ facts' = facts => MappingsFit(cases', mappings', facts')
  BY <1>1, TouchFits DEF IInv, SourcesFit, MappingsFit, RowsOfCases
<1>4. \A d \in DOMAIN cases : cases'[d].route = cases[d].route
  BY DEF Touch
<1>5. selections' = selections => SelectionsFit(cases', selections')
  BY <1>1, <1>4, TouchFits DEF IInv, SourcesFit, SelectionsFit, RowsOfCases
<1>6. \A d : /\ RowsOf(links, d) \subseteq RowsOf(links', d)
             /\ RowsOf(works, d) \subseteq RowsOf(works', d)
             /\ RowsOf(items, d) \subseteq RowsOf(items', d)
             /\ RowsOf(mappings, d) \subseteq RowsOf(mappings', d)
  BY GrowsKeepsRows DEF Touch
<1>7. mappings' = mappings => MappingsName(works', items', mappings')
  BY <1>6 DEF IInv, NamesHold, MappingsName
<1>8. facts' = facts => FactsName(links', works', items', mappings', facts')
  BY <1>6 DEF IInv, NamesHold, FactsName
<1>9. facts' = facts => FactsChain(facts')
  BY DEF IInv, NamesHold
<1>10. bindings' = bindings => BindingsName(items', bindings')
  BY <1>6 DEF IInv, NamesHold, BindingsName, OneOf
<1> QED
  BY <1>2, <1>3, <1>5, <1>7, <1>8, <1>9, <1>10

----------------------------------------------------------------------------
(* Each write of a table keeps the invariant.                              *)

LEMMA LinkSourceKeeps ==
  ASSUME IInv, review' = review, NEW c, NEW s \in Sources, NEW role \in Roles, LinkSource(c, s, role)
  PROVE  IInv'
<1> DEFINE row == [case |-> c, source |-> s, role |-> role, state |-> "LINKED"]
<1>1. Typed /\ links \in Seq(LinkRows)
  BY DEF IInv, Typed
<1>2. Touch(c)
  BY <1>1, LinkSourceTouches
<1>3. /\ UNCHANGED OtherThanLinks /\ links' = Append(links, row) /\ c \in DOMAIN cases
      /\ Usable(s, caseTarget(c))
  BY DEF LinkSource, Writable, lockCase
<1>4. row \in LinkRows /\ row.source = s /\ row.case = c
  BY <1>1, <1>3 DEF LinkRows, Typed
<1> HIDE DEF row
<1>5. /\ Rows(links') = Rows(links) \union {Len(links) + 1} /\ links'[Len(links) + 1] = row
      /\ \A i \in Rows(links) : links'[i] = links[i]
  <2>1. links \in Seq(LinkRows) /\ row \in LinkRows
    BY <1>1, <1>4
  <2>2. links' = Append(links, row)
    BY <1>3
  <2>3. Rows(links') = Rows(links) \union {Len(links) + 1}
    BY <2>1, <2>2, Appended
  <2>4. links'[Len(links) + 1] = row
    BY <2>1, <2>2, Appended
  <2>5. \A i \in Rows(links) : links'[i] = links[i]
    BY <2>1, <2>2, AppendProperties DEF Rows
  <2> QED
    BY <2>3, <2>4, <2>5
<1>6. Fits(cases, s, c)
  BY <1>3, UsableFits DEF Fits, caseTarget
<1>7. LinksFit(cases', links', facts')
  <2>1. LinksFit(cases, links, facts) /\ RowsOfCases(cases, links) /\ facts' = facts
    BY <1>3 DEF IInv, SourcesFit, RowsHaveCases, OtherThanLinks
  <2> QED
    BY <1>2, <1>3, <1>4, <1>5, <1>6, <2>1, TouchFits DEF LinksFit, RowsOfCases
<1> QED
  BY <1>2, <1>3, <1>7, TouchKeeps, TouchLeaves DEF IInv, SourcesFit, NamesHold, OtherThanLinks

LEMMA SetLinkStateKeeps ==
  ASSUME IInv, review' = review, NEW i \in Rows(links), NEW state \in {"LINKED", "PAUSED", "UNLINKED"},
         SetLinkState(i, state)
  PROVE  IInv'
<1> DEFINE row == [links[i] EXCEPT !.state = state]
           c == links[i].case
<1>1. Typed /\ links \in Seq(LinkRows) /\ links[i] \in LinkRows
  BY RowOf DEF IInv, Typed
<1>2. Touch(c)
  BY <1>1, SetLinkStateTouches
<1>3. /\ UNCHANGED OtherThanLinks /\ c \in DOMAIN cases
      /\ state = "LINKED" => Usable(links[i].source, caseTarget(c))
  BY DEF SetLinkState, Writable, lockCase
<1>4. row \in LinkRows /\ row.source = links[i].source /\ row.case = c /\ row.state = state
  BY <1>1 DEF LinkRows
<1>5. links' = Changed(links, i, row)
  BY DEF SetLinkState, Changed
<1> HIDE DEF row
<1>6. Rows(links') = Rows(links) /\ \A j \in Rows(links) : links'[j] = IF j = i THEN row ELSE links[j]
  BY <1>1, <1>4, <1>5, ChangeRow
<1>7. state = "LINKED" => Fits(cases, links[i].source, c)
  BY <1>3, UsableFits DEF Fits, caseTarget
<1>8. LinksFit(cases', links', facts')
  <2>1. LinksFit(cases, links, facts) /\ RowsOfCases(cases, links) /\ facts' = facts
    BY <1>3 DEF IInv, SourcesFit, RowsHaveCases, OtherThanLinks
  <2> QED
    BY <1>2, <1>3, <1>4, <1>6, <1>7, <2>1, TouchFits DEF LinksFit, RowsOfCases
<1> QED
  BY <1>2, <1>3, <1>8, TouchKeeps, TouchLeaves DEF IInv, SourcesFit, NamesHold, OtherThanLinks

(* The works and items of a case: no other rule reads what changes in      *)
(* them.                                                                   *)
LEMMA WorksAndItemsKeep ==
  ASSUME IInv, review' = review, NEW c, Touch(c),
         UNCHANGED <<links, mappings, facts, bindings, selections>>
  PROVE  IInv'
  BY TouchKeeps, TouchLeaves DEF IInv, SourcesFit, NamesHold

LEMMA CreateMappingKeeps ==
  ASSUME IInv, review' = review, NEW c, NEW w \in Rows(works), NEW i \in Rows(items),
         NEW occurrence \in Occurrences, NEW provenance \in Provenances,
         NEW basis \in OneOf(Sources), CreateMapping(c, w, i, occurrence, provenance, basis)
  PROVE  IInv'
<1> DEFINE row == [case |-> c, work |-> w, item |-> i, occurrence |-> occurrence,
                   provenance |-> provenance, basis |-> basis, archived |-> FALSE]
<1>1. Typed /\ mappings \in Seq(MappingRows) /\ outside \in OutsideRows
      /\ \A j \in Rows(works) \union Rows(items) : j \in Nat
  BY RowOf DEF IInv, Typed
<1>2. Touch(c)
  BY <1>1, CreateMappingTouches
<1>3. /\ UNCHANGED OtherThanMappings /\ mappings' = Append(mappings, row) /\ c \in DOMAIN cases
      /\ UsableOrNone(basis, caseTarget(c))
      /\ w \in RowsOf(works, c) /\ i \in RowsOf(items, c)
  BY DEF CreateMapping, Writable, lockCase, BodyChild, Unarchived
<1>4. /\ row \in MappingRows /\ row.basis = basis /\ row.case = c /\ row.work = w /\ row.item = i
  BY <1>1, <1>3 DEF MappingRows, Typed
<1> HIDE DEF row
<1>5. /\ Rows(mappings') = Rows(mappings) \union {Len(mappings) + 1}
      /\ mappings'[Len(mappings) + 1] = row
      /\ \A m \in Rows(mappings) : mappings'[m] = mappings[m]
  <2>1. mappings \in Seq(MappingRows) /\ row \in MappingRows
    BY <1>1, <1>4
  <2>2. mappings' = Append(mappings, row)
    BY <1>3
  <2>3. Rows(mappings') = Rows(mappings) \union {Len(mappings) + 1}
    BY <2>1, <2>2, Appended
  <2>4. mappings'[Len(mappings) + 1] = row
    BY <2>1, <2>2, Appended
  <2>5. \A m \in Rows(mappings) : mappings'[m] = mappings[m]
    BY <2>1, <2>2, AppendProperties DEF Rows
  <2> QED
    BY <2>3, <2>4, <2>5
<1>6. Fits(cases, basis, c)
  BY <1>3, UsableFits DEF Fits, caseTarget, UsableOrNone
<1>7. MappingsFit(cases', mappings', facts')
  <2>1. MappingsFit(cases, mappings, facts) /\ RowsOfCases(cases, mappings) /\ facts' = facts
    BY <1>3 DEF IInv, SourcesFit, RowsHaveCases, OtherThanMappings
  <2> QED
    BY <1>2, <1>3, <1>4, <1>5, <1>6, <2>1, TouchFits DEF MappingsFit, RowsOfCases
<1>8. MappingsName(works', items', mappings')
  BY <1>3, <1>4, <1>5 DEF IInv, NamesHold, MappingsName, OtherThanMappings
<1> QED
  BY <1>2, <1>3, <1>7, <1>8, TouchKeeps, TouchLeaves
     DEF IInv, SourcesFit, NamesHold, OtherThanMappings

(* The writes that change a mapping.                                       *)
LEMMA MappingChangeKeeps ==
  ASSUME IInv, review' = review, NEW m \in Rows(mappings), NEW row \in MappingRows,
         row.case = mappings[m].case, row.work = mappings[m].work, row.item = mappings[m].item,
         mappings' = Changed(mappings, m, row), Touch(row.case), UNCHANGED OtherThanMappings,
         \/ Fits(cases, row.basis, row.case)
         \/ row.archived /\ row.basis = mappings[m].basis
         \/ ~mappings[m].archived /\ row.basis = mappings[m].basis
  PROVE  IInv'
<1>1. mappings \in Seq(MappingRows)
  BY DEF IInv, Typed
<1>2. /\ Rows(mappings') = Rows(mappings)
      /\ \A j \in Rows(mappings) : mappings'[j] = IF j = m THEN row ELSE mappings[j]
  BY <1>1, ChangeRow
<1>3. MappingsFit(cases', mappings', facts')
  <2>1. /\ MappingsFit(cases, mappings, facts) /\ RowsOfCases(cases, mappings) /\ facts' = facts
    BY DEF IInv, SourcesFit, RowsHaveCases, OtherThanMappings
  <2> QED
    BY <1>2, <2>1, TouchFits DEF MappingsFit, RowsOfCases
<1>4. MappingsName(works', items', mappings')
  BY <1>2 DEF IInv, NamesHold, MappingsName, OtherThanMappings
<1> QED
  BY <1>3, <1>4, TouchKeeps, TouchLeaves DEF IInv, SourcesFit, NamesHold, OtherThanMappings

LEMMA PatchMappingKeeps ==
  ASSUME IInv, review' = review, NEW m \in Rows(mappings), NEW provenance \in Provenances,
         NEW basis \in OneOf(Sources), PatchMapping(m, provenance, basis)
  PROVE  IInv'
<1> DEFINE row == [mappings[m] EXCEPT !.provenance = provenance, !.basis = basis]
<1>1. Typed /\ mappings[m] \in MappingRows
  BY RowOf DEF IInv, Typed
<1>2. /\ row \in MappingRows /\ row.case = mappings[m].case /\ row.work = mappings[m].work
      /\ row.item = mappings[m].item /\ row.basis = basis
  BY <1>1 DEF MappingRows
<1>3. mappings' = Changed(mappings, m, row)
  BY DEF PatchMapping, Changed
<1>4. /\ ~mappings[m].archived /\ UNCHANGED OtherThanMappings
      /\ basis # mappings[m].basis => UsableOrNone(basis, caseTarget(mappings[m].case))
  BY DEF PatchMapping
<1>5. Touch(row.case)
  BY <1>1, <1>2, PatchMappingTouches
<1> HIDE DEF row
<1>6. basis # mappings[m].basis => Fits(cases, basis, row.case)
  BY <1>2, <1>4, UsableFits DEF Fits, caseTarget, UsableOrNone
<1> QED
  BY <1>2, <1>3, <1>4, <1>5, <1>6, MappingChangeKeeps

LEMMA ArchiveMappingKeeps ==
  ASSUME IInv, review' = review, NEW m \in Rows(mappings), ArchiveMapping(m)
  PROVE  IInv'
<1> DEFINE row == [mappings[m] EXCEPT !.archived = TRUE]
<1>1. Typed /\ mappings[m] \in MappingRows
  BY RowOf DEF IInv, Typed
<1>2. /\ row \in MappingRows /\ row.case = mappings[m].case /\ row.work = mappings[m].work
      /\ row.item = mappings[m].item /\ row.basis = mappings[m].basis /\ row.archived
  BY <1>1 DEF MappingRows
<1>3. mappings' = Changed(mappings, m, row)
  BY DEF ArchiveMapping, Archived, Changed
<1>4. UNCHANGED OtherThanMappings
  BY DEF ArchiveMapping
<1>5. Touch(row.case)
  BY <1>1, <1>2, ArchiveMappingTouches
<1> HIDE DEF row
<1> QED
  BY <1>2, <1>3, <1>4, <1>5, MappingChangeKeeps

LEMMA RestoreMappingKeeps ==
  ASSUME IInv, review' = review, NEW m \in Rows(mappings), RestoreMapping(m)
  PROVE  IInv'
<1> DEFINE row == [mappings[m] EXCEPT !.archived = FALSE]
<1>1. Typed /\ mappings[m] \in MappingRows
  BY RowOf DEF IInv, Typed
<1>2. /\ row \in MappingRows /\ row.case = mappings[m].case /\ row.work = mappings[m].work
      /\ row.item = mappings[m].item /\ row.basis = mappings[m].basis
  BY <1>1 DEF MappingRows
<1>3. mappings' = Changed(mappings, m, row)
  BY DEF RestoreMapping, Archived, Changed
<1>4. /\ UNCHANGED OtherThanMappings
      /\ UsableOrNone(mappings[m].basis, caseTarget(mappings[m].case))
  BY DEF RestoreMapping
<1>5. Touch(row.case)
  BY <1>1, <1>2, RestoreMappingTouches
<1> HIDE DEF row
<1>6. Fits(cases, row.basis, row.case)
  BY <1>2, <1>4, UsableFits DEF Fits, caseTarget, UsableOrNone
<1> QED
  BY <1>2, <1>3, <1>4, <1>5, <1>6, MappingChangeKeeps

LEMMA SelectAuthorityKeeps ==
  ASSUME IInv, review' = review, NEW c, NEW basis \in OneOf(Sources), SelectAuthority(c, basis)
  PROVE  IInv'
<1> DEFINE row == [case |-> c, route |-> cases[c].route, basis |-> basis]
<1>1. Typed /\ selections \in Seq(SelectionRows)
  BY DEF IInv, Typed
<1>2. Touch(c)
  BY <1>1, SelectAuthorityTouches
<1>3. /\ c \in DOMAIN cases /\ c \in Cases /\ cases[c] \in CaseRows /\ cases[c].route # None
      /\ selections' = Append(selections, row) /\ UsableOrNone(basis, caseTarget(c))
      /\ UNCHANGED <<links, works, items, mappings, facts, bindings, prompts, outside>>
  BY <1>1 DEF SelectAuthority, Writable, lockCase, Typed
<1>4. row \in SelectionRows /\ row.case = c /\ row.route = cases[c].route /\ row.basis = basis
  BY <1>3 DEF SelectionRows, CaseRows, OneOf
<1> HIDE DEF row
<1>5. /\ Rows(selections') = Rows(selections) \union {Len(selections) + 1}
      /\ selections'[Len(selections) + 1] = row
      /\ \A i \in Rows(selections) : selections'[i] = selections[i]
  <2>1. selections \in Seq(SelectionRows) /\ row \in SelectionRows
    BY <1>1, <1>4
  <2>2. selections' = Append(selections, row)
    BY <1>3
  <2>3. Rows(selections') = Rows(selections) \union {Len(selections) + 1}
    BY <2>1, <2>2, Appended
  <2>4. selections'[Len(selections) + 1] = row
    BY <2>1, <2>2, Appended
  <2>5. \A i \in Rows(selections) : selections'[i] = selections[i]
    BY <2>1, <2>2, AppendProperties DEF Rows
  <2> QED
    BY <2>3, <2>4, <2>5
<1>6. Fits(cases, basis, c)
  BY <1>3, UsableFits DEF Fits, caseTarget, UsableOrNone
<1>7. SelectionsFit(cases', selections')
  <2>1. SelectionsFit(cases, selections) /\ RowsOfCases(cases, selections)
    BY DEF IInv, SourcesFit, RowsHaveCases
  <2>2. \A d \in DOMAIN cases : cases'[d].route = cases[d].route
    BY <1>2 DEF Touch
  <2>3. \A s : \A d \in DOMAIN cases : Fits(cases', s, d) <=> Fits(cases, s, d)
    BY <1>2, TouchFits
  <2>4. ASSUME NEW i \in Rows(selections)
        PROVE  /\ selections'[i].route = cases'[selections'[i].case].route
               /\ Fits(cases', selections'[i].basis, selections'[i].case)
    BY <1>5, <2>1, <2>2, <2>3 DEF SelectionsFit, RowsOfCases
  <2>5. row.route = cases'[row.case].route /\ Fits(cases', row.basis, row.case)
    BY <1>3, <1>4, <1>6, <2>2, <2>3
  <2> QED
    BY <1>5, <2>4, <2>5 DEF SelectionsFit
<1> QED
  BY <1>2, <1>3, <1>7, TouchKeeps, TouchLeaves DEF IInv, SourcesFit, NamesHold

LEMMA BindCorrespondenceKeeps ==
  ASSUME IInv, review' = review, NEW c, NEW m \in outside.captured, NEW item \in OneOf(Rows(items)),
         NEW event \in {"NMI", "AS_SENT", "OUTCOME"}, NEW earlier \in OneOf(Rows(bindings)),
         BindCorrespondence(c, m, item, event, earlier)
  PROVE  IInv'
<1> DEFINE row == [case |-> c, message |-> m, item |-> item, event |-> event, supersedes |-> earlier]
<1>1. /\ Typed /\ bindings \in Seq(BindingRows) /\ outside \in OutsideRows
      /\ item \in OneOf(Nat) /\ earlier \in OneOf(Nat) /\ m \in Messages
  BY RowOf DEF IInv, Typed, OutsideRows, OneOf
<1>2. Touch(c)
  BY <1>1, BindCorrespondenceTouches
<1>3. /\ bindings' = Append(bindings, row) /\ c \in DOMAIN cases
      /\ Message[m].agency = CaseAgency[c] /\ item \in OneOf(RowsOf(items, c))
      /\ UNCHANGED <<links, works, items, mappings, facts, selections, prompts, outside>>
  BY DEF BindCorrespondence, Writable, lockCase, BodyChild, Unarchived, OneOf
<1>4. row \in BindingRows /\ row.case = c /\ row.item = item /\ row.message = m
  BY <1>1, <1>3 DEF BindingRows, Typed
<1> HIDE DEF row
<1>5. /\ Rows(bindings') = Rows(bindings) \union {Len(bindings) + 1}
      /\ bindings'[Len(bindings) + 1] = row
      /\ \A i \in Rows(bindings) : bindings'[i] = bindings[i]
  <2>1. bindings \in Seq(BindingRows) /\ row \in BindingRows
    BY <1>1, <1>4
  <2>2. bindings' = Append(bindings, row)
    BY <1>3
  <2>3. Rows(bindings') = Rows(bindings) \union {Len(bindings) + 1}
    BY <2>1, <2>2, Appended
  <2>4. bindings'[Len(bindings) + 1] = row
    BY <2>1, <2>2, Appended
  <2>5. \A i \in Rows(bindings) : bindings'[i] = bindings[i]
    BY <2>1, <2>2, AppendProperties DEF Rows
  <2> QED
    BY <2>3, <2>4, <2>5
<1>6. BindingsName(items', bindings')
  <2>1. BindingsName(items, bindings) /\ items' = items
    BY <1>3 DEF IInv, NamesHold
  <2> QED
    BY <1>3, <1>4, <1>5, <2>1 DEF BindingsName
<1> QED
  BY <1>2, <1>3, <1>6, TouchKeeps, TouchLeaves DEF IInv, SourcesFit, NamesHold

(* A revision of a fact takes the place of the one it corrects as the head *)
(* of its chain, and a first revision begins a chain.                      *)
LEMMA RecordFactKeeps ==
  ASSUME IInv, review' = review, NEW c, NEW head \in OneOf(Rows(facts)), NEW scope \in Scopes(c),
         NEW provenance \in Provenances, NEW supports \in SUBSET Rows(links),
         RecordFact(c, head, scope, provenance, supports)
  PROVE  IInv'
<1> DEFINE n == Len(facts) + 1
           row == [case |-> c, group |-> HeadGroup(head), supersedes |-> head, scope |-> scope,
                   provenance |-> provenance, supports |-> supports]
<1>1. /\ Typed /\ facts \in Seq(FactRows) /\ outside \in OutsideRows /\ Len(facts) \in Nat
      /\ \A i \in Rows(facts) : i \in Nat /\ facts[i] \in FactRows
      /\ FactsChain(facts) /\ FactsName(links, works, items, mappings, facts)
  BY RowOf, LenProperties DEF IInv, Typed, NamesHold
<1>2. Touch(c)
  BY <1>1, RecordFactTouches
<1>3. /\ facts' = Append(facts, row) /\ c \in DOMAIN cases /\ SupportsHold(c, supports)
      /\ head # None => head \in Current(facts, c) /\ facts[head].scope = scope
      /\ UNCHANGED <<links, works, items, mappings, bindings, selections, prompts, outside>>
  BY DEF RecordFact, Writable, lockCase
<1>4. /\ row.case = c /\ row.group = HeadGroup(head) /\ row.supersedes = head /\ row.scope = scope
      /\ row.supports = supports
  OBVIOUS
<1> HIDE DEF row
<1>5. facts' \in Seq(FactRows) /\ Len(facts') \in Nat /\ facts' = Append(facts, row)
  BY <1>2, <1>3, LenProperties DEF Touch
<1>6. Rows(facts') = Rows(facts) \union {n} /\ n \notin Rows(facts) /\ n \in Nat
      /\ facts'[n] = row /\ \A i \in Rows(facts) : facts'[i] = facts[i]
  <2>1. Len(Append(facts, row)) = Len(facts) + 1 /\ Append(facts, row)[Len(facts) + 1] = row
    BY <1>1
  <2>2. \A i \in 1 .. Len(facts) : Append(facts, row)[i] = facts[i]
    BY <1>1
  <2> QED
    BY <1>1, <1>5, <2>1, <2>2 DEF Rows
<1> HIDE DEF n
<1>7. supports \subseteq RowsOf(links, c) /\ \A i \in supports : Fits(cases, links[i].source, c)
  <2>1. ASSUME NEW i \in supports
        PROVE  i \in RowsOf(links, c) /\ Fits(cases, links[i].source, c)
    <3>1. links[i].case = c /\ Usable(links[i].source, caseTarget(c)) /\ i \in Rows(links)
      BY <1>3 DEF SupportsHold
    <3> QED
      BY <3>1, UsableFits DEF Fits, caseTarget, RowsOf
  <2> QED
    BY <2>1
<1>8. LinksFit(cases', links', facts')
  <2>1. LinksFit(cases, links, facts) /\ RowsOfCases(cases, links) /\ links' = links
    BY <1>3 DEF IInv, SourcesFit, RowsHaveCases
  <2>2. \A s : \A d \in DOMAIN cases : Fits(cases', s, d) <=> Fits(cases, s, d)
    BY <1>2, TouchFits
  <2>3. \A i \in supports : links[i].case = c
    BY <1>7 DEF RowsOf
  <2> QED
    BY <1>4, <1>6, <1>7, <2>1, <2>2, <2>3 DEF LinksFit, RowsOfCases
<1>9. /\ scope.kind = "WORK" => scope.row \in RowsOf(works, c)
      /\ scope.kind = "ITEM" => scope.row \in RowsOf(items, c)
      /\ scope.kind = "USE" => scope.row \in RowsOf(mappings, c) /\ ~mappings[scope.row].archived
  BY DEF Scopes, TableOf, Unarchived
<1>10. MappingsFit(cases', mappings', facts')
  <2>1. MappingsFit(cases, mappings, facts) /\ RowsOfCases(cases, mappings) /\ mappings' = mappings
    BY <1>3 DEF IInv, SourcesFit, RowsHaveCases
  <2>2. \A s : \A d \in DOMAIN cases : Fits(cases', s, d) <=> Fits(cases, s, d)
    BY <1>2, TouchFits
  <2>3. ASSUME NEW m \in Rows(mappings), scope = [kind |-> "USE", row |-> m]
        PROVE  ~mappings[m].archived
    BY <1>9, <2>3
  <2>4. ASSUME NEW m \in Rows(mappings), NEW f \in Rows(facts'),
               facts'[f].scope = [kind |-> "USE", row |-> m]
        PROVE  ~mappings[m].archived \/ \E g \in Rows(facts) : facts[g].scope = [kind |-> "USE", row |-> m]
    BY <1>4, <1>6, <2>3, <2>4
  <2> QED
    BY <2>1, <2>2, <2>4 DEF MappingsFit, RowsOfCases
<1>11. FactsName(links', works', items', mappings', facts')
  BY <1>1, <1>3, <1>4, <1>6, <1>7, <1>9 DEF FactsName
<1>12. FactsChain(facts')
  <2>1. /\ RowsOf(facts', c) = RowsOf(facts, c) \union {n}
        /\ \A d : d # c => RowsOf(facts', d) = RowsOf(facts, d)
    BY <1>4, <1>6 DEF RowsOf
  <2>2. Superseded(facts') = Superseded(facts) \union {head}
    BY <1>4, <1>6 DEF Superseded
  <2>3. n \notin Superseded(facts) /\ n # head /\ None \notin Rows(facts)
    BY <1>1, <1>6, RecordsAssumption DEF Superseded, FactsChain, OneOf
  <2>4. /\ Current(facts', c) = (Current(facts, c) \ {head}) \union {n}
        /\ \A d : d # c => Current(facts', d) = Current(facts, d) \ {head}
    BY <2>1, <2>2, <2>3, <1>6 DEF Current, RowsOf
  <2>5. CASE head = None
    <3>1. row.group = n
      BY <1>4, <2>5 DEF HeadGroup, n
    <3>2. \A d : Current(facts, d) \ {head} = Current(facts, d) /\ Current(facts, d) \subseteq Rows(facts)
      BY <2>3, <2>5 DEF Current, RowsOf
    <3>3. ASSUME NEW f \in Rows(facts)
          PROVE  /\ facts'[f].group \in RowsOf(facts', facts'[f].case)
                 /\ facts'[facts'[f].group].scope = facts'[f].scope
                 /\ facts'[f].supersedes \in OneOf(Rows(facts'))
                 /\ \E h \in Rows(facts') :
                      {g \in Current(facts', facts'[f].case) : facts'[g].group = facts'[f].group} = {h}
      <4>1. /\ facts[f].group \in RowsOf(facts, facts[f].case)
            /\ facts[facts[f].group].scope = facts[f].scope
            /\ facts[f].supersedes \in OneOf(Rows(facts))
        BY <1>1 DEF FactsChain
      <4>2. PICK h \in Rows(facts) :
              {g \in Current(facts, facts[f].case) : facts[g].group = facts[f].group} = {h}
        BY <1>1 DEF FactsChain
      <4>3. facts[f].group # n
        BY <1>6, <4>1 DEF RowsOf
      <4>4. {g \in Current(facts', facts'[f].case) : facts'[g].group = facts'[f].group} = {h}
        BY <1>6, <2>4, <3>1, <3>2, <4>2, <4>3
      <4> QED
        BY <1>6, <2>1, <4>1, <4>4 DEF OneOf, RowsOf
    <3>4. {g \in Current(facts', c) : facts'[g].group = n} = {n}
      <4>1. \A g \in Rows(facts) : facts[g].group # n
        BY <1>1, <1>6 DEF FactsChain, RowsOf
      <4> QED
        BY <1>6, <2>4, <3>1, <3>2, <4>1
    <3> QED
      BY <1>4, <1>6, <2>1, <2>5, <3>1, <3>3, <3>4 DEF FactsChain, OneOf
  <2>6. CASE head # None
    <3>1. head \in Current(facts, c) /\ head \in Rows(facts) /\ facts[head].case = c
          /\ facts[head].scope = scope /\ row.group = facts[head].group
      BY <1>3, <1>4, <2>6 DEF Current, RowsOf, HeadGroup
    <3>2. /\ facts[head].group \in RowsOf(facts, c)
          /\ facts[facts[head].group].scope = scope
      BY <1>1, <3>1 DEF FactsChain
    <3>3. {g \in Current(facts, c) : facts[g].group = facts[head].group} = {head}
      <4>1. PICK h \in Rows(facts) : {g \in Current(facts, c) : facts[g].group = facts[head].group} = {h}
        BY <1>1, <3>1 DEF FactsChain
      <4> QED
        BY <3>1, <4>1
    <3>4. \A d : Current(facts, d) \subseteq Rows(facts)
      BY DEF Current, RowsOf
    <3>5. {g \in Current(facts', c) : facts'[g].group = facts[head].group} = {n}
      BY <1>6, <2>4, <3>1, <3>3, <3>4
    <3>6. ASSUME NEW f \in Rows(facts)
          PROVE  /\ facts'[f].group \in RowsOf(facts', facts'[f].case)
                 /\ facts'[facts'[f].group].scope = facts'[f].scope
                 /\ facts'[f].supersedes \in OneOf(Rows(facts'))
                 /\ \E h \in Rows(facts') :
                      {g \in Current(facts', facts'[f].case) : facts'[g].group = facts'[f].group} = {h}
      <4>1. /\ facts[f].group \in RowsOf(facts, facts[f].case)
            /\ facts[facts[f].group].scope = facts[f].scope
            /\ facts[f].supersedes \in OneOf(Rows(facts))
        BY <1>1 DEF FactsChain
      <4>2. PICK h \in Rows(facts) :
              {g \in Current(facts, facts[f].case) : facts[g].group = facts[f].group} = {h}
        BY <1>1 DEF FactsChain
      <4>3. \E x \in Rows(facts') :
              {g \in Current(facts', facts[f].case) : facts'[g].group = facts[f].group} = {x}
        <5>1. CASE facts[f].group = facts[head].group
          <6>1. facts[f].case = c
            BY <3>2, <4>1, <5>1 DEF RowsOf
          <6> QED
            BY <1>6, <3>5, <5>1, <6>1
        <5>2. CASE facts[f].group # facts[head].group
          <6>1. {g \in Current(facts', facts[f].case) : facts'[g].group = facts[f].group} = {h}
            BY <1>6, <2>4, <3>1, <3>4, <4>2, <5>2
          <6> QED
            BY <1>6, <6>1
        <5> QED
          BY <5>1, <5>2
      <4> QED
        BY <1>6, <2>1, <4>1, <4>3 DEF OneOf, RowsOf
    <3>7. row.group \in RowsOf(facts', c) /\ facts'[row.group].scope = row.scope
      BY <1>4, <1>6, <2>1, <3>1, <3>2 DEF RowsOf
    <3> QED
      BY <1>4, <1>6, <3>1, <3>5, <3>6, <3>7 DEF FactsChain, OneOf
  <2> QED
    BY <2>5, <2>6
<1> QED
  BY <1>2, <1>3, <1>8, <1>10, <1>11, <1>12, TouchKeeps, TouchLeaves DEF IInv, SourcesFit, NamesHold

----------------------------------------------------------------------------
(* The writes of the case record.                                          *)

LEMMA CasesChangeKeeps ==
  ASSUME IInv, review' = review, UNCHANGED <<tables, outside>>,
         DOMAIN cases' \subseteq Cases, \A c \in DOMAIN cases' : cases'[c] \in CaseRows,
         RowsHaveCases', ColumnsFit(cases'),
         \A d \in DOMAIN cases \intersect DOMAIN cases' : cases'[d].route = cases[d].route
  PROVE  IInv'
<1>1. /\ links' = links /\ works' = works /\ items' = items /\ mappings' = mappings /\ facts' = facts
      /\ bindings' = bindings /\ selections' = selections /\ prompts' = prompts /\ outside' = outside
  BY DEF tables
<1>2. \A s : \A d \in DOMAIN cases \intersect DOMAIN cases' : Fits(cases', s, d) <=> Fits(cases, s, d)
  BY DEF Fits
<1>3. /\ RowsOfCases(cases, links) /\ RowsOfCases(cases', links)
      /\ RowsOfCases(cases, mappings) /\ RowsOfCases(cases', mappings)
      /\ RowsOfCases(cases, selections) /\ RowsOfCases(cases', selections)
  BY <1>1 DEF IInv, RowsHaveCases
<1>4. LinksFit(cases', links', facts')
  BY <1>1, <1>2, <1>3 DEF IInv, SourcesFit, LinksFit, RowsOfCases
<1>5. MappingsFit(cases', mappings', facts')
  BY <1>1, <1>2, <1>3 DEF IInv, SourcesFit, MappingsFit, RowsOfCases
<1>6. SelectionsFit(cases', selections')
  BY <1>1, <1>2, <1>3 DEF IInv, SourcesFit, SelectionsFit, RowsOfCases
<1>7. ReviewHolds' /\ PromptsShowWhatWasReviewed' /\ PromptsTyped'
  <2>1. \A scope, revision, digest : DataIn(scope, revision, digest)' = DataIn(scope, revision, digest)
    BY <1>1 DEF DataIn, ConflictsIn, SelectionCitations
  <2> QED
    BY <1>1, <2>1 DEF IInv, ReviewHolds, PromptsShowWhatWasReviewed, PromptsTyped
<1> QED
  BY <1>1, <1>4, <1>5, <1>6, <1>7 DEF IInv, Typed, SourcesFit, NamesHold

LEMMA RowWriteKeeps ==
  ASSUME IInv, review' = review, UNCHANGED <<tables, outside>>,
         NEW c \in DOMAIN cases, NEW row \in CaseRows, NEW material \in BOOLEAN,
         cases' = [cases EXCEPT ![c] = Moved(row, material)], row.route = cases[c].route,
         Fits(cases, row.canonical, c), Fits(cases, row.packet, c)
  PROVE  IInv'
<1>1. /\ DOMAIN cases' = DOMAIN cases /\ cases'[c] = Moved(row, material)
      /\ \A d \in DOMAIN cases : d # c => cases'[d] = cases[d]
  OBVIOUS
<1>2. /\ cases'[c] \in CaseRows /\ cases'[c].route = cases[c].route
      /\ cases'[c].canonical = row.canonical /\ cases'[c].packet = row.packet
  <2>1. /\ Moved(row, material) \in CaseRows /\ Moved(row, material).route = row.route
        /\ Moved(row, material).canonical = row.canonical /\ Moved(row, material).packet = row.packet
    BY MovedRow
  <2> QED
    BY <1>1, <2>1
<1>3. \A d \in DOMAIN cases : cases'[d] \in CaseRows /\ cases'[d].route = cases[d].route
  BY <1>1, <1>2 DEF IInv, Typed
<1>4. \A s : \A d \in DOMAIN cases : Fits(cases', s, d) <=> Fits(cases, s, d)
  BY <1>3 DEF Fits
<1>5. ColumnsFit(cases')
  BY <1>1, <1>2, <1>4 DEF IInv, SourcesFit, ColumnsFit
<1>6. RowsHaveCases'
  <2>1. UNCHANGED <<links, works, items, mappings, facts, bindings, selections, prompts>>
    BY DEF tables
  <2> QED
    BY <1>1, <2>1 DEF IInv, RowsHaveCases, RowsOfCases
<1> QED
  BY <1>1, <1>3, <1>5, <1>6, CasesChangeKeeps DEF IInv, Typed

LEMMA CaseRow ==
  ASSUME IInv, NEW c, c \in DOMAIN cases
  PROVE  /\ c \in Cases /\ cases[c] \in CaseRows
         /\ Fits(cases, cases[c].canonical, c) /\ Fits(cases, cases[c].packet, c)
  BY DEF IInv, Typed, SourcesFit, ColumnsFit

LEMMA PatchCaseKeeps ==
  ASSUME IInv, review' = review, NEW c, NEW hint \in OneOf(Owners), NEW packet \in OneOf(Sources),
         PatchCase(c, hint, packet)
  PROVE  IInv'
<1> DEFINE row == [cases[c] EXCEPT !.hint = hint, !.packet = packet]
           material == row # cases[c]
<1>1. /\ c \in DOMAIN cases
      /\ packet # cases[c].packet => UsableOrNone(packet, caseTarget(c))
      /\ UNCHANGED <<tables, outside>>
  BY DEF PatchCase, Writable, lockCase
<1>2. cases' = [cases EXCEPT ![c] = Moved(row, material)]
  BY DEF PatchCase
<1>3. /\ row \in CaseRows /\ row.route = cases[c].route /\ row.canonical = cases[c].canonical
      /\ row.packet = packet
  BY <1>1, CaseRow DEF CaseRows
<1>4. material \in BOOLEAN
  OBVIOUS
<1> HIDE DEF row, material
<1>5. Fits(cases, packet, c)
  BY <1>1, CaseRow, UsableFits DEF Fits, caseTarget, UsableOrNone
<1> QED
  BY <1>1, <1>2, <1>3, <1>4, <1>5, CaseRow, RowWriteKeeps

LEMMA ArchiveCaseKeeps ==
  ASSUME IInv, review' = review, NEW c, NEW flag \in BOOLEAN, lockCase(c), UNCHANGED <<tables, outside>>,
         cases' = [cases EXCEPT ![c] = Moved([cases[c] EXCEPT !.archived = flag], FALSE)]
  PROVE  IInv'
<1> DEFINE row == [cases[c] EXCEPT !.archived = flag]
<1>1. /\ row \in CaseRows /\ row.route = cases[c].route /\ row.canonical = cases[c].canonical
      /\ row.packet = cases[c].packet
  BY CaseRow DEF lockCase, CaseRows
<1>2. cases' = [cases EXCEPT ![c] = Moved(row, FALSE)] /\ c \in DOMAIN cases
  BY DEF lockCase
<1> HIDE DEF row
<1> QED
  BY <1>1, <1>2, CaseRow, RowWriteKeeps

LEMMA SetWorkflowKeeps ==
  ASSUME IInv, review' = review, NEW c, NEW state \in Workflows, SetWorkflow(c, state)
  PROVE  IInv'
<1> DEFINE row == [cases[c] EXCEPT !.workflow = state]
<1>1. c \in DOMAIN cases /\ UNCHANGED <<tables, outside>>
  BY DEF SetWorkflow, Writable, lockCase
<1>2. /\ row \in CaseRows /\ row.route = cases[c].route /\ row.canonical = cases[c].canonical
      /\ row.packet = cases[c].packet
  BY <1>1, CaseRow DEF CaseRows
<1>3. cases' = [cases EXCEPT ![c] = Moved(row, FALSE)]
  BY DEF SetWorkflow
<1> HIDE DEF row
<1> QED
  BY <1>1, <1>2, <1>3, CaseRow, RowWriteKeeps

LEMMA BindCanonicalKeeps ==
  ASSUME IInv, review' = review, NEW c, NEW code \in Codes, NEW s \in Sources, BindCanonical(c, code, s)
  PROVE  IInv'
<1> DEFINE row == [cases[c] EXCEPT !.code = code, !.canonical = s]
<1>1. c \in DOMAIN cases /\ UNCHANGED <<tables, outside>> /\ Usable(s, caseTarget(c))
  BY DEF BindCanonical, Writable, lockCase
<1>2. /\ row \in CaseRows /\ row.route = cases[c].route /\ row.canonical = s
      /\ row.packet = cases[c].packet
  BY <1>1, CaseRow DEF CaseRows, OneOf
<1>3. cases' = [cases EXCEPT ![c] = Moved(row, TRUE)]
  BY DEF BindCanonical
<1> HIDE DEF row
<1>4. Fits(cases, s, c)
  BY <1>1, UsableFits DEF Fits, caseTarget
<1> QED
  BY <1>1, <1>2, <1>3, <1>4, CaseRow, RowWriteKeeps

(* A case is bound to another route only while nothing recorded depends on *)
(* the one it had, and what it relies on is checked against the new one;   *)
(* what was recorded before a first route suits any.                       *)
LEMMA BindRouteKeeps ==
  ASSUME IInv, review' = review, NEW c, NEW rt \in Routes, BindRoute(c, rt)
  PROVE  IInv'
<1> DEFINE row == [cases[c] EXCEPT !.route = rt]
<1>1. /\ c \in DOMAIN cases /\ UNCHANGED <<tables, outside>>
      /\ cases[c].route # None => ~HasHistory(c)
      /\ CaseSourcesFit(c, rt)
  BY DEF BindRoute, Writable, lockCase
<1>2. /\ row \in CaseRows /\ row.route = rt /\ row.canonical = cases[c].canonical
      /\ row.packet = cases[c].packet /\ c \in Cases
  BY <1>1, CaseRow DEF CaseRows, OneOf
<1>3. cases' = [cases EXCEPT ![c] = Moved(row, TRUE)]
  BY DEF BindRoute
<1> HIDE DEF row
<1>4. /\ DOMAIN cases' = DOMAIN cases /\ cases'[c] = Moved(row, TRUE)
      /\ \A d \in DOMAIN cases : d # c => cases'[d] = cases[d]
  BY <1>1, <1>3
<1>5. /\ cases'[c] \in CaseRows /\ cases'[c].route = rt
      /\ cases'[c].canonical = cases[c].canonical /\ cases'[c].packet = cases[c].packet
  <2>1. /\ Moved(row, TRUE) \in CaseRows /\ Moved(row, TRUE).route = row.route
        /\ Moved(row, TRUE).canonical = row.canonical /\ Moved(row, TRUE).packet = row.packet
    BY <1>2, MovedRow
  <2> QED
    BY <1>2, <1>4, <2>1
<1>6. /\ links' = links /\ works' = works /\ items' = items /\ mappings' = mappings /\ facts' = facts
      /\ bindings' = bindings /\ selections' = selections /\ prompts' = prompts /\ outside' = outside
  BY <1>1 DEF tables
<1>7. \A s : \A d \in DOMAIN cases : d # c => (Fits(cases', s, d) <=> Fits(cases, s, d))
  BY <1>4 DEF Fits
<1>8. \A s \in ReliedOn(c) : Fits(cases', s, c)
  <2>1. ASSUME NEW s \in ReliedOn(c) PROVE Fits(cases', s, c)
    BY <1>1, <1>5, <2>1, UsableFits DEF CaseSourcesFit, Fits
  <2> QED
    BY <2>1
<1>9. ASSUME cases[c].route = None, NEW s \in OneOf(Sources), Fits(cases, s, c)
      PROVE  Fits(cases', s, c)
  BY <1>2, <1>5, <1>9, BindingNarrowsNothing DEF Fits, OneOf
<1>10. ColumnsFit(cases')
  <2>1. {cases[c].canonical, cases[c].packet} \ {None} \subseteq ReliedOn(c)
    BY DEF ReliedOn
  <2>2. Fits(cases', cases[c].canonical, c) /\ Fits(cases', cases[c].packet, c)
    BY <1>8, <2>1 DEF Fits
  <2> QED
    BY <1>4, <1>5, <1>7, <2>2 DEF IInv, SourcesFit, ColumnsFit
<1>11. /\ RowsOfCases(cases, links) /\ RowsOfCases(cases, mappings) /\ RowsOfCases(cases, selections)
       /\ FactsName(links, works, items, mappings, facts)
       /\ \A i \in Rows(links) : links[i] \in LinkRows
       /\ \A m \in Rows(mappings) : mappings[m] \in MappingRows
       /\ \A i \in Rows(selections) : selections[i] \in SelectionRows
  BY RowOf DEF IInv, RowsHaveCases, NamesHold, Typed
<1>12. LinksFit(cases', links', facts')
  <2>1. ASSUME NEW i \in Rows(links), links[i].case = c,
               links[i].state = "LINKED" \/ \E f \in Rows(facts) : i \in facts[f].supports
        PROVE  Fits(cases', links[i].source, c)
    <3>1. Fits(cases, links[i].source, c) /\ links[i].source \in OneOf(Sources)
      BY <1>11, <2>1 DEF IInv, SourcesFit, LinksFit, LinkRows, OneOf
    <3>2. CASE cases[c].route = None
      BY <1>9, <3>1, <3>2
    <3>3. CASE cases[c].route # None
      <4>1. RowsOf(facts, c) = {}
        BY <1>1, <3>3 DEF HasHistory
      <4>2. links[i].state = "LINKED"
        <5>1. ASSUME NEW f \in Rows(facts), i \in facts[f].supports PROVE FALSE
          <6>1. i \in RowsOf(links, facts[f].case)
            BY <1>11, <5>1 DEF FactsName
          <6> QED
            BY <2>1, <4>1, <6>1 DEF RowsOf
        <5> QED
          BY <2>1, <5>1
      <4>3. links[i].source \in ReliedOn(c)
        BY <2>1, <4>2 DEF ReliedOn, RowsOf
      <4> QED
        BY <1>8, <4>3
    <3> QED
      BY <3>2, <3>3
  <2> QED
    BY <1>6, <1>7, <1>11, <2>1 DEF IInv, SourcesFit, LinksFit, RowsOfCases
<1>13. MappingsFit(cases', mappings', facts')
  <2>1. ASSUME NEW m \in Rows(mappings), mappings[m].case = c,
               ~mappings[m].archived \/ \E f \in Rows(facts) : facts[f].scope = [kind |-> "USE", row |-> m]
        PROVE  Fits(cases', mappings[m].basis, c)
    <3>1. Fits(cases, mappings[m].basis, c) /\ mappings[m].basis \in OneOf(Sources)
      BY <1>11, <2>1 DEF IInv, SourcesFit, MappingsFit, MappingRows
    <3>2. CASE cases[c].route = None
      BY <1>9, <3>1, <3>2
    <3>3. CASE cases[c].route # None
      <4>1. RowsOf(facts, c) = {}
        BY <1>1, <3>3 DEF HasHistory
      <4>2. ~mappings[m].archived
        <5>1. ASSUME NEW f \in Rows(facts), facts[f].scope = [kind |-> "USE", row |-> m] PROVE FALSE
          <6>1. facts[f].scope.kind = "USE" /\ facts[f].scope.row = m
            BY <5>1
          <6>2. m \in RowsOf(mappings, facts[f].case)
            BY <1>11, <6>1 DEF FactsName
          <6> QED
            BY <2>1, <4>1, <6>2 DEF RowsOf
        <5> QED
          BY <2>1, <5>1
      <4>3. mappings[m].basis # None => mappings[m].basis \in ReliedOn(c)
        BY <2>1, <4>2 DEF ReliedOn, RowsOf, Unarchived
      <4> QED
        BY <1>8, <4>3 DEF Fits
    <3> QED
      BY <3>2, <3>3
  <2> QED
    BY <1>6, <1>7, <1>11, <2>1 DEF IInv, SourcesFit, MappingsFit, RowsOfCases
<1>14. SelectionsFit(cases', selections')
  <2>1. SelectionsFit(cases, selections)
    BY DEF IInv, SourcesFit
  <2>2. \A i \in Rows(selections) : selections[i].case # c
    <3>1. ASSUME NEW i \in Rows(selections), selections[i].case = c PROVE FALSE
      <4>1. i \in RowsOf(selections, c) /\ selections[i].route \in Routes
        BY <1>11, <3>1 DEF RowsOf, SelectionRows
      <4>2. cases[c].route # None
        BY <2>1, <3>1, <4>1, RecordsAssumption DEF SelectionsFit
      <4> QED
        BY <1>1, <4>1, <4>2 DEF HasHistory
    <3> QED
      BY <3>1
  <2> QED
    BY <1>4, <1>6, <1>7, <1>11, <2>1, <2>2 DEF SelectionsFit, RowsOfCases
<1>15. ReviewHolds' /\ PromptsShowWhatWasReviewed' /\ PromptsTyped'
  <2>1. \A scope, revision, digest : DataIn(scope, revision, digest)' = DataIn(scope, revision, digest)
    BY <1>6 DEF DataIn, ConflictsIn, SelectionCitations
  <2> QED
    BY <1>6, <2>1 DEF IInv, ReviewHolds, PromptsShowWhatWasReviewed, PromptsTyped
<1>16. RowsHaveCases'
  BY <1>4, <1>6 DEF IInv, RowsHaveCases, RowsOfCases
<1>17. Typed'
  BY <1>4, <1>5, <1>6 DEF IInv, Typed
<1> QED
  BY <1>6, <1>10, <1>12, <1>13, <1>14, <1>15, <1>16, <1>17 DEF IInv, SourcesFit, NamesHold

LEMMA CreateCaseKeeps ==
  ASSUME IInv, review' = review, NEW c \in Cases, NEW rt \in OneOf(Routes), NEW hint \in OneOf(Owners),
         CreateCase(c, rt, hint)
  PROVE  IInv'
<1>1. c \notin DOMAIN cases /\ UNCHANGED <<tables, outside>>
  BY DEF CreateCase
<1>2. /\ DOMAIN cases' = DOMAIN cases \union {c} /\ cases'[c] = NewCase(rt, hint)
      /\ \A d \in DOMAIN cases : cases'[d] = cases[d]
  BY <1>1 DEF CreateCase
<1>3. /\ cases'[c] \in CaseRows /\ cases'[c].canonical = None /\ cases'[c].packet = None
  BY <1>2, RecordsAssumption DEF NewCase, CaseRows, OneOf
<1>4. \A s : \A d \in DOMAIN cases : Fits(cases', s, d) <=> Fits(cases, s, d)
  BY <1>2 DEF Fits
<1>5. ColumnsFit(cases')
  BY <1>2, <1>3, <1>4 DEF IInv, SourcesFit, ColumnsFit, Fits
<1>6. RowsHaveCases'
  BY <1>1, <1>2, RowsOfSameCases DEF IInv, RowsHaveCases, tables
<1>7. DOMAIN cases' \subseteq Cases /\ \A d \in DOMAIN cases' : cases'[d] \in CaseRows
  BY <1>2, <1>3 DEF IInv, Typed
<1> QED
  BY <1>1, <1>2, <1>5, <1>6, <1>7, CasesChangeKeeps

LEMMA DeleteCaseKeeps ==
  ASSUME IInv, review' = review, NEW c, DeleteCase(c)
  PROVE  IInv'
<1>1. /\ UNCHANGED <<tables, outside>>
      /\ RowsOf(links, c) = {} /\ RowsOf(works, c) = {} /\ RowsOf(items, c) = {}
      /\ RowsOf(mappings, c) = {} /\ RowsOf(facts, c) = {} /\ RowsOf(bindings, c) = {}
      /\ RowsOf(selections, c) = {} /\ RowsOf(prompts, c) = {}
  BY DEF DeleteCase
<1>2. DOMAIN cases' = DOMAIN cases \ {c} /\ \A d \in DOMAIN cases' : cases'[d] = cases[d]
  BY DEF DeleteCase
<1>3. ColumnsFit(cases')
  BY <1>2 DEF IInv, SourcesFit, ColumnsFit, Fits
<1>4. RowsHaveCases'
  <2>1. ASSUME NEW table, RowsOfCases(cases, table), RowsOf(table, c) = {}
        PROVE  RowsOfCases(cases', table)
    BY <1>2, <2>1 DEF RowsOfCases, RowsOf
  <2> QED
    BY <1>1, <2>1 DEF IInv, RowsHaveCases, tables
<1>5. DOMAIN cases' \subseteq Cases /\ \A d \in DOMAIN cases' : cases'[d] \in CaseRows
  BY <1>2 DEF IInv, Typed
<1> QED
  BY <1>1, <1>2, <1>3, <1>4, <1>5, CasesChangeKeeps

----------------------------------------------------------------------------
(* What the rest of the system records.                                    *)

LEMMA ElsewhereKeeps ==
  ASSUME IInv, review' = review, NEW change \in OutsideRows, Elsewhere(change)
  PROVE  IInv'
<1>1. /\ links' = links /\ works' = works /\ items' = items /\ mappings' = mappings /\ facts' = facts
      /\ bindings' = bindings /\ selections' = selections /\ prompts' = prompts /\ cases' = cases
  BY DEF Elsewhere, tables
<1>2. outside' \in OutsideRows
  BY DEF Elsewhere, OutsideRows
<1>3. ReviewHolds' /\ PromptsShowWhatWasReviewed' /\ PromptsTyped'
  <2>1. \A scope, revision, digest : DataIn(scope, revision, digest)' = DataIn(scope, revision, digest)
    BY <1>1 DEF DataIn, ConflictsIn, SelectionCitations
  <2> QED
    BY <1>1, <2>1 DEF IInv, ReviewHolds, PromptsShowWhatWasReviewed, PromptsTyped
<1> QED
  BY <1>1, <1>2, <1>3 DEF IInv, Typed, RowsHaveCases, SourcesFit, NamesHold

LEMMA OutsideStepsKeep ==
  ASSUME IInv, review' = review, OutsideSteps
  PROVE  IInv'
<1>1. /\ outside \in OutsideRows
      /\ outside.archived \subseteq Agencies \union Owners
      /\ outside.routes \in [Routes -> {"LINKED", "PAUSED", "ARCHIVED"}]
      /\ outside.users \in [Sources -> SUBSET Owners] /\ outside.superseded \subseteq Sources
      /\ outside.captured \subseteq Messages /\ outside.authority \in [Routes -> Nat]
      /\ outside.changes \in Nat
  BY DEF IInv, OutsideRows
<1>2. ASSUME NEW m \in Messages, CaptureCorrespondence(m) PROVE IInv'
  <2> DEFINE change == [outside EXCEPT !.captured = @ \union {m}]
  <2>1. change \in OutsideRows
    BY <1>1 DEF OutsideRows
  <2>2. Elsewhere(change)
    BY <1>2 DEF CaptureCorrespondence
  <2> QED
    BY <2>1, <2>2, ElsewhereKeeps
<1>3. ASSUME NEW p \in Agencies \union Owners, SetPartyArchived(p) PROVE IInv'
  <2> DEFINE archived == IF p \in outside.archived THEN outside.archived \ {p}
                         ELSE outside.archived \union {p}
             change == [outside EXCEPT !.archived = archived]
  <2>1. archived \subseteq Agencies \union Owners
    BY <1>1
  <2>2. Elsewhere(change)
    BY <1>3 DEF SetPartyArchived
  <2> HIDE DEF archived
  <2>3. change \in OutsideRows
    BY <1>1, <2>1 DEF OutsideRows
  <2> QED
    BY <2>2, <2>3, ElsewhereKeeps
<1>4. ASSUME NEW rt \in Routes, NEW state \in {"LINKED", "PAUSED", "ARCHIVED"}, SetRouteState(rt, state)
      PROVE  IInv'
  <2> DEFINE new == [outside.routes EXCEPT ![rt] = state]
             change == [outside EXCEPT !.routes = new]
  <2>1. new \in [Routes -> {"LINKED", "PAUSED", "ARCHIVED"}]
    BY <1>1
  <2>2. Elsewhere(change)
    BY <1>4 DEF SetRouteState
  <2> HIDE DEF new
  <2>3. change \in OutsideRows
    BY <1>1, <2>1 DEF OutsideRows
  <2> QED
    BY <2>2, <2>3, ElsewhereKeeps
<1>5. ASSUME NEW s \in Sources, NEW users \in SUBSET Owners,
             Elsewhere([outside EXCEPT !.users[s] = users])
      PROVE  IInv'
  <2> DEFINE new == [outside.users EXCEPT ![s] = users]
             change == [outside EXCEPT !.users = new]
  <2>1. new \in [Sources -> SUBSET Owners]
    BY <1>1
  <2>2. Elsewhere(change)
    BY <1>5
  <2> HIDE DEF new
  <2>3. change \in OutsideRows
    BY <1>1, <2>1 DEF OutsideRows
  <2> QED
    BY <2>2, <2>3, ElsewhereKeeps
<1>6. ASSUME NEW s \in Sources, NEW target \in OwnerTargets, CiteForOwner(s, target) PROVE IInv'
  <2>1. target.owner \in Owners
    BY RecordsAssumption DEF OwnerTargets, RouteTarget, OwnerTarget, Target
  <2> QED
    BY <1>5, <1>6, <2>1 DEF CiteForOwner
<1>7. ASSUME NEW s \in Sources, CeaseCiting(s) PROVE IInv'
  BY <1>5, <1>7 DEF CeaseCiting
<1>8. ASSUME NEW s \in Sources, ReviseSource(s) PROVE IInv'
  <2> DEFINE change == [outside EXCEPT !.superseded = @ \union {s}]
  <2>1. change \in OutsideRows
    BY <1>1 DEF OutsideRows
  <2>2. Elsewhere(change)
    BY <1>8 DEF ReviseSource
  <2> QED
    BY <2>1, <2>2, ElsewhereKeeps
<1>9. ASSUME NEW rt \in Routes, MoveAuthority(rt) PROVE IInv'
  <2> DEFINE new == [outside.authority EXCEPT ![rt] = outside.authority[rt] + 1]
             change == [outside EXCEPT !.authority = new]
  <2>1. new \in [Routes -> Nat]
    BY <1>1
  <2>2. Elsewhere(change)
    BY <1>9 DEF MoveAuthority
  <2> HIDE DEF new
  <2>3. change \in OutsideRows
    BY <1>1, <2>1 DEF OutsideRows
  <2> QED
    BY <2>2, <2>3, ElsewhereKeeps
<1> QED
  BY <1>2, <1>3, <1>4, <1>6, <1>7, <1>8, <1>9 DEF OutsideSteps

----------------------------------------------------------------------------
(* All the writes of intake.                                               *)

LEMMA IntakeKeeps ==
  ASSUME IInv, review' = review, IntakeSteps
  PROVE  IInv'
<1>1. Typed /\ outside \in OutsideRows
  BY DEF IInv
<1>2. ASSUME NEW c, CaseSteps(c) PROVE IInv'
  <2>1. ASSUME NEW title \in Texts, CreateWork(c, title) PROVE IInv'
    <3>1. UNCHANGED OtherThanWorks
      BY <2>1 DEF CreateWork
    <3> QED
      BY <1>1, <2>1, <3>1, CreateWorkTouches, WorksAndItemsKeep DEF OtherThanWorks
  <2>2. ASSUME NEW video \in Videos, NEW title \in Texts, CreateItem(c, video, title) PROVE IInv'
    <3>1. UNCHANGED OtherThanItems
      BY <2>2 DEF CreateItem
    <3> QED
      BY <1>1, <2>2, <3>1, CreateItemTouches, WorksAndItemsKeep DEF OtherThanItems
  <2>3. ASSUME ArchiveCase(c) PROVE IInv'
    BY <2>3, ArchiveCaseKeeps DEF ArchiveCase, Writable
  <2>4. ASSUME RestoreCase(c) PROVE IInv'
    BY <2>4, ArchiveCaseKeeps DEF RestoreCase
  <2> QED
    BY <1>2, <2>1, <2>2, <2>3, <2>4, PatchCaseKeeps, DeleteCaseKeeps, SetWorkflowKeeps,
       BindRouteKeeps, BindCanonicalKeeps, SelectAuthorityKeeps, LinkSourceKeeps,
       CreateMappingKeeps, RecordFactKeeps, BindCorrespondenceKeeps DEF CaseSteps
<1>3. ASSUME RowSteps PROVE IInv'
  <2>1. ASSUME NEW w \in Rows(works), NEW title \in Texts, PatchWork(w, title) PROVE IInv'
    <3>1. UNCHANGED OtherThanWorks
      BY <2>1 DEF PatchWork
    <3> QED
      BY <1>1, <2>1, <3>1, PatchWorkTouches, WorksAndItemsKeep DEF OtherThanWorks
  <2>2. ASSUME NEW w \in Rows(works), NEW flag \in BOOLEAN, SetWorkArchived(w, flag) PROVE IInv'
    <3>1. UNCHANGED OtherThanWorks
      BY <2>2 DEF SetWorkArchived
    <3> QED
      BY <1>1, <2>2, <3>1, SetWorkArchivedTouches, WorksAndItemsKeep DEF OtherThanWorks
  <2>3. ASSUME NEW i \in Rows(items), NEW title \in Texts, PatchItem(i, title) PROVE IInv'
    <3>1. UNCHANGED OtherThanItems
      BY <2>3 DEF PatchItem
    <3> QED
      BY <1>1, <2>3, <3>1, PatchItemTouches, WorksAndItemsKeep DEF OtherThanItems
  <2>4. ASSUME NEW i \in Rows(items), NEW flag \in BOOLEAN, SetItemArchived(i, flag) PROVE IInv'
    <3>1. UNCHANGED OtherThanItems
      BY <2>4 DEF SetItemArchived
    <3> QED
      BY <1>1, <2>4, <3>1, SetItemArchivedTouches, WorksAndItemsKeep DEF OtherThanItems
  <2> QED
    BY <1>3, <2>1, <2>2, <2>3, <2>4, SetLinkStateKeeps, PatchMappingKeeps, ArchiveMappingKeeps,
       RestoreMappingKeeps DEF RowSteps
<1> QED
  BY <1>2, <1>3, CreateCaseKeeps, OutsideStepsKeep DEF IntakeSteps

----------------------------------------------------------------------------
(* The digest of a context tells the case data.                            *)

LEMMA ContentIs ==
  ASSUME NEW table, NEW S
  PROVE  DOMAIN Content(table, S) = S /\ \A i \in S : Content(table, S)[i] = table[i]
  BY DEF Content

LEMMA DigestParts ==
  ASSUME Typed, NEW scope, scope.case \in DOMAIN cases
  PROVE  LET c == scope.case
             d == dependencyDigest(scope)
             r == d.records
         IN /\ d.case.route = cases[c].route /\ d.case.code = cases[c].code
            /\ d.case.canonical = cases[c].canonical /\ d.case.packet = cases[c].packet
            /\ r = Records(scope)
            /\ DOMAIN r.items = ContextItems(scope) /\ DOMAIN r.works = ContextWorks(c)
            /\ DOMAIN r.mappings = ContextMappings(c) /\ DOMAIN r.facts = Current(facts, c)
            /\ DOMAIN d.links = ContextLinks(c) /\ DOMAIN d.sources = ContextSources(scope)
            /\ \A i \in ContextItems(scope) : r.items[i] = items[i]
            /\ \A w \in ContextWorks(c) : r.works[w] = works[w]
            /\ \A m \in ContextMappings(c) : r.mappings[m] = mappings[m]
            /\ \A f \in Current(facts, c) : r.facts[f] = facts[f]
            /\ \A b \in Named(scope) : r.bindings[b] = bindings[b]
            /\ \A i \in ContextLinks(c) : d.links[i] = links[i]
            /\ \A s \in ContextSources(scope) :
                 d.sources[s].other <=> Problem(s, c) = "CROSS_OWNER_REFERENCE"
<1> DEFINE c == scope.case
           d == dependencyDigest(scope)
           row == cases[c]
           short == [row EXCEPT !.workflow = None, !.version = None]
<1>1. row \in CaseRows
  BY DEF Typed
<1>2. /\ short.route = row.route /\ short.code = row.code /\ short.canonical = row.canonical
      /\ short.packet = row.packet
  BY <1>1 DEF CaseRows
<1>3. d.case = short
  BY DEF dependencyDigest
<1>4. d.records = Records(scope) /\ d.links = Content(links, ContextLinks(c))
      /\ d.sources = SourceFingerprints(scope)
  BY DEF dependencyDigest
<1>5. LET r == Records(scope)
      IN /\ r.items = Content(items, ContextItems(scope)) /\ r.works = Content(works, ContextWorks(c))
         /\ r.mappings = Content(mappings, ContextMappings(c))
         /\ r.facts = Content(facts, Current(facts, c))
         /\ r.bindings = Content(bindings, Named(scope))
  BY DEF Records
<1>6. /\ DOMAIN SourceFingerprints(scope) = ContextSources(scope)
      /\ \A s \in ContextSources(scope) :
           SourceFingerprints(scope)[s].other <=> Problem(s, c) = "CROSS_OWNER_REFERENCE"
  BY DEF SourceFingerprints, otherOwnerMaterial
<1> HIDE DEF short, d
<1> QED
  BY <1>2, <1>3, <1>4, <1>5, <1>6, ContentIs DEF d

(* A source's problem is its scope's, which never changes, or another      *)
(* owner's use of it, which the digest covers.                             *)
LEMMA ProblemTold ==
  ASSUME Typed, NEW scope, scope.case \in DOMAIN cases, NEW s \in ContextSources(scope)
  PROVE  ProblemIn(s, scope.case, dependencyDigest(scope)) = Problem(s, scope.case)
<1> DEFINE c == scope.case
           d == dependencyDigest(scope)
           target == caseTargetWith(c, cases[c].route)
           problem == scopeProblem(s, target)
<1>1. d.case.route = cases[c].route /\ (d.sources[s].other <=> Problem(s, c) = "CROSS_OWNER_REFERENCE")
  BY DigestParts
<1>2. Problem(s, c) = applicabilityProblem(s, target, outside.users[s])
  BY DEF Problem, caseTarget
<1>3. ProblemIn(s, c, d) =
        IF problem # None THEN problem
        ELSE IF d.sources[s].other THEN "CROSS_OWNER_REFERENCE" ELSE None
  BY <1>1 DEF ProblemIn
<1>4. Problem(s, c) = IF problem # None THEN problem
                      ELSE IF target.owner # None /\ outside.users[s] \ {target.owner} # {}
                           THEN "CROSS_OWNER_REFERENCE" ELSE None
  BY <1>2 DEF applicabilityProblem
<1> HIDE DEF d, target, problem
<1>5. None # "CROSS_OWNER_REFERENCE"
  BY RecordsAssumption
<1> QED
  BY <1>1, <1>3, <1>4, <1>5 DEF d

Together(a, b, c, d, e, f, g, h, i, j, k) == UNION {a, b, c, d, e, f, g, h, i, j, k}

LEMMA MissingTold ==
  ASSUME Typed, NEW scope, scope.case \in DOMAIN cases
  PROVE  MissingIn(scope, dependencyDigest(scope)) = missing(scope)
<1> DEFINE c == scope.case
           d == dependencyDigest(scope)
           r == d.records
           unmapped == {<<"REPORTED_ITEM_UNMAPPED", i>> :
                          i \in ActiveItems(scope) \ {mappings[m].item : m \in ActiveMappings(c)}}
           unmappedIn == {<<"REPORTED_ITEM_UNMAPPED", i>> :
                            i \in Kept(r.items) \ {r.mappings[m].item : m \in Kept(r.mappings)}}
           excerpt == {<<"REPLY_PARENT_FULL_TEXT_ABSENT", bindings[b].message>> :
                         b \in {p \in {scope.parent} \ {None} : Message[bindings[p].message].mode = "EXCERPT"}}
           excerptIn == {<<"REPLY_PARENT_FULL_TEXT_ABSENT", r.bindings[b].message>> :
                           b \in {p \in {scope.parent} \ {None} : Message[r.bindings[p].message].mode = "EXCERPT"}}
           unsourced == {<<"PRIOR_AS_SENT_RAW_SOURCE_ABSENT", bindings[b].message>> :
                           b \in {p \in scope.priors : Message[bindings[p].message].mode # "RAW_SOURCE"}}
           unsourcedIn == {<<"PRIOR_AS_SENT_RAW_SOURCE_ABSENT", r.bindings[b].message>> :
                             b \in {p \in scope.priors : Message[r.bindings[p].message].mode # "RAW_SOURCE"}}
           unproven == {<<"FACT_PROVENANCE_MISSING", f>> :
                          f \in {g \in Current(facts, c) : facts[g].provenance = "MISSING"}}
           unprovenIn == {<<"FACT_PROVENANCE_MISSING", f>> :
                            f \in {g \in DOMAIN r.facts : r.facts[g].provenance = "MISSING"}}
<1>1. /\ d.case.route = cases[c].route
      /\ DOMAIN r.items = ContextItems(scope) /\ DOMAIN r.works = ContextWorks(c)
      /\ DOMAIN r.mappings = ContextMappings(c) /\ DOMAIN r.facts = Current(facts, c)
      /\ \A i \in ContextItems(scope) : r.items[i] = items[i]
      /\ \A w \in ContextWorks(c) : r.works[w] = works[w]
      /\ \A m \in ContextMappings(c) : r.mappings[m] = mappings[m]
      /\ \A f \in Current(facts, c) : r.facts[f] = facts[f]
      /\ \A b \in Named(scope) : r.bindings[b] = bindings[b]
  BY DigestParts
<1> HIDE DEF d
<1>2. Kept(r.items) = ActiveItems(scope) /\ Kept(r.mappings) = ActiveMappings(c)
  BY <1>1 DEF Kept, ActiveItems, ActiveMappings
<1>3. Kept(r.works) = {} <=> \A w \in ContextWorks(c) : works[w].archived
  BY <1>1 DEF Kept
<1>4. unmappedIn = unmapped
  <2>1. {r.mappings[m].item : m \in Kept(r.mappings)} = {mappings[m].item : m \in ActiveMappings(c)}
    BY <1>1, <1>2 DEF ActiveMappings
  <2> QED
    BY <1>2, <2>1
<1>5. excerptIn = excerpt
  <2>1. \A p \in {scope.parent} \ {None} : r.bindings[p] = bindings[p]
    BY <1>1 DEF Named
  <2> QED
    BY <2>1
<1>6. unsourcedIn = unsourced
  <2>1. \A p \in scope.priors : r.bindings[p] = bindings[p]
    BY <1>1 DEF Named
  <2> QED
    BY <2>1
<1>7. unprovenIn = unproven
  BY <1>1
<1> HIDE DEF unmapped, unmappedIn, excerpt, excerptIn, unsourced, unsourcedIn, unproven, unprovenIn
<1> DEFINE unrouted == Absent("CASE_ROUTE_UNBOUND", cases[c].route = None)
           unroutedIn == Absent("CASE_ROUTE_UNBOUND", d.case.route = None)
           unselected == Absent("AUTHORITY_SELECTION_NOT_SELECTED", scope.selection = None)
           noItems == Absent("REPORTED_ITEMS_ABSENT", ActiveItems(scope) = {})
           noItemsIn == Absent("REPORTED_ITEMS_ABSENT", Kept(r.items) = {})
           noWorks == Absent("WORKS_ABSENT", \A w \in ContextWorks(c) : works[w].archived)
           noWorksIn == Absent("WORKS_ABSENT", Kept(r.works) = {})
           noMappings == Absent("USE_MAPPINGS_ABSENT", ActiveMappings(c) = {})
           noMappingsIn == Absent("USE_MAPPINGS_ABSENT", Kept(r.mappings) = {})
           noParent == Absent("REPLY_PARENT_NOT_SELECTED", scope.task = "NMI_REPLY" /\ scope.parent = None)
           noPriors == Absent("PRIOR_AS_SENT_NOT_SELECTED", scope.task = "NMI_REPLY" /\ scope.priors = {})
<1>8. missing(scope) = Together(unrouted, unselected, noItems, noWorks, noMappings, unmapped,
                                noParent, noPriors, excerpt, unsourced, unproven)
  BY DEF missing, Together, unmapped, excerpt, unsourced, unproven
<1>9. MissingIn(scope, d) = Together(unroutedIn, unselected, noItemsIn, noWorksIn, noMappingsIn, unmappedIn,
                                     noParent, noPriors, excerptIn, unsourcedIn, unprovenIn)
  BY DEF MissingIn, Together, unmappedIn, excerptIn, unsourcedIn, unprovenIn
<1>10. unroutedIn = unrouted /\ noItemsIn = noItems /\ noWorksIn = noWorks /\ noMappingsIn = noMappings
  BY <1>1, <1>2, <1>3 DEF Absent
<1> HIDE DEF unrouted, unroutedIn, unselected, noItems, noItemsIn, noWorks, noWorksIn, noMappings,
             noMappingsIn, noParent, noPriors
<1>11. MissingIn(scope, d) = missing(scope)
  BY <1>4, <1>5, <1>6, <1>7, <1>8, <1>9, <1>10
<1> QED
  BY <1>11 DEF d

LEMMA CitationsTold ==
  ASSUME Typed, NEW scope, scope.case \in DOMAIN cases
  PROVE  LET d == dependencyDigest(scope)
         IN /\ SupportsIn(d) = Supporting(scope.case)
            /\ IntakeCitationsIn(scope.case, d) = IntakeCitations(scope.case)
            /\ MessageCitationsIn(scope, d) = MessageCitations(scope)
<1> DEFINE c == scope.case
           d == dependencyDigest(scope)
           r == d.records
<1>1. /\ d.case.canonical = cases[c].canonical /\ d.case.packet = cases[c].packet
      /\ DOMAIN r.mappings = ContextMappings(c) /\ DOMAIN r.facts = Current(facts, c)
      /\ DOMAIN d.links = ContextLinks(c)
      /\ \A m \in ContextMappings(c) : r.mappings[m] = mappings[m]
      /\ \A f \in Current(facts, c) : r.facts[f] = facts[f]
      /\ \A b \in Named(scope) : r.bindings[b] = bindings[b]
      /\ \A i \in ContextLinks(c) : d.links[i] = links[i]
  BY DigestParts
<1> HIDE DEF d
<1>2. SupportsIn(d) = Supporting(c)
  <2>1. {r.facts[f].supports : f \in DOMAIN r.facts} = {facts[f].supports : f \in Current(facts, c)}
    BY <1>1
  <2> QED
    BY <2>1 DEF SupportsIn, Supporting
<1>3. /\ {Cites(d.links[i].source, "CASE_SOURCE", i) : i \in DOMAIN d.links}
           = {Cites(links[i].source, "CASE_SOURCE", i) : i \in ContextLinks(c)}
      /\ {Cites(d.links[i].source, "FACT_SUPPORT", i) : i \in SupportsIn(d)}
           = {Cites(links[i].source, "FACT_SUPPORT", i) : i \in Supporting(c)}
      /\ {Cites(r.mappings[m].basis, "MAPPING_BASIS", m) : m \in DOMAIN r.mappings}
           = {Cites(mappings[m].basis, "MAPPING_BASIS", m) : m \in ContextMappings(c)}
  <2>1. Supporting(c) \subseteq ContextLinks(c)
    BY DEF ContextLinks
  <2> QED
    BY <1>1, <1>2, <2>1
<1>4. IntakeCitationsIn(c, d) = IntakeCitations(c)
  BY <1>1, <1>3 DEF IntakeCitationsIn, IntakeCitations
<1>5. {r.bindings[b].message : b \in Named(scope)} = ContextMessages(scope)
  BY <1>1 DEF ContextMessages
<1>6. MessageCitationsIn(scope, d) = MessageCitations(scope)
  BY <1>5 DEF MessageCitationsIn, MessageCitations
<1> QED
  BY <1>2, <1>4, <1>6 DEF d

TogetherEight(a, b, c, d, e, f, g, h) == UNION {a, b, c, d, e, f, g, h}

LEMMA ApplicabilityTold ==
  ASSUME Typed, NEW scope, scope.case \in DOMAIN cases,
         NEW citations, \A t \in citations : t.source \in ContextSources(scope), NEW code
  PROVE  NotApplicable(citations, code, scope.case, dependencyDigest(scope)) =
           {<<code, Problem(t.source, scope.case), t>> :
              t \in {u \in citations : Problem(u.source, scope.case) # None}}
<1>1. \A t \in citations :
        ProblemIn(t.source, scope.case, dependencyDigest(scope)) = Problem(t.source, scope.case)
  BY ProblemTold
<1> QED
  BY <1>1 DEF NotApplicable

LEMMA ConflictsTold ==
  ASSUME Typed, NEW scope, scope.case \in DOMAIN cases
  PROVE  ConflictsIn(scope, dependencyDigest(scope)) = conflicts(scope)
<1> DEFINE c == scope.case
           d == dependencyDigest(scope)
           r == d.records
           archivedItems == ArchivedRows(items, ContextItems(scope), "ReportedItem")
           archivedItemsIn == ArchivedIn(r.items, "ReportedItem")
           archivedWorks == ArchivedRows(works, ContextWorks(c), "CaseWork")
           archivedWorksIn == ArchivedIn(r.works, "CaseWork")
           archivedMappings == ArchivedRows(mappings, ContextMappings(c), "UseMapping")
           archivedMappingsIn == ArchivedIn(r.mappings, "UseMapping")
           disputedMappings == {<<"MAPPING_PROVENANCE_CONFLICT", i>> :
                                  i \in {j \in ContextMappings(c) : mappings[j].provenance = "CONFLICT"}}
           disputedMappingsIn == InConflict(r.mappings, "MAPPING_PROVENANCE_CONFLICT")
           disputedFacts == {<<"FACT_PROVENANCE_CONFLICT", i>> :
                               i \in {j \in Current(facts, c) : facts[j].provenance = "CONFLICT"}}
           disputedFactsIn == InConflict(r.facts, "FACT_PROVENANCE_CONFLICT")
           unlinked == {<<"SUPPORT_LINK_NOT_LINKED", i>> :
                          i \in {j \in Supporting(c) : links[j].state # "LINKED"}}
           unlinkedIn == {<<"SUPPORT_LINK_NOT_LINKED", i>> :
                            i \in {j \in SupportsIn(d) : d.links[j].state # "LINKED"}}
           inapplicable == {<<"SOURCE_NOT_APPLICABLE", Problem(t.source, c), t>> :
                              t \in {u \in OwnCitations(scope) : Problem(u.source, c) # None}}
           inapplicableIn == NotApplicable(IntakeCitationsIn(c, d) \union SelectionCitations(scope),
                                           "SOURCE_NOT_APPLICABLE", c, d)
           unseemly == {<<"CORRESPONDENCE_SOURCE_NOT_APPLICABLE", Problem(t.source, c), t>> :
                          t \in {u \in MessageCitations(scope) : Problem(u.source, c) # None}}
           unseemlyIn == NotApplicable(MessageCitationsIn(scope, d),
                                       "CORRESPONDENCE_SOURCE_NOT_APPLICABLE", c, d)
<1>1. /\ DOMAIN r.items = ContextItems(scope) /\ DOMAIN r.works = ContextWorks(c)
      /\ DOMAIN r.mappings = ContextMappings(c) /\ DOMAIN r.facts = Current(facts, c)
      /\ DOMAIN d.links = ContextLinks(c)
      /\ \A i \in ContextItems(scope) : r.items[i] = items[i]
      /\ \A w \in ContextWorks(c) : r.works[w] = works[w]
      /\ \A m \in ContextMappings(c) : r.mappings[m] = mappings[m]
      /\ \A f \in Current(facts, c) : r.facts[f] = facts[f]
      /\ \A i \in ContextLinks(c) : d.links[i] = links[i]
  BY DigestParts
<1>2. /\ SupportsIn(d) = Supporting(c) /\ IntakeCitationsIn(c, d) = IntakeCitations(c)
      /\ MessageCitationsIn(scope, d) = MessageCitations(scope)
  BY CitationsTold
<1>3. inapplicableIn = inapplicable
  <2>1. IntakeCitationsIn(c, d) \union SelectionCitations(scope) = OwnCitations(scope)
    BY <1>2 DEF OwnCitations
  <2>2. \A t \in OwnCitations(scope) : t.source \in ContextSources(scope)
    BY DEF ContextSources
  <2>3. NotApplicable(OwnCitations(scope), "SOURCE_NOT_APPLICABLE", c, d) = inapplicable
    BY <2>2, ApplicabilityTold
  <2> QED
    BY <2>1, <2>3
<1>4. unseemlyIn = unseemly
  <2>1. \A t \in MessageCitations(scope) : t.source \in ContextSources(scope)
    BY DEF ContextSources
  <2>2. NotApplicable(MessageCitations(scope), "CORRESPONDENCE_SOURCE_NOT_APPLICABLE", c, d) = unseemly
    BY <2>1, ApplicabilityTold
  <2> QED
    BY <1>2, <2>2
<1> HIDE DEF d, inapplicable, inapplicableIn, unseemly, unseemlyIn
<1>5. archivedItemsIn = archivedItems /\ archivedWorksIn = archivedWorks
      /\ archivedMappingsIn = archivedMappings
  BY <1>1 DEF ArchivedIn, ArchivedRows
<1>6. disputedMappingsIn = disputedMappings
  BY <1>1 DEF InConflict
<1>7. disputedFactsIn = disputedFacts
  BY <1>1 DEF InConflict
<1>8. unlinkedIn = unlinked
  <2>1. Supporting(c) \subseteq ContextLinks(c)
    BY DEF ContextLinks
  <2> QED
    BY <1>1, <1>2, <2>1
<1>9. conflicts(scope) = TogetherEight(archivedItems, archivedWorks, archivedMappings, disputedMappings,
                                       disputedFacts, unlinked, inapplicable, unseemly)
  BY DEF conflicts, TogetherEight, inapplicable, unseemly
<1>10. ConflictsIn(scope, d) =
         TogetherEight(archivedItemsIn, archivedWorksIn, archivedMappingsIn, disputedMappingsIn,
                       disputedFactsIn, unlinkedIn, inapplicableIn, unseemlyIn)
  BY DEF ConflictsIn, TogetherEight, inapplicableIn, unseemlyIn
<1> HIDE DEF archivedItems, archivedItemsIn, archivedWorks, archivedWorksIn, archivedMappings,
             archivedMappingsIn, disputedMappings, disputedMappingsIn, disputedFacts, disputedFactsIn,
             unlinked, unlinkedIn
<1>11. ConflictsIn(scope, d) = conflicts(scope)
  BY <1>3, <1>4, <1>5, <1>6, <1>7, <1>8, <1>9, <1>10
<1> QED
  BY <1>11 DEF d

(* All that a prompt shows is told by the digest of its dependencies and   *)
(* the revision of its case.                                               *)
LEMMA DataTold ==
  ASSUME Typed, NEW scope, scope.case \in DOMAIN cases
  PROVE  promptCaseData(scope) = DataIn(scope, cases[scope.case].revision, dependencyDigest(scope))
<1> DEFINE c == scope.case
           d == dependencyDigest(scope)
<1>1. /\ d.case.route = cases[c].route /\ d.case.code = cases[c].code /\ d.records = Records(scope)
      /\ DOMAIN d.sources = ContextSources(scope)
  BY DigestParts
<1>2. MissingIn(scope, d) = missing(scope) /\ ConflictsIn(scope, d) = conflicts(scope)
  BY MissingTold, ConflictsTold
<1> HIDE DEF d
<1>3. promptCaseData(scope) = DataIn(scope, cases[c].revision, d)
  BY <1>1, <1>2 DEF promptCaseData, DataIn, caseTarget
<1> QED
  BY <1>3 DEF d

----------------------------------------------------------------------------
(* Reading a context and generating a prompt.                              *)

LEMMA SeqOf ==
  ASSUME NEW T, NEW U, NEW table \in Seq(T), \A i \in 1 .. Len(table) : table[i] \in U
  PROVE  table \in Seq(U)
<1>1. table \in [1 .. Len(table) -> T] /\ Len(table) \in Nat
  BY LenProperties
<1>2. table \in [1 .. Len(table) -> U]
  BY <1>1
<1>3. Seq(U) = UNION {[1 .. n -> U] : n \in Nat}
  BY SeqDef, Zenon
<1> QED
  BY <1>1, <1>2, <1>3, Zenon

LEMMA AppendAny ==
  ASSUME NEW old, old \in Seq(RowSet(old)), NEW row, NEW new, new = Append(old, row)
  PROVE  /\ new \in Seq(RowSet(new)) /\ Len(old) \in Nat /\ Len(new) = Len(old) + 1
         /\ Rows(new) = Rows(old) \union {Len(old) + 1} /\ new[Len(old) + 1] = row
<1> DEFINE T == RowSet(old) \union {row}
           U == RowSet(new)
<1>1. old \in Seq(T) /\ row \in T
  BY SeqMonotonic
<1> HIDE DEF T
<1>2. Len(old) \in Nat /\ new \in Seq(T) /\ Len(new) = Len(old) + 1
  BY <1>1, AppendProperties, LenProperties
<1>3. Rows(new) = Rows(old) \union {Len(old) + 1} /\ new[Len(old) + 1] = row
  <2>1. new[Len(old) + 1] = row
    BY <1>1, AppendProperties DEF Rows
  <2> QED
    BY <1>2, <2>1 DEF Rows
<1>5. new \in Seq(U)
  <2>1. \A i \in 1 .. Len(new) : new[i] \in U
    BY DEF Rows, RowSet
  <2> QED
    BY <1>2, <2>1, SeqOf
<1> QED
  BY <1>2, <1>3, <1>5

LEMMA ReadContextKeeps ==
  ASSUME IInv, NEW c \in DOMAIN cases, NEW scope \in ContextScopes(c), ReadContext(scope)
  PROVE  IInv'
<1>1. /\ UNCHANGED <<cases, links, works, items, mappings, facts, bindings, selections, prompts, outside>>
      /\ Len(prompts) < MaxPrompts /\ scope.case = c
      /\ scope.selection \in OneOf(RowsOf(selections, c))
      /\ review' = [scope |-> scope, revision |-> cases[c].revision,
                    digest |-> dependencyDigest(scope), data |-> promptCaseData(scope)]
  BY DEF ReadContext, vars, tables, ContextScopes, contextScope
<1>2. promptCaseData(scope) = DataIn(scope, cases[c].revision, dependencyDigest(scope))
  BY <1>1, DataTold DEF IInv
<1>3. \A s, revision, digest : DataIn(s, revision, digest)' = DataIn(s, revision, digest)
  BY <1>1 DEF DataIn, ConflictsIn, SelectionCitations
<1>4. /\ review'.scope = scope /\ review'.revision = cases[c].revision
      /\ review'.digest = dependencyDigest(scope) /\ review'.data = promptCaseData(scope)
  BY <1>1
<1>5. DataIn(review.scope, review.revision, review.digest)'
        = DataIn(review'.scope, review'.revision, review'.digest)
  BY <1>1 DEF DataIn, ConflictsIn, SelectionCitations
<1>6. ReviewHolds'
  <2>1. (review.data = DataIn(review.scope, review.revision, review.digest))'
    BY <1>2, <1>4, <1>5
  <2>2. (review.scope.selection \in OneOf(Rows(selections)))'
    BY <1>1, <1>4 DEF OneOf, RowsOf
  <2>3. (Len(prompts) < MaxPrompts)'
    BY <1>1
  <2> QED
    BY <2>1, <2>2, <2>3 DEF ReviewHolds
<1>7. Typed' /\ outside' \in OutsideRows /\ PromptsTyped'
  BY <1>1 DEF IInv, Typed, PromptsTyped
<1>8. RowsHaveCases' /\ SourcesFit' /\ NamesHold'
  BY <1>1 DEF IInv, RowsHaveCases, SourcesFit, NamesHold
<1>9. PromptsShowWhatWasReviewed' /\ Len(prompts') <= MaxPrompts
  BY <1>1 DEF IInv, PromptsShowWhatWasReviewed
<1> QED
  BY <1>6, <1>7, <1>8, <1>9 DEF IInv

LEMMA GeneratePromptKeeps ==
  ASSUME IInv, GeneratePrompt
  PROVE  IInv'
<1> DEFINE scope == review.scope
           c == scope.case
           version == NextVersion(c, scope.task)
           row == [case |-> c, task |-> scope.task, version |-> version,
                   digest |-> review.digest, data |-> promptCaseData(scope), reviewed |-> review.data]
<1>1. /\ review # None /\ review' = None /\ c \in DOMAIN cases
      /\ cases[c].revision = review.revision /\ dependencyDigest(scope) = review.digest
      /\ prompts' = Append(prompts, row)
      /\ UNCHANGED <<cases, links, works, items, mappings, facts, bindings, selections, outside>>
  BY DEF GeneratePrompt
<1>2. /\ prompts \in Seq(RowSet(prompts)) /\ Len(prompts) < MaxPrompts
      /\ review.data = DataIn(scope, review.revision, review.digest)
  BY <1>1 DEF IInv, ReviewHolds, PromptsTyped
<1>3. promptCaseData(scope) = review.data
  BY <1>1, <1>2, DataTold DEF IInv
<1>4. Len(prompts) \in Nat
  BY <1>2, AppendAny
<1>5. version \in 1 .. MaxPrompts
  <2> DEFINE same == {p \in RowsOf(prompts, c) : prompts[p].task = scope.task}
  <2>1. same \in SUBSET (1 .. Len(prompts))
    BY DEF RowsOf, Rows
  <2>2. IsFiniteSet(1 .. Len(prompts)) /\ Cardinality(1 .. Len(prompts)) = Len(prompts)
    BY <1>4, FS_Interval
  <2>3. IsFiniteSet(same) /\ Cardinality(same) <= Len(prompts)
    BY <2>1, <2>2, FS_Subset
  <2>4. Cardinality(same) \in Nat
    BY <2>3, FS_CardinalityType
  <2>5. version = 1 + Cardinality(same)
    BY DEF NextVersion
  <2> HIDE DEF same, version
  <2> QED
    BY <1>2, <1>4, <2>3, <2>4, <2>5, FirstsAssumption
<1>6. c \in Cases
  BY <1>1 DEF IInv, Typed
<1>7. row.case = c /\ row.version = version /\ row.data = row.reviewed
  BY <1>3
<1> HIDE DEF row, version
<1>8. /\ prompts' \in Seq(RowSet(prompts')) /\ Len(prompts') = Len(prompts) + 1
      /\ Rows(prompts') = Rows(prompts) \union {Len(prompts) + 1} /\ prompts'[Len(prompts) + 1] = row
      /\ \A p \in Rows(prompts) : prompts'[p] = prompts[p]
  <2>1. prompts \in Seq(RowSet(prompts)) /\ prompts' = Append(prompts, row)
    BY <1>1, <1>2
  <2>2. /\ prompts' \in Seq(RowSet(prompts')) /\ Len(prompts') = Len(prompts) + 1
        /\ Rows(prompts') = Rows(prompts) \union {Len(prompts) + 1} /\ prompts'[Len(prompts) + 1] = row
    BY <2>1, AppendAny
  <2>3. \A p \in Rows(prompts) : prompts'[p] = prompts[p]
    <3> DEFINE T == RowSet(prompts) \union {row}
    <3>1. prompts \in Seq(T) /\ row \in T
      BY <2>1, SeqMonotonic
    <3> HIDE DEF T
    <3> QED
      BY <2>1, <3>1, AppendProperties DEF Rows
  <2> QED
    BY <2>2, <2>3
<1>9. PromptsTyped'
  BY <1>5, <1>6, <1>7, <1>8 DEF IInv, PromptsTyped
<1>10. Typed' /\ outside' \in OutsideRows
  BY <1>1 DEF IInv, Typed
<1>11. RowsHaveCases'
  BY <1>1, <1>7, <1>8 DEF IInv, RowsHaveCases, RowsOfCases
<1>12. SourcesFit' /\ NamesHold'
  BY <1>1 DEF IInv, SourcesFit, NamesHold
<1>13. ReviewHolds'
  BY <1>1 DEF ReviewHolds
<1>14. PromptsShowWhatWasReviewed'
  BY <1>7, <1>8 DEF IInv, PromptsShowWhatWasReviewed
<1>15. Len(prompts') <= MaxPrompts
  BY <1>2, <1>4, <1>8, FirstsAssumption
<1> QED
  BY <1>9, <1>10, <1>11, <1>12, <1>13, <1>14, <1>15 DEF IInv

LEMMA StutterKeeps ==
  ASSUME IInv, UNCHANGED contextVars
  PROVE  IInv'
<1>1. /\ UNCHANGED <<cases, links, works, items, mappings, facts, bindings, selections, prompts, outside>>
      /\ review' = review
  BY DEF contextVars, vars, tables
<1>2. DataIn(review.scope, review.revision, review.digest)'
        = DataIn(review.scope, review.revision, review.digest)
  BY <1>1 DEF DataIn, ConflictsIn, SelectionCitations
<1>3. ReviewHolds'
  BY <1>1, <1>2 DEF IInv, ReviewHolds
<1>4. Typed' /\ outside' \in OutsideRows /\ PromptsTyped'
  BY <1>1 DEF IInv, Typed, PromptsTyped
<1>5. RowsHaveCases' /\ SourcesFit' /\ NamesHold'
  BY <1>1 DEF IInv, RowsHaveCases, SourcesFit, NamesHold
<1>6. PromptsShowWhatWasReviewed' /\ Len(prompts') <= MaxPrompts
  BY <1>1 DEF IInv, PromptsShowWhatWasReviewed
<1> QED
  BY <1>3, <1>4, <1>5, <1>6 DEF IInv

LEMMA InitHolds == Init => IInv
<1> SUFFICES ASSUME Init PROVE IInv
  OBVIOUS
<1> PICK first \in Firsts :
      /\ cases = first.cases /\ links = first.links /\ works = first.works
      /\ items = first.items /\ mappings = first.mappings /\ facts = first.facts
      /\ bindings = first.bindings /\ selections = first.selections
  BY DEF Init
<1>1. /\ prompts = <<>> /\ review = None
      /\ outside = [archived |-> {}, routes |-> [rt \in Routes |-> "LINKED"],
                    users |-> [s \in Sources |-> {}], superseded |-> {},
                    captured |-> {bindings[b].message : b \in Rows(bindings)},
                    authority |-> [rt \in Routes |-> 0], changes |-> 0]
  BY DEF Init
<1>2. Typed
  BY FirstsAssumption DEF Typed
<1>3. outside \in OutsideRows
  <2>1. \A b \in Rows(bindings) : bindings[b].message \in Messages
    <3>1. bindings \in Seq(BindingRows)
      BY <1>2 DEF Typed
    <3>2. \A b \in Rows(bindings) : bindings[b] \in BindingRows
      BY <3>1, RowOf
    <3> QED
      BY <3>2 DEF BindingRows
  <2> QED
    BY <1>1, <2>1 DEF OutsideRows
<1>4. Len(prompts) = 0 /\ Rows(prompts) = {} /\ prompts \in Seq(RowSet(prompts))
  BY <1>1, EmptySeq DEF Rows
<1>5. PromptsTyped /\ PromptsShowWhatWasReviewed /\ Len(prompts) <= MaxPrompts
  BY <1>4, FirstsAssumption DEF PromptsTyped, PromptsShowWhatWasReviewed
<1>6. RowsHaveCases
  BY <1>4, FirstsAssumption DEF RowsHaveCases, RowsOfCases
<1>7. SourcesFit /\ NamesHold
  BY FirstsAssumption DEF SourcesFit, NamesHold
<1> QED
  BY <1>1, <1>2, <1>3, <1>5, <1>6, <1>7 DEF IInv, ReviewHolds

(* The invariant of cases and contexts, inductive.                         *)
THEOREM Invariant == Spec => []IInv
<1>1. ASSUME IInv, [Next]_contextVars PROVE IInv'
  BY <1>1, IntakeKeeps, ReadContextKeeps, GeneratePromptKeeps, StutterKeeps DEF Next
<1> QED
  BY InitHolds, <1>1, PTL DEF Spec

(* Candidates and validations write no record of a case or its contexts.   *)
LEMMA ValidationLeavesContexts == ValidationSpec => Spec
<1>1. ValidationInit => Init
  BY DEF ValidationInit
<1>2. [ValidationNext]_allVars => [Next]_contextVars
  BY DEF ValidationNext, ValidationSteps, StoreCandidate, CaptureCandidate, RecordRun, DropCapture, allVars
<1> QED
  BY <1>1, <1>2, PTL DEF ValidationSpec, Spec

----------------------------------------------------------------------------
(* What the invariant says                                                 *)

(* Every row of the tables of intake, of the prompts and of the records    *)
(* elsewhere keeps the type of its columns, whatever the writes.           *)
THEOREM TypesStay == ValidationSpec => []TypeOK
<1>1. IInv => TypeOK
  BY DEF IInv, Typed, PromptsTyped, TypeOK
<1> QED
  BY <1>1, Invariant, ValidationLeavesContexts, PTL

LEMMA SourcesOfInvariant == IInv => SourcesFitTheCase
<1> SUFFICES ASSUME IInv, NEW c \in DOMAIN cases,
                    NEW t \in IntakeCitations(c)
                              \union {Cites(selections[i].basis, "SELECTION_BASIS", i) :
                                        i \in RowsOf(selections, c)},
                    t.source # None
             PROVE  scopeProblem(t.source, caseTarget(c)) = None
  BY DEF SourcesFitTheCase
<1>1. SUFFICES Fits(cases, t.source, c)
  BY DEF Fits, caseTarget
<1>2. /\ ColumnsFit(cases) /\ LinksFit(cases, links, facts) /\ MappingsFit(cases, mappings, facts)
      /\ SelectionsFit(cases, selections) /\ FactsName(links, works, items, mappings, facts)
  BY DEF IInv, SourcesFit, NamesHold
<1>3. facts \in Seq(FactRows)
  BY DEF IInv, Typed
<1>4. \A f \in Current(facts, c) : f \in Rows(facts) /\ facts[f].case = c
  BY DEF Current, RowsOf
<1>5. \A i \in Supporting(c) : Fits(cases, links[i].source, c)
  <2> SUFFICES ASSUME NEW i \in Supporting(c) PROVE Fits(cases, links[i].source, c)
    OBVIOUS
  <2>1. PICK f \in Current(facts, c) : i \in facts[f].supports
    BY DEF Supporting
  <2>2. i \in RowsOf(links, c)
    BY <1>2, <1>4, <2>1 DEF FactsName
  <2> QED
    BY <1>2, <1>4, <2>1, <2>2 DEF LinksFit, RowsOf
<1>6. \A i \in ContextLinks(c) : Fits(cases, links[i].source, c)
  BY <1>2, <1>5 DEF ContextLinks, LinksFit, RowsOf
<1>7. \A m \in ContextMappings(c) : Fits(cases, mappings[m].basis, c)
  <2>1. \A m \in Unarchived(mappings, c) : Fits(cases, mappings[m].basis, c)
    BY <1>2 DEF MappingsFit, Unarchived, RowsOf
  <2>2. ASSUME NEW m \in InScope(c, "USE") PROVE Fits(cases, mappings[m].basis, c)
    <3>1. PICK f \in Current(facts, c) : facts[f].scope.kind = "USE" /\ facts[f].scope.row = m
      BY DEF InScope
    <3>2. facts[f] \in FactRows
      BY <1>3, <1>4, RowOf
    <3>3. facts[f].scope = [kind |-> "USE", row |-> m]
      BY <3>1, <3>2 DEF FactRows
    <3>4. m \in RowsOf(mappings, c)
      BY <1>2, <1>4, <3>1 DEF FactsName
    <3> QED
      BY <1>2, <1>4, <3>3, <3>4 DEF MappingsFit, RowsOf
  <2> QED
    BY <2>1, <2>2 DEF ContextMappings
<1>8. CASE t \in IntakeCitations(c)
  <2>1. \/ t = Cites(cases[c].canonical, "CASE_CANONICAL", c) \/ t = Cites(cases[c].packet, "CASE_PACKET", c)
        \/ \E i \in ContextLinks(c) : t = Cites(links[i].source, "CASE_SOURCE", i)
        \/ \E i \in Supporting(c) : t = Cites(links[i].source, "FACT_SUPPORT", i)
        \/ \E m \in ContextMappings(c) : t = Cites(mappings[m].basis, "MAPPING_BASIS", m)
    BY <1>8 DEF IntakeCitations
  <2>2. \A s, kind, row : Cites(s, kind, row).source = s
    BY DEF Cites
  <2> QED
    BY <1>2, <1>5, <1>6, <1>7, <2>1, <2>2 DEF ColumnsFit
<1>9. CASE t \in {Cites(selections[i].basis, "SELECTION_BASIS", i) : i \in RowsOf(selections, c)}
  BY <1>2, <1>9 DEF Cites, SelectionsFit, RowsOf
<1> QED
  BY <1>8, <1>9

(* Every source that a case's records cite is within its recorded scope    *)
(* for the party the case is bound to (case-sources, use-mappings, facts,  *)
(* authority selections and the columns of the case).                      *)
THEOREM CitedSourcesFit == ValidationSpec => []SourcesFitTheCase
  BY SourcesOfInvariant, Invariant, ValidationLeavesContexts, PTL

LEMMA ReadsOfInvariant == IInv => ReadsStaySound
<1> SUFFICES ASSUME IInv PROVE ReadsStaySound
  OBVIOUS
<1>1. /\ SelectionsFit(cases, selections) /\ MappingsName(works, items, mappings)
      /\ FactsName(links, works, items, mappings, facts) /\ FactsChain(facts) /\ BindingsName(items, bindings)
      /\ facts \in Seq(FactRows)
  BY DEF IInv, SourcesFit, NamesHold, Typed
<1>2. \A i \in Rows(selections) : selections[i].route = cases[selections[i].case].route
  BY <1>1 DEF SelectionsFit
<1>3. ASSUME NEW f \in Rows(facts)
      PROVE  /\ facts[f].supports \subseteq RowsOf(links, facts[f].case)
             /\ facts[f].scope.kind # "CASE" =>
                  facts[f].scope.row \in RowsOf(TableOf(facts[f].scope.kind), facts[f].case)
             /\ Cardinality({g \in Current(facts, facts[f].case) : facts[g].group = facts[f].group}) = 1
             /\ facts[f].scope = facts[facts[f].group].scope
  <2>1. facts[f] \in FactRows
    BY <1>1, RowOf
  <2>2. facts[f].scope.kind \in {"CASE", "WORK", "ITEM", "USE"}
    BY <2>1 DEF FactRows
  <2>3. facts[f].scope.kind # "CASE" =>
          facts[f].scope.row \in RowsOf(TableOf(facts[f].scope.kind), facts[f].case)
    <3>1. CASE facts[f].scope.kind = "WORK"
      BY <1>1, <3>1 DEF FactsName, TableOf
    <3>2. CASE facts[f].scope.kind = "ITEM"
      BY <1>1, <3>2 DEF FactsName, TableOf
    <3>3. CASE facts[f].scope.kind = "USE"
      BY <1>1, <3>3 DEF FactsName, TableOf
    <3> QED
      BY <2>2, <3>1, <3>2, <3>3
  <2>4. PICK head \in Rows(facts) :
          {g \in Current(facts, facts[f].case) : facts[g].group = facts[f].group} = {head}
    BY <1>1 DEF FactsChain
  <2>5. Cardinality({head}) = 1
    BY FS_Singleton
  <2> QED
    BY <1>1, <2>3, <2>4, <2>5 DEF FactsName, FactsChain
<1> QED
  BY <1>1, <1>2, <1>3 DEF ReadsStaySound, MappingsName, BindingsName

(* No read of a context meets what it treats as an integrity failure: rows *)
(* name rows of their own case, and a chain of facts has one head          *)
(* (context-snapshot.ts, context-assembly.ts).                             *)
THEOREM ReadsAlwaysSound == ValidationSpec => []ReadsStaySound
  BY ReadsOfInvariant, Invariant, ValidationLeavesContexts, PTL

(* A prompt is made from exactly the case data that its reader reviewed,   *)
(* although a generation locks nothing but the case (prompts.service.ts):  *)
(* the digest it compares tells all of it.                                 *)
THEOREM PromptsAreAsReviewed == ValidationSpec => []PromptsShowWhatWasReviewed
<1>1. IInv => PromptsShowWhatWasReviewed
  BY DEF IInv
<1> QED
  BY <1>1, Invariant, ValidationLeavesContexts, PTL

----------------------------------------------------------------------------
(* The revision of a case moves with its intake                            *)

\* What MaterialMovesRevision says of one step.
MovesRevision ==
  \A c \in DOMAIN cases \intersect DOMAIN cases' :
    /\ cases'[c].revision \in {cases[c].revision, cases[c].revision + 1}
    /\ cases'[c].revision = cases[c].revision \/ cases[c].archived => Intake(c)' = Intake(c)

Columns(row) == [row EXCEPT !.workflow = None, !.version = None, !.archived = None]

LEMMA SameIntake ==
  ASSUME NEW c, Columns(cases'[c]) = Columns(cases[c]),
         \A table \in {<<links, links'>>, <<items, items'>>, <<works, works'>>, <<mappings, mappings'>>,
                       <<facts, facts'>>, <<bindings, bindings'>>} :
           Content(table[2], RowsOf(table[2], c)) = Content(table[1], RowsOf(table[1], c))
  PROVE  Intake(c)' = Intake(c)
<1>1. /\ Content(links', RowsOf(links', c)) = Content(links, RowsOf(links, c))
      /\ Content(items', RowsOf(items', c)) = Content(items, RowsOf(items, c))
      /\ Content(works', RowsOf(works', c)) = Content(works, RowsOf(works, c))
      /\ Content(mappings', RowsOf(mappings', c)) = Content(mappings, RowsOf(mappings, c))
      /\ Content(facts', RowsOf(facts', c)) = Content(facts, RowsOf(facts, c))
      /\ Content(bindings', RowsOf(bindings', c)) = Content(bindings, RowsOf(bindings, c))
  OBVIOUS
<1>2. Columns(cases[c])' = Columns(cases[c])
  BY DEF Columns
<1>3. Intake(c) = <<Columns(cases[c]), Content(links, RowsOf(links, c)), Content(items, RowsOf(items, c)),
                    Content(works, RowsOf(works, c)), Content(mappings, RowsOf(mappings, c)),
                    Content(facts, RowsOf(facts, c)), Content(bindings, RowsOf(bindings, c))>>
  BY DEF Intake, Columns
<1>4. Intake(c)' = <<Columns(cases'[c]), Content(links', RowsOf(links', c)), Content(items', RowsOf(items', c)),
                     Content(works', RowsOf(works', c)), Content(mappings', RowsOf(mappings', c)),
                     Content(facts', RowsOf(facts', c)), Content(bindings', RowsOf(bindings', c))>>
  BY DEF Intake, Columns
<1> QED
  BY <1>1, <1>3, <1>4

LEMMA TouchMoves ==
  ASSUME Typed, NEW c, Touch(c)
  PROVE  MovesRevision
<1> SUFFICES ASSUME NEW d \in DOMAIN cases \intersect DOMAIN cases'
             PROVE  /\ cases'[d].revision \in {cases[d].revision, cases[d].revision + 1}
                    /\ cases'[d].revision = cases[d].revision \/ cases[d].archived => Intake(d)' = Intake(d)
  BY DEF MovesRevision
<1>1. CASE d = c
  <2>1. cases'[c].revision = cases[c].revision + 1 /\ ~cases[c].archived
    BY DEF Touch, Writable
  <2>2. cases[c].revision \in Nat
    BY DEF Touch, Writable, lockCase, Typed, CaseRows
  <2> QED
    BY <1>1, <2>1, <2>2
<1>2. CASE d # c
  <2>1. cases'[d] = cases[d]
    BY <1>2 DEF Touch
  <2>2. /\ Grows(links, links', c) /\ Grows(works, works', c) /\ Grows(items, items', c)
        /\ Grows(mappings, mappings', c) /\ Grows(facts, facts', c) /\ Grows(bindings, bindings', c)
    BY DEF Touch
  <2>3. /\ Content(links', RowsOf(links', d)) = Content(links, RowsOf(links, d))
        /\ Content(items', RowsOf(items', d)) = Content(items, RowsOf(items, d))
        /\ Content(works', RowsOf(works', d)) = Content(works, RowsOf(works, d))
        /\ Content(mappings', RowsOf(mappings', d)) = Content(mappings, RowsOf(mappings, d))
        /\ Content(facts', RowsOf(facts', d)) = Content(facts, RowsOf(facts, d))
        /\ Content(bindings', RowsOf(bindings', d)) = Content(bindings, RowsOf(bindings, d))
    BY <1>2, <2>2, ContentStays
  <2>4. Columns(cases'[d]) = Columns(cases[d])
    BY <2>1
  <2>5. Intake(d)' = Intake(d)
    BY <2>3, <2>4, SameIntake
  <2> QED
    BY <2>1, <2>5
<1> QED
  BY <1>1, <1>2

(* A write of a case's own row.                                            *)
LEMMA RowMoves ==
  ASSUME NEW c, UNCHANGED <<links, works, items, mappings, facts, bindings>>,
         \A d \in DOMAIN cases \intersect DOMAIN cases' : d # c => cases'[d] = cases[d],
         c \in DOMAIN cases \intersect DOMAIN cases' =>
           /\ cases'[c].revision \in {cases[c].revision, cases[c].revision + 1}
           /\ cases'[c].revision = cases[c].revision \/ cases[c].archived =>
                Columns(cases'[c]) = Columns(cases[c])
  PROVE  MovesRevision
<1> SUFFICES ASSUME NEW d \in DOMAIN cases \intersect DOMAIN cases'
             PROVE  /\ cases'[d].revision \in {cases[d].revision, cases[d].revision + 1}
                    /\ cases'[d].revision = cases[d].revision \/ cases[d].archived => Intake(d)' = Intake(d)
  BY DEF MovesRevision
<1>1. Columns(cases'[d]) = Columns(cases[d]) => Intake(d)' = Intake(d)
  BY SameIntake
<1>2. CASE d = c
  BY <1>1, <1>2
<1>3. CASE d # c
  BY <1>1, <1>3
<1> QED
  BY <1>2, <1>3

LEMMA SameRecords ==
  ASSUME UNCHANGED <<cases, links, works, items, mappings, facts, bindings>>
  PROVE  MovesRevision
<1>1. \A d \in DOMAIN cases : cases'[d].revision = cases[d].revision /\ Columns(cases'[d]) = Columns(cases[d])
  OBVIOUS
<1> QED
  BY <1>1, RowMoves

\* A row written by Moved from one that differs in its material columns, or not.
LEMMA MovedColumns ==
  ASSUME NEW old \in CaseRows, NEW row \in CaseRows, NEW material \in BOOLEAN, row.revision = old.revision,
         ~material => Columns(row) = Columns(old)
  PROVE  /\ Moved(row, material).revision \in {old.revision, old.revision + 1}
         /\ Moved(row, material).revision = old.revision => Columns(Moved(row, material)) = Columns(old)
<1>1. Moved(row, material).revision = IF material THEN old.revision + 1 ELSE old.revision
  BY MovedRow
<1>2. old.revision \in Nat
  BY DEF CaseRows
<1>3. ASSUME ~material PROVE Columns(Moved(row, material)) = Columns(row)
  BY <1>3 DEF Moved, Columns, CaseRows
<1> QED
  BY <1>1, <1>2, <1>3

LEMMA CaseWriteMoves ==
  ASSUME Typed, UNCHANGED <<links, works, items, mappings, facts, bindings>>,
         NEW c \in DOMAIN cases, NEW row \in CaseRows, NEW material \in BOOLEAN,
         cases' = [cases EXCEPT ![c] = Moved(row, material)], row.revision = cases[c].revision,
         cases[c].archived => ~material, ~material => Columns(row) = Columns(cases[c])
  PROVE  MovesRevision
<1>1. cases[c] \in CaseRows /\ cases'[c] = Moved(row, material) /\ DOMAIN cases' = DOMAIN cases
  BY DEF Typed
<1>2. \A d \in DOMAIN cases \intersect DOMAIN cases' : d # c => cases'[d] = cases[d]
  OBVIOUS
<1>3. /\ cases'[c].revision \in {cases[c].revision, cases[c].revision + 1}
      /\ cases'[c].revision = cases[c].revision => Columns(cases'[c]) = Columns(cases[c])
  BY <1>1, MovedColumns
<1>4. cases[c].archived => cases'[c].revision = cases[c].revision
  BY <1>1, MovedRow
<1> QED
  BY <1>2, <1>3, <1>4, RowMoves

LEMMA CaseStepsMove ==
  ASSUME IInv, NEW c, CaseSteps(c)
  PROVE  MovesRevision
<1>1. Typed /\ outside \in OutsideRows
  BY DEF IInv
<1>2. c \in DOMAIN cases => cases[c] \in CaseRows
  BY <1>1 DEF Typed
<1>3. ASSUME NEW hint \in OneOf(Owners), NEW packet \in OneOf(Sources), PatchCase(c, hint, packet)
      PROVE  MovesRevision
  <2> DEFINE row == [cases[c] EXCEPT !.hint = hint, !.packet = packet]
             material == row # cases[c]
  <2>1. /\ c \in DOMAIN cases /\ ~cases[c].archived
        /\ cases' = [cases EXCEPT ![c] = Moved(row, material)]
        /\ UNCHANGED <<links, works, items, mappings, facts, bindings>>
    BY <1>3 DEF PatchCase, Writable, lockCase, tables
  <2>2. row \in CaseRows /\ row.revision = cases[c].revision
    BY <1>2, <2>1 DEF CaseRows
  <2>3. material \in BOOLEAN /\ (~material => row = cases[c])
    OBVIOUS
  <2> HIDE DEF row, material
  <2> QED
    BY <1>1, <2>1, <2>2, <2>3, CaseWriteMoves
<1>4. ASSUME DeleteCase(c) PROVE MovesRevision
  <2>1. /\ cases' = [d \in DOMAIN cases \ {c} |-> cases[d]]
        /\ UNCHANGED <<links, works, items, mappings, facts, bindings>>
    BY <1>4 DEF DeleteCase, tables
  <2> QED
    BY <2>1, RowMoves
<1>5. ASSUME NEW flag \in BOOLEAN, c \in DOMAIN cases, UNCHANGED <<tables, outside>>,
             cases' = [cases EXCEPT ![c] = Moved([cases[c] EXCEPT !.archived = flag], FALSE)]
      PROVE  MovesRevision
  <2> DEFINE row == [cases[c] EXCEPT !.archived = flag]
  <2>1. row \in CaseRows /\ row.revision = cases[c].revision
    BY <1>2, <1>5 DEF CaseRows
  <2>2. Columns(row) = Columns(cases[c])
    BY <1>2, <1>5 DEF Columns, CaseRows
  <2>3. UNCHANGED <<links, works, items, mappings, facts, bindings>>
    BY <1>5 DEF tables
  <2>4. cases' = [cases EXCEPT ![c] = Moved(row, FALSE)]
    BY <1>5
  <2> HIDE DEF row
  <2> QED
    BY <1>1, <1>5, <2>1, <2>2, <2>3, <2>4, CaseWriteMoves
<1>6. ASSUME NEW state \in Workflows, SetWorkflow(c, state) PROVE MovesRevision
  <2> DEFINE row == [cases[c] EXCEPT !.workflow = state]
  <2>1. /\ c \in DOMAIN cases /\ cases' = [cases EXCEPT ![c] = Moved(row, FALSE)]
        /\ UNCHANGED <<links, works, items, mappings, facts, bindings>>
    BY <1>6 DEF SetWorkflow, Writable, lockCase, tables
  <2>2. row \in CaseRows /\ row.revision = cases[c].revision
    BY <1>2, <2>1 DEF CaseRows
  <2>3. Columns(row) = Columns(cases[c])
    BY <1>2, <2>1 DEF Columns, CaseRows
  <2> HIDE DEF row
  <2> QED
    BY <1>1, <2>1, <2>2, <2>3, CaseWriteMoves
<1>7. ASSUME NEW rt \in Routes, BindRoute(c, rt) PROVE MovesRevision
  <2> DEFINE row == [cases[c] EXCEPT !.route = rt]
  <2>1. /\ c \in DOMAIN cases /\ ~cases[c].archived /\ cases' = [cases EXCEPT ![c] = Moved(row, TRUE)]
        /\ UNCHANGED <<links, works, items, mappings, facts, bindings>>
    BY <1>7 DEF BindRoute, Writable, lockCase, tables
  <2>2. row \in CaseRows /\ row.revision = cases[c].revision
    BY <1>2, <2>1 DEF CaseRows, OneOf
  <2> HIDE DEF row
  <2> QED
    BY <1>1, <2>1, <2>2, CaseWriteMoves
<1>8. ASSUME NEW code \in Codes, NEW s \in Sources, BindCanonical(c, code, s) PROVE MovesRevision
  <2> DEFINE row == [cases[c] EXCEPT !.code = code, !.canonical = s]
  <2>1. /\ c \in DOMAIN cases /\ ~cases[c].archived /\ cases' = [cases EXCEPT ![c] = Moved(row, TRUE)]
        /\ UNCHANGED <<links, works, items, mappings, facts, bindings>>
    BY <1>8 DEF BindCanonical, Writable, lockCase, tables
  <2>2. row \in CaseRows /\ row.revision = cases[c].revision
    BY <1>2, <2>1 DEF CaseRows, OneOf
  <2> HIDE DEF row
  <2> QED
    BY <1>1, <2>1, <2>2, CaseWriteMoves
<1>9. ASSUME ArchiveCase(c) PROVE MovesRevision
  BY <1>5, <1>9 DEF ArchiveCase, Writable, lockCase
<1>10. ASSUME RestoreCase(c) PROVE MovesRevision
  BY <1>5, <1>10 DEF RestoreCase, lockCase
<1>11. ASSUME NEW basis \in OneOf(Sources), SelectAuthority(c, basis) PROVE MovesRevision
  BY <1>1, <1>11, SelectAuthorityTouches, TouchMoves
<1>12. ASSUME NEW s \in Sources, NEW role \in Roles, LinkSource(c, s, role) PROVE MovesRevision
  BY <1>1, <1>12, LinkSourceTouches, TouchMoves
<1>13. ASSUME NEW title \in Texts, CreateWork(c, title) PROVE MovesRevision
  BY <1>1, <1>13, CreateWorkTouches, TouchMoves
<1>14. ASSUME NEW video \in Videos, NEW title \in Texts, CreateItem(c, video, title) PROVE MovesRevision
  BY <1>1, <1>14, CreateItemTouches, TouchMoves
<1>15. ASSUME NEW w \in Rows(works), NEW i \in Rows(items), NEW o \in Occurrences, NEW p \in Provenances,
              NEW basis \in OneOf(Sources), CreateMapping(c, w, i, o, p, basis)
       PROVE  MovesRevision
  BY <1>1, <1>15, CreateMappingTouches, TouchMoves
<1>16. ASSUME NEW head \in OneOf(Rows(facts)), NEW scope \in Scopes(c), NEW p \in Provenances,
              NEW supports \in SUBSET Rows(links), RecordFact(c, head, scope, p, supports)
       PROVE  MovesRevision
  BY <1>1, <1>16, RecordFactTouches, TouchMoves
<1>17. ASSUME NEW m \in outside.captured, NEW item \in OneOf(Rows(items)),
              NEW event \in {"NMI", "AS_SENT", "OUTCOME"}, NEW earlier \in OneOf(Rows(bindings)),
              BindCorrespondence(c, m, item, event, earlier)
       PROVE  MovesRevision
  BY <1>1, <1>17, BindCorrespondenceTouches, TouchMoves
<1> QED
  BY <1>3, <1>4, <1>6, <1>7, <1>8, <1>9, <1>10, <1>11, <1>12, <1>13, <1>14, <1>15, <1>16, <1>17 DEF CaseSteps

LEMMA RowStepsMove ==
  ASSUME IInv, RowSteps
  PROVE  MovesRevision
<1>1. Typed
  BY DEF IInv
<1> QED
  BY <1>1, TouchMoves, SetLinkStateTouches, PatchWorkTouches, SetWorkArchivedTouches, PatchItemTouches,
     SetItemArchivedTouches, PatchMappingTouches, ArchiveMappingTouches, RestoreMappingTouches DEF RowSteps

LEMMA OutsideStepsMove ==
  ASSUME OutsideSteps
  PROVE  MovesRevision
<1>1. UNCHANGED <<cases, tables>>
  BY DEF OutsideSteps, CaptureCorrespondence, SetPartyArchived, SetRouteState, CiteForOwner, CeaseCiting,
         ReviseSource, MoveAuthority, Elsewhere
<1> QED
  BY <1>1, SameRecords DEF tables

LEMMA CreateCaseMoves ==
  ASSUME NEW c, NEW rt, NEW hint, CreateCase(c, rt, hint)
  PROVE  MovesRevision
<1>1. /\ c \notin DOMAIN cases /\ UNCHANGED <<links, works, items, mappings, facts, bindings>>
      /\ cases' = [d \in DOMAIN cases \union {c} |-> IF d = c THEN NewCase(rt, hint) ELSE cases[d]]
  BY DEF CreateCase, tables
<1>2. \A d \in DOMAIN cases \intersect DOMAIN cases' : cases'[d] = cases[d]
  BY <1>1
<1> QED
  BY <1>1, <1>2, RowMoves

(* While the revision of a case stands, so does everything recorded in its *)
(* intake, and an archived case changes only by being restored (the        *)
(* touchCase of every write of modules/cases).                             *)
THEOREM IntakeMovesTheRevision == ValidationSpec => MaterialMovesRevision
<1>1. ASSUME IInv, [Next]_contextVars PROVE [MovesRevision]_vars
  <2>1. CASE IntakeSteps
    BY <1>1, <2>1, CaseStepsMove, RowStepsMove, OutsideStepsMove, CreateCaseMoves DEF IntakeSteps
  <2>2. ASSUME NEW scope, ReadContext(scope) PROVE UNCHANGED vars
    BY <2>2 DEF ReadContext
  <2>3. CASE GeneratePrompt
    BY <2>3, SameRecords DEF GeneratePrompt
  <2>4. CASE UNCHANGED contextVars
    BY <2>4 DEF contextVars
  <2> QED
    BY <1>1, <2>1, <2>2, <2>3, <2>4 DEF Next
<1>2. Spec => [][MovesRevision]_vars
  BY <1>1, Invariant, PTL DEF Spec
<1>3. MaterialMovesRevision <=> [][MovesRevision]_vars
  BY PTL DEF MaterialMovesRevision, MovesRevision
<1> QED
  BY <1>2, <1>3, ValidationLeavesContexts, PTL

----------------------------------------------------------------------------
(* Candidates and their validations                                        *)

\* What a validation evaluates, as a digest tells it.
EvaluatedIn(scope, digest) ==
  [dependencies |-> dependenciesOf(digest),
   missing |-> MissingIn(scope, digest), conflicts |-> ConflictsIn(scope, digest),
   mailbox |-> IF scope.selection = None THEN None ELSE Mailbox[selections[scope.selection].route],
   signer |-> IF scope.selection = None THEN None ELSE Signer[selections[scope.selection].route],
   parentMessage |-> IF scope.parent = None THEN None
                     ELSE Message[digest.records.bindings[scope.parent].message],
   priorMessages |-> {Message[digest.records.bindings[b].message] : b \in scope.priors}]

\* A validation's input: the rows it is about, a digest, and what is known of the plan.
InputIn(k, digest, plan) ==
  LET row == candidates[k]
      prompt == prompts[row.prompt]
      scope == ScopeOf(k)
  IN [candidate |-> [case |-> row.case, task |-> row.task, text |-> row.draft.text,
                     envelope |-> row.draft.envelope, plan |-> row.draft.plan],
      prompt |-> [case |-> prompt.case, task |-> prompt.task, mode |-> scope.mode,
                  parent |-> scope.parent, dependencies |-> dependenciesOf(prompt.digest)],
      evaluated |-> EvaluatedIn(scope, digest),
      planSources |-> plan]

Table(f) == f = [i \in DOMAIN f |-> f[i]]

\* The parts of a digest.
Shaped(d) ==
  /\ d = [scope |-> d.scope, case |-> d.case, parties |-> d.parties, records |-> d.records,
          links |-> d.links, sources |-> d.sources]
  /\ LET r == d.records
     IN /\ r = [items |-> r.items, works |-> r.works, mappings |-> r.mappings, facts |-> r.facts,
                bindings |-> r.bindings, authority |-> r.authority]
        /\ Table(r.items) /\ Table(r.works) /\ Table(r.mappings) /\ Table(r.facts) /\ Table(r.bindings)
  /\ Table(d.links) /\ Table(d.sources)

\* What a reader asked for.
ReviewShaped ==
  review # None =>
    LET s == review.scope
    IN /\ s = [case |-> s.case, task |-> s.task, mode |-> s.mode, selection |-> s.selection,
               parent |-> s.parent, priors |-> s.priors]
       /\ s.task \in {"INITIAL", "NMI_REPLY"}

\* A prompt's digest tells its data, and the scope that it is validated in.
PromptHolds(row) ==
  LET scope == row.data.scope
  IN /\ scope.case = row.case /\ scope.task = row.task /\ scope = validationScope(row)
     /\ scope.selection \in OneOf(Rows(selections))
     /\ scope.parent # None => scope.task = "NMI_REPLY"
     /\ row.data = DataIn(scope, row.digest.case.revision, row.digest)
     /\ row.digest.scope = scope /\ Shaped(row.digest)

CandidateHolds(row) ==
  /\ row.prompt \in Rows(prompts)
  /\ row.case = prompts[row.prompt].case /\ row.task = prompts[row.prompt].task

(* A validation's verdict is of what it read, of which the digest tells    *)
(* all but the sources of the plan that the case does not cite.            *)
RunHolds(run) ==
  LET k == run.candidate
      c == candidates[k].case
  IN /\ k \in Rows(candidates)
     /\ run.evaluation = evaluateCandidate(InputIn(k, run.digest, run.plan), run.failed)
     /\ Table(run.plan) /\ DOMAIN run.plan = {e.source : e \in candidates[k].draft.plan}
     /\ \A s \in DOMAIN run.plan :
          /\ run.plan[s] = [exists |-> s \in Sources, problem |-> run.plan[s].problem,
                            latest |-> run.plan[s].latest, hash |-> Hash[s]]
          /\ s \in DOMAIN run.digest.sources =>
               /\ run.plan[s].problem = ProblemIn(s, c, run.digest)
               /\ run.plan[s].latest = ~run.digest.sources[s].superseded

VInv ==
  /\ ReviewShaped
  /\ \A p \in Rows(prompts) : PromptHolds(prompts[p])
  /\ candidates \in Seq(RowSet(candidates))
  /\ \A k \in Rows(candidates) : CandidateHolds(candidates[k])
  /\ captured # None => RunHolds(captured)
  /\ runs \in Seq(RowSet(runs))
  /\ \A r \in Rows(runs) : RunHolds(runs[r])

\* The rows of a table that were there before still are, unchanged.
Extends(old, new) == Rows(old) \subseteq Rows(new) /\ \A i \in Rows(old) : new[i] = old[i]

Kinds == {"CaseRecord", "Party", "Authority", "ReportedItem", "CaseWork", "UseMapping", "CaseFact",
          "CorrespondenceBinding", "CaseSource", "SourceReference"}

\* Which entries of a digest are of which kind.
EntriesOf(digest, kind) == {d \in dependenciesOf(digest) : d[1] = kind}

LEMMA EntriesAre ==
  ASSUME NEW type, NEW content
  PROVE  /\ \A d \in Entries(type, content) :
              d[1] = type /\ d[2] \in DOMAIN content /\ d = <<type, d[2], content[d[2]]>>
         /\ \A i \in DOMAIN content : <<type, i, content[i]>> \in Entries(type, content)
  BY DEF Entries

LEMMA DependencyKinds ==
  ASSUME NEW d
  PROVE  /\ EntriesOf(d, "CaseRecord") = {<<"CaseRecord", d.scope.case, d.case>>}
         /\ EntriesOf(d, "Party") = {<<"Party", d.scope.case, d.parties>>}
         /\ EntriesOf(d, "Authority") = {<<"Authority", d.scope.selection, d.records.authority>>}
         /\ EntriesOf(d, "ReportedItem") = Entries("ReportedItem", d.records.items)
         /\ EntriesOf(d, "CaseWork") = Entries("CaseWork", d.records.works)
         /\ EntriesOf(d, "UseMapping") = Entries("UseMapping", d.records.mappings)
         /\ EntriesOf(d, "CaseFact") = Entries("CaseFact", d.records.facts)
         /\ EntriesOf(d, "CorrespondenceBinding") = Entries("CorrespondenceBinding", d.records.bindings)
         /\ EntriesOf(d, "CaseSource") = Entries("CaseSource", d.links)
         /\ EntriesOf(d, "SourceReference") = Entries("SourceReference", d.sources)
<1> DEFINE first == {<<"CaseRecord", d.scope.case, d.case>>, <<"Party", d.scope.case, d.parties>>,
                     <<"Authority", d.scope.selection, d.records.authority>>}
           itemEntries == Entries("ReportedItem", d.records.items)
           workEntries == Entries("CaseWork", d.records.works)
           mappingEntries == Entries("UseMapping", d.records.mappings)
           factEntries == Entries("CaseFact", d.records.facts)
           bindingEntries == Entries("CorrespondenceBinding", d.records.bindings)
           linkEntries == Entries("CaseSource", d.links)
           sourceEntries == Entries("SourceReference", d.sources)
<1>1. /\ \A e \in itemEntries : e[1] = "ReportedItem"
      /\ \A e \in workEntries : e[1] = "CaseWork"
      /\ \A e \in mappingEntries : e[1] = "UseMapping"
      /\ \A e \in factEntries : e[1] = "CaseFact"
      /\ \A e \in bindingEntries : e[1] = "CorrespondenceBinding"
      /\ \A e \in linkEntries : e[1] = "CaseSource"
      /\ \A e \in sourceEntries : e[1] = "SourceReference"
  BY EntriesAre
<1>2. \A e : e \in dependenciesOf(d) <=>
               \/ e \in first \/ e \in itemEntries \/ e \in workEntries \/ e \in mappingEntries
               \/ e \in factEntries \/ e \in bindingEntries \/ e \in linkEntries \/ e \in sourceEntries
  BY DEF dependenciesOf
<1>3. \A e \in first : e[1] \in {"CaseRecord", "Party", "Authority"}
  OBVIOUS
<1>4. \A e \in first : /\ e[1] = "CaseRecord" <=> e = <<"CaseRecord", d.scope.case, d.case>>
                       /\ e[1] = "Party" <=> e = <<"Party", d.scope.case, d.parties>>
                       /\ e[1] = "Authority" <=> e = <<"Authority", d.scope.selection, d.records.authority>>
  OBVIOUS
<1>5. /\ <<"CaseRecord", d.scope.case, d.case>> \in first /\ <<"Party", d.scope.case, d.parties>> \in first
      /\ <<"Authority", d.scope.selection, d.records.authority>> \in first
  OBVIOUS
<1> HIDE DEF first, itemEntries, workEntries, mappingEntries, factEntries, bindingEntries, linkEntries,
             sourceEntries
<1>6. /\ EntriesOf(d, "CaseRecord") = {<<"CaseRecord", d.scope.case, d.case>>}
      /\ EntriesOf(d, "Party") = {<<"Party", d.scope.case, d.parties>>}
      /\ EntriesOf(d, "Authority") = {<<"Authority", d.scope.selection, d.records.authority>>}
  BY <1>1, <1>2, <1>3, <1>4, <1>5 DEF EntriesOf
<1>7. /\ EntriesOf(d, "ReportedItem") = itemEntries
      /\ EntriesOf(d, "CaseWork") = workEntries
      /\ EntriesOf(d, "UseMapping") = mappingEntries
      /\ EntriesOf(d, "CaseFact") = factEntries
  BY <1>1, <1>2, <1>3 DEF EntriesOf
<1>8. /\ EntriesOf(d, "CorrespondenceBinding") = bindingEntries
      /\ EntriesOf(d, "CaseSource") = linkEntries
      /\ EntriesOf(d, "SourceReference") = sourceEntries
  BY <1>1, <1>2, <1>3 DEF EntriesOf
<1> QED
  BY <1>6, <1>7, <1>8 DEF itemEntries, workEntries, mappingEntries, factEntries, bindingEntries,
                          linkEntries, sourceEntries

LEMMA SameTables ==
  ASSUME NEW type, NEW f, NEW g, Table(f), Table(g), Entries(type, f) = Entries(type, g)
  PROVE  f = g
<1>1. ASSUME NEW i \in DOMAIN f PROVE i \in DOMAIN g /\ f[i] = g[i]
  <2>1. <<type, i, f[i]>> \in Entries(type, g)
    BY EntriesAre
  <2> QED
    BY <2>1 DEF Entries
<1>2. ASSUME NEW i \in DOMAIN g PROVE i \in DOMAIN f
  <2>1. <<type, i, g[i]>> \in Entries(type, f)
    BY EntriesAre
  <2> QED
    BY <2>1 DEF Entries
<1>3. DOMAIN f = DOMAIN g
  BY <1>1, <1>2
<1>4. [i \in DOMAIN f |-> f[i]] = [i \in DOMAIN g |-> g[i]]
  BY <1>1, <1>3
<1> QED
  BY <1>4 DEF Table

(* Digests that have the same dependencies are the same.                   *)
LEMMA SameDigest ==
  ASSUME NEW d, NEW e, Shaped(d), Shaped(e), d.scope = e.scope, dependenciesOf(d) = dependenciesOf(e)
  PROVE  d = e
<1>1. \A kind : EntriesOf(d, kind) = EntriesOf(e, kind)
  BY DEF EntriesOf
<1>2. /\ {<<"CaseRecord", d.scope.case, d.case>>} = {<<"CaseRecord", e.scope.case, e.case>>}
      /\ {<<"Party", d.scope.case, d.parties>>} = {<<"Party", e.scope.case, e.parties>>}
      /\ {<<"Authority", d.scope.selection, d.records.authority>>}
           = {<<"Authority", e.scope.selection, e.records.authority>>}
  BY <1>1, DependencyKinds
<1>3. d.case = e.case /\ d.parties = e.parties /\ d.records.authority = e.records.authority
  <2>1. /\ <<"CaseRecord", d.scope.case, d.case>> = <<"CaseRecord", e.scope.case, e.case>>
        /\ <<"Party", d.scope.case, d.parties>> = <<"Party", e.scope.case, e.parties>>
        /\ <<"Authority", d.scope.selection, d.records.authority>>
             = <<"Authority", e.scope.selection, e.records.authority>>
    BY <1>2, Zenon
  <2>2. \A a, b, c, x, y, z : <<a, b, c>> = <<x, y, z>> => c = z
    OBVIOUS
  <2> QED
    BY <2>1, <2>2
<1>4. /\ Entries("ReportedItem", d.records.items) = Entries("ReportedItem", e.records.items)
      /\ Entries("CaseWork", d.records.works) = Entries("CaseWork", e.records.works)
      /\ Entries("UseMapping", d.records.mappings) = Entries("UseMapping", e.records.mappings)
      /\ Entries("CaseFact", d.records.facts) = Entries("CaseFact", e.records.facts)
      /\ Entries("CorrespondenceBinding", d.records.bindings)
           = Entries("CorrespondenceBinding", e.records.bindings)
      /\ Entries("CaseSource", d.links) = Entries("CaseSource", e.links)
      /\ Entries("SourceReference", d.sources) = Entries("SourceReference", e.sources)
  BY <1>1, DependencyKinds
<1>5. /\ d.records.items = e.records.items /\ d.records.works = e.records.works
      /\ d.records.mappings = e.records.mappings /\ d.records.facts = e.records.facts
  BY <1>4, SameTables DEF Shaped
<1>6. d.records.bindings = e.records.bindings /\ d.links = e.links /\ d.sources = e.sources
  BY <1>4, SameTables DEF Shaped
<1>7. d.records = e.records
  BY <1>3, <1>5, <1>6, Zenon DEF Shaped
<1> QED
  BY <1>3, <1>6, <1>7, Zenon DEF Shaped

LEMMA IdentityIs ==
  ASSUME NEW d, NEW s
  PROVE  <<"SourceReference", s>> \in Identity(dependenciesOf(d)) <=> s \in DOMAIN d.sources
<1>1. EntriesOf(d, "SourceReference") = Entries("SourceReference", d.sources)
  BY DependencyKinds
<1>2. ASSUME s \in DOMAIN d.sources PROVE <<"SourceReference", s>> \in Identity(dependenciesOf(d))
  <2>1. <<"SourceReference", s, d.sources[s]>> \in dependenciesOf(d)
    BY <1>1, <1>2, EntriesAre DEF EntriesOf
  <2> QED
    BY <2>1 DEF Identity
<1>3. ASSUME <<"SourceReference", s>> \in Identity(dependenciesOf(d)) PROVE s \in DOMAIN d.sources
  <2>1. PICK e \in dependenciesOf(d) : <<e[1], e[2]>> = <<"SourceReference", s>>
    BY <1>3 DEF Identity
  <2>2. e \in Entries("SourceReference", d.sources) /\ e[2] = s
    BY <1>1, <2>1 DEF EntriesOf
  <2> QED
    BY <2>2, EntriesAre
<1> QED
  BY <1>2, <1>3

(* What a validation reads is told by the digest and the plan's sources.   *)
LEMMA EvaluatedTold ==
  ASSUME Typed, NEW scope, scope.case \in DOMAIN cases
  PROVE  Evaluated(scope) = EvaluatedIn(scope, dependencyDigest(scope))
<1> DEFINE d == dependencyDigest(scope)
<1>1. \A b \in Named(scope) : d.records.bindings[b] = bindings[b]
  BY DigestParts
<1>2. missing(scope) = MissingIn(scope, d) /\ conflicts(scope) = ConflictsIn(scope, d)
  BY MissingTold, ConflictsTold
<1> DEFINE parentNow == IF scope.parent = None THEN None ELSE Message[bindings[scope.parent].message]
           parentRead == IF scope.parent = None THEN None
                         ELSE Message[d.records.bindings[scope.parent].message]
           priorsNow == {Message[bindings[b].message] : b \in scope.priors}
           priorsRead == {Message[d.records.bindings[b].message] : b \in scope.priors}
<1> HIDE DEF d
<1>3. parentNow = parentRead
  BY <1>1 DEF Named
<1>4. priorsNow = priorsRead
  BY <1>1 DEF Named
<1> HIDE DEF parentNow, parentRead, priorsNow, priorsRead
<1>5. Evaluated(scope) = EvaluatedIn(scope, d)
  BY <1>2, <1>3, <1>4 DEF Evaluated, EvaluatedIn, d, parentNow, parentRead, priorsNow, priorsRead
<1> QED
  BY <1>5 DEF d

LEMMA InputTold ==
  ASSUME Typed, NEW k, ScopeOf(k).case \in DOMAIN cases
  PROVE  ValidationInput(k) = InputIn(k, dependencyDigest(ScopeOf(k)), PlanSources(k))
<1>1. Evaluated(ScopeOf(k)) = EvaluatedIn(ScopeOf(k), dependencyDigest(ScopeOf(k)))
  BY EvaluatedTold
<1> QED
  BY <1>1 DEF ValidationInput, InputIn

LEMMA DigestShaped ==
  ASSUME NEW scope
  PROVE  Shaped(dependencyDigest(scope)) /\ dependencyDigest(scope).scope = scope
<1> DEFINE d == dependencyDigest(scope)
           r == Records(scope)
<1>1. /\ d = [scope |-> d.scope, case |-> d.case, parties |-> d.parties, records |-> d.records,
              links |-> d.links, sources |-> d.sources]
      /\ d.scope = scope /\ d.records = r /\ d.links = Content(links, ContextLinks(scope.case))
      /\ d.sources = SourceFingerprints(scope)
  BY DEF dependencyDigest
<1>2. /\ r = [items |-> r.items, works |-> r.works, mappings |-> r.mappings, facts |-> r.facts,
              bindings |-> r.bindings, authority |-> r.authority]
      /\ r.items = Content(items, ContextItems(scope)) /\ r.works = Content(works, ContextWorks(scope.case))
      /\ r.mappings = Content(mappings, ContextMappings(scope.case))
      /\ r.facts = Content(facts, Current(facts, scope.case))
      /\ r.bindings = Content(bindings, Named(scope))
  BY DEF Records
<1>3. \A table, S : Table(Content(table, S))
  BY DEF Table, Content
<1>4. Table(SourceFingerprints(scope))
  BY DEF Table, SourceFingerprints
<1> HIDE DEF d, r
<1>5. Table(r.items) /\ Table(r.works) /\ Table(r.mappings) /\ Table(r.facts) /\ Table(r.bindings)
  BY <1>2, <1>3
<1>6. Table(d.links) /\ Table(d.sources)
  BY <1>1, <1>3, <1>4
<1>7. Shaped(d) /\ d.scope = scope
  BY <1>1, <1>2, <1>5, <1>6, Zenon DEF Shaped
<1> QED
  BY <1>7 DEF d

----------------------------------------------------------------------------
(* What a step leaves of the prompts and selections                        *)

LEMMA SameExtends ==
  ASSUME NEW table
  PROVE  Extends(table, table)
  BY DEF Extends

LEMMA AppendExtends ==
  ASSUME NEW old, old \in Seq(RowSet(old)), NEW row, NEW new, new = Append(old, row)
  PROVE  Extends(old, new)
<1> DEFINE T == RowSet(old) \union {row}
<1>1. old \in Seq(T) /\ row \in T
  BY SeqMonotonic
<1> HIDE DEF T
<1>2. \A i \in Rows(old) : new[i] = old[i]
  BY <1>1, AppendProperties DEF Rows
<1>3. Rows(new) = Rows(old) \union {Len(old) + 1}
  BY AppendAny
<1> QED
  BY <1>2, <1>3 DEF Extends

LEMMA TouchExtends ==
  ASSUME NEW c, Touch(c)
  PROVE  Extends(selections, selections') /\ prompts' = prompts
  BY DEF Touch, Grows, Extends

LEMMA IntakeExtends ==
  ASSUME IInv, IntakeSteps
  PROVE  Extends(selections, selections') /\ prompts' = prompts
<1>1. Typed /\ outside \in OutsideRows
  BY DEF IInv
<1>2. ASSUME UNCHANGED tables PROVE Extends(selections, selections') /\ prompts' = prompts
  BY <1>2, SameExtends DEF tables
<1>3. ASSUME NEW c, CaseSteps(c) PROVE Extends(selections, selections') /\ prompts' = prompts
  <2>1. CASE \/ \E hint \in OneOf(Owners), packet \in OneOf(Sources) : PatchCase(c, hint, packet)
             \/ DeleteCase(c) \/ ArchiveCase(c) \/ RestoreCase(c)
             \/ \E state \in Workflows : SetWorkflow(c, state)
             \/ \E rt \in Routes : BindRoute(c, rt)
             \/ \E code \in Codes, s \in Sources : BindCanonical(c, code, s)
    BY <1>2, <2>1 DEF PatchCase, DeleteCase, ArchiveCase, RestoreCase, SetWorkflow, BindRoute, BindCanonical
  <2>2. ASSUME NEW basis \in OneOf(Sources), SelectAuthority(c, basis)
        PROVE  Extends(selections, selections') /\ prompts' = prompts
    BY <1>1, <2>2, SelectAuthorityTouches, TouchExtends
  <2>3. ASSUME NEW s \in Sources, NEW role \in Roles, LinkSource(c, s, role)
        PROVE  Extends(selections, selections') /\ prompts' = prompts
    BY <1>1, <2>3, LinkSourceTouches, TouchExtends
  <2>4. ASSUME NEW title \in Texts, CreateWork(c, title)
        PROVE  Extends(selections, selections') /\ prompts' = prompts
    BY <1>1, <2>4, CreateWorkTouches, TouchExtends
  <2>5. ASSUME NEW video \in Videos, NEW title \in Texts, CreateItem(c, video, title)
        PROVE  Extends(selections, selections') /\ prompts' = prompts
    BY <1>1, <2>5, CreateItemTouches, TouchExtends
  <2>6. ASSUME NEW w \in Rows(works), NEW i \in Rows(items), NEW o \in Occurrences, NEW p \in Provenances,
               NEW basis \in OneOf(Sources), CreateMapping(c, w, i, o, p, basis)
        PROVE  Extends(selections, selections') /\ prompts' = prompts
    BY <1>1, <2>6, CreateMappingTouches, TouchExtends
  <2>7. ASSUME NEW head \in OneOf(Rows(facts)), NEW scope \in Scopes(c), NEW p \in Provenances,
               NEW supports \in SUBSET Rows(links), RecordFact(c, head, scope, p, supports)
        PROVE  Extends(selections, selections') /\ prompts' = prompts
    BY <1>1, <2>7, RecordFactTouches, TouchExtends
  <2>8. ASSUME NEW m \in outside.captured, NEW item \in OneOf(Rows(items)),
               NEW event \in {"NMI", "AS_SENT", "OUTCOME"}, NEW earlier \in OneOf(Rows(bindings)),
               BindCorrespondence(c, m, item, event, earlier)
        PROVE  Extends(selections, selections') /\ prompts' = prompts
    BY <1>1, <2>8, BindCorrespondenceTouches, TouchExtends
  <2> QED
    BY <1>3, <2>1, <2>2, <2>3, <2>4, <2>5, <2>6, <2>7, <2>8 DEF CaseSteps
<1>4. ASSUME RowSteps PROVE Extends(selections, selections') /\ prompts' = prompts
  BY <1>1, <1>4, TouchExtends, SetLinkStateTouches, PatchWorkTouches, SetWorkArchivedTouches,
     PatchItemTouches, SetItemArchivedTouches, PatchMappingTouches, ArchiveMappingTouches,
     RestoreMappingTouches DEF RowSteps
<1>5. ASSUME OutsideSteps PROVE Extends(selections, selections') /\ prompts' = prompts
  BY <1>2, <1>5 DEF OutsideSteps, CaptureCorrespondence, SetPartyArchived, SetRouteState, CiteForOwner,
                    CeaseCiting, ReviseSource, MoveAuthority, Elsewhere
<1>6. ASSUME NEW c, NEW rt, NEW hint, CreateCase(c, rt, hint)
      PROVE  Extends(selections, selections') /\ prompts' = prompts
  BY <1>2, <1>6 DEF CreateCase
<1> QED
  BY <1>3, <1>4, <1>5, <1>6 DEF IntakeSteps

\* A step that adds prompts, candidates and selections, and changes none.
Later ==
  /\ Extends(prompts, prompts') /\ Extends(candidates, candidates') /\ Extends(selections, selections')

(* What a digest says of the data of a scope does not change.              *)
LEMMA DataStays ==
  ASSUME Extends(selections, selections'), NEW scope, scope.selection \in OneOf(Rows(selections))
  PROVE  \A digest :
           /\ ConflictsIn(scope, digest)' = ConflictsIn(scope, digest)
           /\ \A revision : DataIn(scope, revision, digest)' = DataIn(scope, revision, digest)
<1>1. SelectionCitations(scope)' = SelectionCitations(scope)
  <2>1. \A i \in {scope.selection} \ {None} : selections'[i] = selections[i]
    BY DEF Extends, OneOf
  <2> QED
    BY <2>1 DEF SelectionCitations
<1>2. \A digest : ConflictsIn(scope, digest)' = ConflictsIn(scope, digest)
  BY <1>1 DEF ConflictsIn
<1>3. \A digest : \A revision : DataIn(scope, revision, digest)' = DataIn(scope, revision, digest)
  BY <1>2 DEF DataIn
<1> QED
  BY <1>2, <1>3

LEMMA EvaluatedStays ==
  ASSUME Extends(selections, selections'), NEW scope, scope.selection \in OneOf(Rows(selections)),
         NEW digest
  PROVE  EvaluatedIn(scope, digest)' = EvaluatedIn(scope, digest)
<1> DEFINE mailbox == IF scope.selection = None THEN None ELSE Mailbox[selections[scope.selection].route]
           signer == IF scope.selection = None THEN None ELSE Signer[selections[scope.selection].route]
<1>1. ConflictsIn(scope, digest)' = ConflictsIn(scope, digest)
  BY DataStays
<1>2. mailbox' = mailbox /\ signer' = signer
  BY DEF Extends, OneOf
<1>3. MissingIn(scope, digest)' = MissingIn(scope, digest)
      /\ dependenciesOf(digest)' = dependenciesOf(digest)
  BY DEF MissingIn, dependenciesOf
<1>4. EvaluatedIn(scope, digest) =
        [dependencies |-> dependenciesOf(digest),
         missing |-> MissingIn(scope, digest), conflicts |-> ConflictsIn(scope, digest),
         mailbox |-> mailbox, signer |-> signer,
         parentMessage |-> IF scope.parent = None THEN None
                           ELSE Message[digest.records.bindings[scope.parent].message],
         priorMessages |-> {Message[digest.records.bindings[b].message] : b \in scope.priors}]
  BY DEF EvaluatedIn
<1>5. EvaluatedIn(scope, digest)' =
        [dependencies |-> dependenciesOf(digest)',
         missing |-> MissingIn(scope, digest)', conflicts |-> ConflictsIn(scope, digest)',
         mailbox |-> mailbox', signer |-> signer',
         parentMessage |-> IF scope.parent = None THEN None
                           ELSE Message[digest.records.bindings[scope.parent].message],
         priorMessages |-> {Message[digest.records.bindings[b].message] : b \in scope.priors}]
  BY DEF EvaluatedIn
<1> HIDE DEF mailbox, signer
<1> QED
  BY <1>1, <1>2, <1>3, <1>4, <1>5

LEMMA PromptStays ==
  ASSUME Extends(selections, selections'), NEW row, PromptHolds(row)
  PROVE  PromptHolds(row)'
<1> DEFINE scope == row.data.scope
<1>1. /\ scope.case = row.case /\ scope.task = row.task /\ scope = validationScope(row)
      /\ scope.selection \in OneOf(Rows(selections))
      /\ scope.parent # None => scope.task = "NMI_REPLY"
      /\ row.data = DataIn(scope, row.digest.case.revision, row.digest)
      /\ row.digest.scope = scope /\ Shaped(row.digest)
  BY DEF PromptHolds
<1>2. DataIn(scope, row.digest.case.revision, row.digest)' = DataIn(scope, row.digest.case.revision, row.digest)
  BY <1>1, DataStays
<1>3. scope.selection \in OneOf(Rows(selections'))
  BY <1>1 DEF Extends, OneOf
<1> QED
  BY <1>1, <1>2, <1>3 DEF PromptHolds

LEMMA ScopeStays ==
  ASSUME VInv, Later, NEW k \in Rows(candidates)
  PROVE  /\ candidates'[k] = candidates[k] /\ candidates[k].prompt \in Rows(prompts)
         /\ prompts'[candidates[k].prompt] = prompts[candidates[k].prompt]
         /\ ScopeOf(k)' = ScopeOf(k) /\ ScopeOf(k) = prompts[candidates[k].prompt].data.scope
         /\ ScopeOf(k).selection \in OneOf(Rows(selections))
<1> DEFINE p == candidates[k].prompt
<1>1. p \in Rows(prompts) /\ candidates'[k] = candidates[k]
  BY DEF VInv, CandidateHolds, Later, Extends
<1>2. prompts'[p] = prompts[p] /\ PromptHolds(prompts[p])
  BY <1>1 DEF VInv, Later, Extends
<1>3. ScopeOf(k)' = ScopeOf(k)
  BY <1>1, <1>2 DEF ScopeOf, validationScope, dependenciesOf
<1> QED
  BY <1>1, <1>2, <1>3 DEF ScopeOf, PromptHolds

LEMMA InputStays ==
  ASSUME VInv, Later, NEW k \in Rows(candidates), NEW digest, NEW plan
  PROVE  InputIn(k, digest, plan)' = InputIn(k, digest, plan)
<1> DEFINE scope == ScopeOf(k)
           p == candidates[k].prompt
<1>1. /\ candidates'[k] = candidates[k] /\ prompts'[p] = prompts[p] /\ scope' = scope
      /\ scope.selection \in OneOf(Rows(selections))
  BY ScopeStays
<1>2. Extends(selections, selections')
  BY DEF Later
<1>3. EvaluatedIn(scope, digest)' = EvaluatedIn(scope, digest)
  BY <1>1, <1>2, EvaluatedStays
<1> QED
  BY <1>1, <1>3 DEF InputIn

LEMMA RunStays ==
  ASSUME VInv, Later, NEW run, RunHolds(run)
  PROVE  RunHolds(run)'
<1> DEFINE k == run.candidate
<1>1. k \in Rows(candidates) /\ candidates'[k] = candidates[k] /\ k \in Rows(candidates')
  BY ScopeStays DEF RunHolds, Later, Extends
<1>2. InputIn(k, run.digest, run.plan)' = InputIn(k, run.digest, run.plan)
  BY <1>1, InputStays
<1> QED
  BY <1>1, <1>2 DEF RunHolds, ProblemIn

----------------------------------------------------------------------------
(* The steps of prompts, candidates and runs                               *)

LEMMA BoundIs ==
  ASSUME NEW digest
  PROVE  {d[2] : d \in {e \in dependenciesOf(digest) : e[1] = "CorrespondenceBinding"}}
           = DOMAIN digest.records.bindings
<1>1. {e \in dependenciesOf(digest) : e[1] = "CorrespondenceBinding"}
        = Entries("CorrespondenceBinding", digest.records.bindings)
  BY DependencyKinds DEF EntriesOf
<1>2. {d[2] : d \in Entries("CorrespondenceBinding", digest.records.bindings)}
        = DOMAIN digest.records.bindings
  <2> DEFINE content == digest.records.bindings
             entries == Entries("CorrespondenceBinding", content)
  <2> HIDE DEF content
  <2>1. \A d \in entries : d[2] \in DOMAIN content
    BY EntriesAre
  <2>2. \A i \in DOMAIN content : \E d \in entries : d[2] = i
    <3> TAKE i \in DOMAIN content
    <3>1. <<"CorrespondenceBinding", i, content[i]>> \in entries
      BY EntriesAre
    <3>2. <<"CorrespondenceBinding", i, content[i]>>[2] = i
      OBVIOUS
    <3> QED
      BY <3>1, <3>2
  <2> HIDE DEF entries
  <2>3. {d[2] : d \in entries} = DOMAIN content
    BY <2>1, <2>2
  <2> QED
    BY <2>3 DEF entries, content
<1> QED
  BY <1>1, <1>2

\* The bindings a scope names are all its prompt's digest covers.
LEMMA ScopeIsKept ==
  ASSUME Typed, NEW scope, contextScope(scope),
         scope = [case |-> scope.case, task |-> scope.task, mode |-> scope.mode,
                  selection |-> scope.selection, parent |-> scope.parent, priors |-> scope.priors],
         NEW row, row.case = scope.case, row.task = scope.task, row.data.scope = scope,
         row.digest = dependencyDigest(scope)
  PROVE  validationScope(row) = scope
<1> DEFINE bound == {d[2] : d \in {e \in dependenciesOf(row.digest) : e[1] = "CorrespondenceBinding"}}
<1>1. bound = DOMAIN row.digest.records.bindings
  BY BoundIs
<1>2. DOMAIN row.digest.records.bindings = Named(scope)
  BY DEF dependencyDigest, Records, Content
<1>3. Named(scope) \subseteq Current(bindings, scope.case) /\ None \notin Current(bindings, scope.case)
  <2>1. bindings \in Seq(BindingRows)
    BY DEF Typed
  <2>2. \A b \in Current(bindings, scope.case) : b \in Nat
    BY <2>1, RowOf DEF Current, RowsOf
  <2> QED
    BY <2>2, RecordsAssumption DEF contextScope
<1>4. scope.parent \notin scope.priors
  BY <1>3 DEF contextScope, Named
<1>5. bound \ {scope.parent} = scope.priors
  BY <1>1, <1>2, <1>3, <1>4 DEF Named
<1> HIDE DEF bound
<1>6. validationScope(row) =
        [case |-> row.case, task |-> row.task, mode |-> scope.mode, selection |-> scope.selection,
         parent |-> scope.parent, priors |-> bound \ {scope.parent}]
  BY DEF validationScope, bound
<1> QED
  BY <1>5, <1>6

LEMMA NewPromptHolds ==
  ASSUME IInv, ReviewShaped, GeneratePrompt
  PROVE  \E row : prompts' = Append(prompts, row) /\ PromptHolds(row)
<1> DEFINE scope == review.scope
           c == scope.case
           row == [case |-> c, task |-> scope.task, version |-> NextVersion(c, scope.task),
                   digest |-> review.digest, data |-> promptCaseData(scope), reviewed |-> review.data]
<1>1. /\ review # None /\ c \in DOMAIN cases /\ contextScope(scope)
      /\ dependencyDigest(scope) = review.digest /\ prompts' = Append(prompts, row)
  BY DEF GeneratePrompt
<1>2. /\ scope = [case |-> scope.case, task |-> scope.task, mode |-> scope.mode,
                  selection |-> scope.selection, parent |-> scope.parent, priors |-> scope.priors]
      /\ scope.task \in {"INITIAL", "NMI_REPLY"}
  BY <1>1 DEF ReviewShaped
<1>3. /\ row.case = c /\ row.task = scope.task /\ row.digest = dependencyDigest(scope)
      /\ row.data = promptCaseData(scope) /\ row.data.scope = scope
  BY <1>1 DEF promptCaseData
<1>4. row.digest.case.revision = cases[c].revision
  <2>1. cases[c] \in CaseRows
    BY <1>1 DEF IInv, Typed
  <2>2. row.digest.case = [cases[c] EXCEPT !.workflow = None, !.version = None]
    BY <1>3 DEF dependencyDigest
  <2> HIDE DEF row, c
  <2> QED
    BY <2>1, <2>2 DEF CaseRows
<1> HIDE DEF row
<1>5. row.data = DataIn(scope, row.digest.case.revision, row.digest)
  BY <1>1, <1>3, <1>4, DataTold DEF IInv
<1>6. Shaped(row.digest) /\ row.digest.scope = scope
  BY <1>3, DigestShaped
<1>7. scope.selection \in OneOf(Rows(selections))
  BY <1>1 DEF contextScope, OneOf, RowsOf
<1>8. scope.parent # None => scope.task = "NMI_REPLY"
  BY <1>1, <1>2 DEF contextScope, Named
<1>9. validationScope(row) = scope
  <2>1. Typed
    BY DEF IInv
  <2> QED
    BY <1>1, <1>2, <1>3, <2>1, ScopeIsKept
<1>10. PromptHolds(row)
  BY <1>3, <1>5, <1>6, <1>7, <1>8, <1>9 DEF PromptHolds
<1> QED
  BY <1>1, <1>10

(* Prompts and their reviews, after any step on the contexts.              *)
LEMMA ContextSteps ==
  ASSUME IInv, VInv, [Next]_contextVars
  PROVE  /\ ReviewShaped' /\ Extends(selections, selections') /\ Extends(prompts, prompts')
         /\ (\A p \in Rows(prompts) : PromptHolds(prompts[p]))'
<1>1. prompts \in Seq(RowSet(prompts)) /\ \A p \in Rows(prompts) : PromptHolds(prompts[p])
  BY DEF IInv, PromptsTyped, VInv
<1>2. ASSUME Extends(selections, selections'), prompts' = prompts
      PROVE  Extends(prompts, prompts') /\ (\A p \in Rows(prompts) : PromptHolds(prompts[p]))'
  BY <1>1, <1>2, PromptStays, SameExtends
<1>3. CASE IntakeSteps /\ UNCHANGED review
  BY <1>2, <1>3, IntakeExtends DEF VInv, ReviewShaped
<1>4. CASE UNCHANGED contextVars
  BY <1>2, <1>4, SameExtends DEF contextVars, vars, tables, VInv, ReviewShaped
<1>5. ASSUME NEW c, NEW scope \in ContextScopes(c), ReadContext(scope)
      PROVE  ReviewShaped' /\ Extends(selections, selections') /\ prompts' = prompts
  <2>1. scope = [case |-> scope.case, task |-> scope.task, mode |-> scope.mode,
                 selection |-> scope.selection, parent |-> scope.parent, priors |-> scope.priors]
        /\ scope.task \in {"INITIAL", "NMI_REPLY"}
    BY DEF ContextScopes
  <2>2. review'.scope = scope
    BY <1>5 DEF ReadContext
  <2> QED
    BY <1>5, <2>1, <2>2, SameExtends DEF ReviewShaped, ReadContext, vars, tables
<1>6. CASE GeneratePrompt
  <2>1. review' = None /\ selections' = selections
    BY <1>6 DEF GeneratePrompt
  <2>2. PICK row : prompts' = Append(prompts, row) /\ PromptHolds(row)
    BY <1>6, NewPromptHolds DEF VInv
  <2>3. Extends(prompts, prompts') /\ Extends(selections, selections')
    BY <1>1, <2>1, <2>2, AppendExtends, SameExtends
  <2>4. Rows(prompts') = Rows(prompts) \union {Len(prompts) + 1} /\ prompts'[Len(prompts) + 1] = row
    BY <1>1, <2>2, AppendAny
  <2>5. ASSUME NEW p \in Rows(prompts') PROVE PromptHolds(prompts[p])'
    <3>1. PICK new : new = prompts'[p]
      OBVIOUS
    <3>2. PromptHolds(new)
      BY <1>1, <2>2, <2>3, <2>4, <3>1 DEF Extends
    <3>3. PromptHolds(new)'
      BY <2>3, <3>2, PromptStays
    <3> QED
      BY <3>1, <3>3
  <2> QED
    BY <2>1, <2>3, <2>5 DEF ReviewShaped
<1> QED
  BY <1>2, <1>3, <1>4, <1>5, <1>6 DEF Next

LEMMA CandidateScope ==
  ASSUME VInv, NEW k \in Rows(candidates)
  PROVE  LET p == candidates[k].prompt
         IN /\ p \in Rows(prompts) /\ PromptHolds(prompts[p])
            /\ ScopeOf(k) = prompts[p].data.scope
            /\ ScopeOf(k).case = candidates[k].case /\ ScopeOf(k).task = candidates[k].task
            /\ prompts[p].case = candidates[k].case /\ prompts[p].task = candidates[k].task
<1> DEFINE p == candidates[k].prompt
<1>1. /\ p \in Rows(prompts) /\ candidates[k].case = prompts[p].case
      /\ candidates[k].task = prompts[p].task
  BY DEF VInv, CandidateHolds
<1>2. PromptHolds(prompts[p])
  BY <1>1 DEF VInv
<1> QED
  BY <1>1, <1>2 DEF PromptHolds, ScopeOf

\* A step on the contexts or one that adds candidates alone keeps what was there.
LEMMA StepsKeep ==
  ASSUME IInv, VInv, [Next]_contextVars, Extends(candidates, candidates')
  PROVE  /\ ReviewShaped' /\ (\A p \in Rows(prompts) : PromptHolds(prompts[p]))'
         /\ \A row : CandidateHolds(row) => CandidateHolds(row)'
         /\ \A run : RunHolds(run) => RunHolds(run)'
<1>1. /\ ReviewShaped' /\ Later /\ (\A p \in Rows(prompts) : PromptHolds(prompts[p]))'
  BY ContextSteps DEF Later
<1>2. ASSUME NEW row, CandidateHolds(row) PROVE CandidateHolds(row)'
  BY <1>1, <1>2 DEF CandidateHolds, Later, Extends
<1>3. ASSUME NEW run, RunHolds(run) PROVE RunHolds(run)'
  BY <1>1, <1>3, RunStays
<1> QED
  BY <1>1, <1>2, <1>3

LEMMA CapturedHolds ==
  ASSUME IInv, VInv, NEW k \in Rows(candidates), NEW failed, CaptureCandidate(k, failed)
  PROVE  RunHolds(captured')
<1> DEFINE scope == ScopeOf(k)
           c == candidates[k].case
           digest == dependencyDigest(scope)
           plan == PlanSources(k)
           run == [candidate |-> k, failed |-> failed, digest |-> digest, plan |-> plan,
                   evaluation |-> evaluateCandidate(ValidationInput(k), failed)]
<1>1. captured' = run /\ c \in DOMAIN cases
  BY DEF CaptureCandidate, Capturable, Writable, lockCase
<1>2. Typed /\ scope.case = c
  BY CandidateScope DEF IInv
<1>3. ValidationInput(k) = InputIn(k, digest, plan)
  BY <1>1, <1>2, InputTold
<1>4. /\ run.candidate = k /\ run.failed = failed /\ run.digest = digest /\ run.plan = plan
      /\ run.evaluation = evaluateCandidate(InputIn(k, digest, plan), failed)
  BY <1>3
<1>5. Table(plan) /\ DOMAIN plan = {e.source : e \in candidates[k].draft.plan}
  BY DEF PlanSources, Table
<1>6. \A s \in DOMAIN plan :
        plan[s] = [exists |-> s \in Sources, problem |-> Problem(s, c),
                   latest |-> s \notin outside.superseded, hash |-> Hash[s]]
  BY DEF PlanSources
<1>7. \A s \in DOMAIN plan :
        /\ plan[s].problem = Problem(s, c) /\ plan[s].latest = (s \notin outside.superseded)
        /\ plan[s] = [exists |-> s \in Sources, problem |-> plan[s].problem,
                      latest |-> plan[s].latest, hash |-> Hash[s]]
  BY <1>6
<1>8. \A s \in DOMAIN digest.sources :
        ProblemIn(s, c, digest) = Problem(s, c) /\ digest.sources[s].superseded = (s \in outside.superseded)
  <2>1. digest.sources = SourceFingerprints(scope)
    BY DEF dependencyDigest
  <2>2. DOMAIN digest.sources = ContextSources(scope)
    BY <2>1 DEF SourceFingerprints
  <2>3. \A s \in ContextSources(scope) : digest.sources[s].superseded = (s \in outside.superseded)
    BY <2>1 DEF SourceFingerprints
  <2>4. \A s \in ContextSources(scope) : ProblemIn(s, c, digest) = Problem(s, c)
    BY <1>1, <1>2, ProblemTold
  <2> QED
    BY <2>2, <2>3, <2>4
<1> HIDE DEF run, digest, plan
<1>9. \A s \in DOMAIN plan :
        s \in DOMAIN digest.sources =>
          plan[s].problem = ProblemIn(s, c, digest) /\ plan[s].latest = ~digest.sources[s].superseded
  BY <1>7, <1>8
<1>10. RunHolds(run)
  BY <1>4, <1>5, <1>7, <1>9 DEF RunHolds
<1> QED
  BY <1>1, <1>10

LEMMA ValidationStepKeeps ==
  ASSUME IInv, VInv, [ValidationNext]_allVars
  PROVE  VInv'
<1> DEFINE kept == /\ ReviewShaped' /\ (\A p \in Rows(prompts) : PromptHolds(prompts[p]))'
                   /\ \A row : CandidateHolds(row) => CandidateHolds(row)'
                   /\ \A run : RunHolds(run) => RunHolds(run)'
<1>1. /\ candidates \in Seq(RowSet(candidates)) /\ runs \in Seq(RowSet(runs))
      /\ \A k \in Rows(candidates) : CandidateHolds(candidates[k])
      /\ captured # None => RunHolds(captured)
      /\ \A r \in Rows(runs) : RunHolds(runs[r])
  BY DEF VInv
<1>2. CASE (Next /\ UNCHANGED validationVars) \/ UNCHANGED allVars
  <2>1. [Next]_contextVars /\ UNCHANGED <<candidates, captured, runs>>
    BY <1>2 DEF allVars, validationVars
  <2>2. kept
    BY <2>1, StepsKeep, SameExtends
  <2> HIDE DEF kept
  <2>3. (\A k \in Rows(candidates) : CandidateHolds(candidates[k]))'
    BY <1>1, <2>1, <2>2 DEF kept
  <2>4. (captured # None => RunHolds(captured))' /\ (\A r \in Rows(runs) : RunHolds(runs[r]))'
    BY <1>1, <2>1, <2>2 DEF kept
  <2> QED
    BY <1>1, <2>1, <2>2, <2>3, <2>4 DEF VInv, kept
<1>3. CASE UNCHANGED <<contextVars, candidates>> /\ (RecordRun \/ DropCapture
            \/ \E k \in Rows(candidates), failed \in Failing : CaptureCandidate(k, failed))
  <2>1. UNCHANGED contextVars /\ candidates' = candidates
    BY <1>3
  <2>2. kept
    BY <2>1, StepsKeep, SameExtends
  <2> HIDE DEF kept
  <2>3. (\A k \in Rows(candidates) : CandidateHolds(candidates[k]))' /\ candidates' \in Seq(RowSet(candidates'))
    BY <1>1, <2>1, <2>2 DEF kept
  <2>4. SUFFICES /\ (captured # None => RunHolds(captured))' /\ runs' \in Seq(RowSet(runs'))
                 /\ (\A r \in Rows(runs) : RunHolds(runs[r]))'
    BY <2>2, <2>3 DEF VInv, kept
  <2>5. CASE RecordRun
    <3>1. captured' = None /\ runs' = Append(runs, captured) /\ RunHolds(captured)
      BY <1>1, <2>5 DEF RecordRun
    <3>2. /\ runs' \in Seq(RowSet(runs')) /\ Rows(runs') = Rows(runs) \union {Len(runs) + 1}
          /\ runs'[Len(runs) + 1] = captured
      BY <1>1, <3>1, AppendAny
    <3>3. Extends(runs, runs')
      BY <1>1, <3>1, AppendExtends
    <3>4. ASSUME NEW r \in Rows(runs') PROVE RunHolds(runs[r])'
      <4>1. PICK run : run = runs'[r]
        OBVIOUS
      <4>2. RunHolds(run)
        BY <1>1, <3>1, <3>2, <3>3, <4>1 DEF Extends
      <4>3. RunHolds(run)'
        BY <2>2, <4>2 DEF kept
      <4> QED
        BY <4>1, <4>3
    <3> QED
      BY <3>1, <3>2, <3>4
  <2>6. CASE DropCapture
    <3>1. captured' = None /\ runs' = runs
      BY <2>6 DEF DropCapture
    <3> QED
      BY <1>1, <2>2, <3>1 DEF kept
  <2>7. ASSUME NEW k \in Rows(candidates), NEW failed, CaptureCandidate(k, failed)
        PROVE  /\ (captured # None => RunHolds(captured))' /\ runs' \in Seq(RowSet(runs'))
               /\ (\A r \in Rows(runs) : RunHolds(runs[r]))'
    <3>1. runs' = runs
      BY <2>7 DEF CaptureCandidate
    <3>2. PICK run : run = captured'
      OBVIOUS
    <3>3. RunHolds(run)
      BY <2>7, <3>2, CapturedHolds
    <3>4. RunHolds(captured)'
      BY <2>2, <3>2, <3>3 DEF kept
    <3> QED
      BY <1>1, <2>2, <3>1, <3>4 DEF kept
  <2> QED
    BY <1>3, <2>5, <2>6, <2>7
<1>4. ASSUME NEW p \in Rows(prompts), NEW draft, StoreCandidate(p, draft) PROVE VInv'
  <2> DEFINE new == [case |-> prompts[p].case, task |-> prompts[p].task, prompt |-> p, draft |-> draft]
  <2>1. UNCHANGED <<contextVars, captured, runs>> /\ candidates' = Append(candidates, new)
    BY <1>4 DEF StoreCandidate
  <2>2. CandidateHolds(new)
    BY DEF CandidateHolds
  <2> HIDE DEF new
  <2>3. /\ candidates' \in Seq(RowSet(candidates')) /\ candidates'[Len(candidates) + 1] = new
        /\ Rows(candidates') = Rows(candidates) \union {Len(candidates) + 1}
    BY <1>1, <2>1, AppendAny
  <2>4. Extends(candidates, candidates')
    BY <1>1, <2>1, AppendExtends
  <2>5. kept
    BY <2>1, <2>4, StepsKeep
  <2> HIDE DEF kept
  <2>6. ASSUME NEW k \in Rows(candidates') PROVE CandidateHolds(candidates[k])'
    <3>1. PICK row : row = candidates'[k]
      OBVIOUS
    <3>2. CandidateHolds(row)
      BY <1>1, <2>2, <2>3, <2>4, <3>1 DEF Extends
    <3>3. CandidateHolds(row)'
      BY <2>5, <3>2 DEF kept
    <3> QED
      BY <3>1, <3>3
  <2>7. (captured # None => RunHolds(captured))' /\ (\A r \in Rows(runs) : RunHolds(runs[r]))'
    BY <1>1, <2>1, <2>5 DEF kept
  <2> QED
    BY <1>1, <2>1, <2>3, <2>5, <2>6, <2>7 DEF VInv, kept
<1>5. ASSUME NEW k \in Rows(candidates), NEW failed, CaptureCandidate(k, failed)
      PROVE  UNCHANGED <<contextVars, candidates>>
  BY <1>5 DEF CaptureCandidate
<1>6. RecordRun \/ DropCapture => UNCHANGED <<contextVars, candidates>>
  BY DEF RecordRun, DropCapture
<1> QED
  BY <1>2, <1>3, <1>4, <1>5, <1>6 DEF ValidationNext, ValidationSteps

(* The invariant of candidates and runs, inductive with the one above.     *)
THEOREM RunsInvariant == ValidationSpec => []VInv
<1>1. ValidationInit => VInv
  <2> SUFFICES ASSUME ValidationInit PROVE VInv
    OBVIOUS
  <2>1. prompts = <<>> /\ review = None /\ candidates = <<>> /\ captured = None /\ runs = <<>>
    BY DEF ValidationInit, Init
  <2>2. Rows(<<>>) = {} /\ \A S : <<>> \in Seq(S)
    BY EmptySeq DEF Rows
  <2> QED
    BY <2>1, <2>2 DEF VInv, ReviewShaped
<1>2. IInv /\ VInv /\ [ValidationNext]_allVars => VInv'
  BY ValidationStepKeeps
<1> QED
  BY <1>1, <1>2, Invariant, ValidationLeavesContexts, PTL DEF ValidationSpec

----------------------------------------------------------------------------
(* What a verdict stands for                                               *)

\* What keeps a candidate from passing.
Severe == {"BLOCKER", "REVIEW_REQUIRED"}

LEMMA PassIs ==
  ASSUME NEW in, NEW failed, evaluateCandidate(in, failed).result = "TECHNICAL_PASS"
  PROVE  failed = {} /\ \A f \in Findings(in) : f.severity \notin Severe
<1> DEFINE found == {f \in Findings(in) : f.rule \notin failed} \union Diagnostics(failed)
           severities == {f.severity : f \in found}
           verdict == IF failed # {} THEN "ERROR"
                      ELSE IF "BLOCKER" \in severities THEN "BLOCKED"
                      ELSE IF "REVIEW_REQUIRED" \in severities THEN "REVIEW_REQUIRED"
                      ELSE "TECHNICAL_PASS"
<1>1. evaluateCandidate(in, failed).result = verdict
  BY DEF evaluateCandidate
<1>2. failed = {} => Findings(in) \subseteq found
  OBVIOUS
<1> HIDE DEF found
<1>3. failed = {} /\ severities \intersect Severe = {}
  <2> HIDE DEF severities
  <2> QED
    BY <1>1 DEF Severe
<1> QED
  BY <1>2, <1>3

LEMMA RulesFind ==
  ASSUME NEW in
  PROVE  /\ Thread(in) \subseteq Findings(in) /\ ReplyRecipient(in) \subseteq Findings(in)
         /\ PlanSourceExists(in) \subseteq Findings(in) /\ PlanSourceApplies(in) \subseteq Findings(in)
         /\ PlanSourceInContext(in) \subseteq Findings(in) /\ PlanSourceLatest(in) \subseteq Findings(in)
         /\ PlanPreviouslySupplied(in) \subseteq Findings(in)
         /\ GenerationMode(in) \subseteq Findings(in) /\ ContextMissing(in) \subseteq Findings(in)
         /\ ContextConflicts(in) \subseteq Findings(in) /\ PromptDrift(in) \subseteq Findings(in)
  BY DEF Findings

LEMMA NothingFound ==
  ASSUME NEW rule, NEW places
  PROVE  /\ (\A f \in Blocker(rule, places) : f.severity \notin Severe) => places = {}
         /\ (\A f \in Review(rule, places) : f.severity \notin Severe) => places = {}
<1>1. ASSUME NEW p \in places, NEW severity
      PROVE  \E f \in Finding(rule, severity, places) : f.severity = severity
  <2> DEFINE f == [rule |-> rule, severity |-> severity, where |-> p]
  <2>1. f \in Finding(rule, severity, places) /\ f.severity = severity
    BY DEF Finding
  <2> QED
    BY <2>1
<1> QED
  BY <1>1 DEF Blocker, Review, Severe

(* What the digest of a candidate's context tells of its sources.          *)
LEMMA SourcesTold ==
  ASSUME Typed, NEW scope, scope.case \in DOMAIN cases
  PROVE  LET d == dependencyDigest(scope)
         IN /\ DOMAIN d.sources = ContextSources(scope)
            /\ \A s \in DOMAIN d.sources :
                 /\ ProblemIn(s, scope.case, d) = Problem(s, scope.case)
                 /\ d.sources[s].superseded = (s \in outside.superseded)
<1> DEFINE d == dependencyDigest(scope)
<1>1. d.sources = SourceFingerprints(scope)
  BY DEF dependencyDigest
<1>2. DOMAIN d.sources = ContextSources(scope)
  BY <1>1 DEF SourceFingerprints
<1>3. \A s \in ContextSources(scope) : d.sources[s].superseded = (s \in outside.superseded)
  BY <1>1 DEF SourceFingerprints
<1>4. \A s \in ContextSources(scope) : ProblemIn(s, scope.case, d) = Problem(s, scope.case)
  BY ProblemTold
<1> QED
  BY <1>2, <1>3, <1>4

(* A plan that names a source the case does not cite never passes.         *)
LEMMA OutOfContext ==
  ASSUME NEW k, NEW digest, NEW plan, NEW e \in candidates[k].draft.plan,
         plan[e.source].exists = (e.source \in Sources),
         e.source \notin Sources \intersect DOMAIN digest.sources
  PROVE  evaluateCandidate(InputIn(k, digest, plan), {}).result # "TECHNICAL_PASS"
<1> DEFINE in == InputIn(k, digest, plan)
<1>1. /\ in.candidate.plan = candidates[k].draft.plan /\ in.planSources = plan
      /\ in.evaluated.dependencies = dependenciesOf(digest)
  BY DEF InputIn, EvaluatedIn
<1> HIDE DEF in
<1>2. Exists(in, e) <=> e.source \in Sources
  BY <1>1 DEF Exists
<1> DEFINE absent == {x \in in.candidate.plan : ~Exists(in, x)}
           elsewhere == {x \in in.candidate.plan :
             Exists(in, x) /\ <<"SourceReference", x.source>> \notin Identity(in.evaluated.dependencies)}
<1>3. absent # {} \/ elsewhere # {}
  BY <1>1, <1>2, IdentityIs
<1>4. PlanSourceExists(in) = Blocker("PLAN.SOURCE_EXISTS", absent)
      /\ PlanSourceInContext(in) = Review("PLAN.SOURCE_IN_CONTEXT", elsewhere)
  BY DEF PlanSourceExists, PlanSourceInContext
<1> HIDE DEF absent, elsewhere
<1>5. ASSUME evaluateCandidate(in, {}).result = "TECHNICAL_PASS" PROVE FALSE
  <2>1. \A f \in PlanSourceExists(in) \union PlanSourceInContext(in) : f.severity \notin Severe
    BY <1>5, PassIs, RulesFind
  <2> QED
    BY <1>3, <1>4, <2>1, NothingFound
<1> QED
  BY <1>5 DEF in

\* What stands of a run: its case is there, and what it read is what there is to read.
LEMMA StandingRun ==
  ASSUME IInv, VInv, NEW r \in Rows(runs), Stands(runs[r])
  PROVE  LET run == runs[r]
             k == run.candidate
             scope == ScopeOf(k)
         IN /\ RunHolds(run) /\ k \in Rows(candidates) /\ Typed
            /\ scope.case = candidates[k].case /\ scope.case \in DOMAIN cases
            /\ run.digest = dependencyDigest(scope)
<1> DEFINE run == runs[r]
           k == run.candidate
           p == candidates[k].prompt
<1>1. RunHolds(run) /\ k \in Rows(candidates)
  BY DEF VInv, RunHolds
<1>2. p \in Rows(prompts) /\ ScopeOf(k).case = candidates[k].case /\ prompts[p].case = candidates[k].case
  BY <1>1, CandidateScope
<1>3. prompts[p].case \in DOMAIN cases
  BY <1>2 DEF IInv, RowsHaveCases, RowsOfCases
<1> QED
  BY <1>1, <1>2, <1>3 DEF IInv, Stands

LEMMA VerdictsOfInvariant == IInv /\ VInv => VerdictsStand
<1> SUFFICES ASSUME IInv, VInv, NEW r \in Rows(runs), Stands(runs[r]), runs[r].failed = {}
             PROVE  LET now == Verdict(runs[r].candidate)
                    IN /\ runs[r].evaluation.result = "TECHNICAL_PASS" <=> now.result = "TECHNICAL_PASS"
                       /\ PlanSources(runs[r].candidate) = runs[r].plan => runs[r].evaluation = now
  BY DEF VerdictsStand
<1> DEFINE run == runs[r]
           k == run.candidate
           scope == ScopeOf(k)
           c == scope.case
           plan == PlanSources(k)
<1>1. /\ RunHolds(run) /\ k \in Rows(candidates) /\ Typed
      /\ c = candidates[k].case /\ c \in DOMAIN cases /\ run.digest = dependencyDigest(scope)
  BY StandingRun
<1>2. Verdict(k) = evaluateCandidate(InputIn(k, run.digest, plan), {})
  BY <1>1, InputTold DEF Verdict
<1>3. run.evaluation = evaluateCandidate(InputIn(k, run.digest, run.plan), {})
  BY <1>1 DEF RunHolds
<1>4. /\ Table(run.plan) /\ DOMAIN run.plan = {e.source : e \in candidates[k].draft.plan}
      /\ \A s \in DOMAIN run.plan :
           /\ run.plan[s] = [exists |-> s \in Sources, problem |-> run.plan[s].problem,
                             latest |-> run.plan[s].latest, hash |-> Hash[s]]
           /\ s \in DOMAIN run.digest.sources =>
                /\ run.plan[s].problem = ProblemIn(s, c, run.digest)
                /\ run.plan[s].latest = ~run.digest.sources[s].superseded
  BY <1>1 DEF RunHolds
<1>5. plan = [s \in {e.source : e \in candidates[k].draft.plan} |->
                [exists |-> s \in Sources, problem |-> Problem(s, c),
                 latest |-> s \notin outside.superseded, hash |-> Hash[s]]]
  BY <1>1 DEF PlanSources
<1>6. CASE \A s \in DOMAIN run.plan : s \in DOMAIN run.digest.sources
  <2>1. \A s \in DOMAIN run.plan :
          run.plan[s].problem = Problem(s, c) /\ run.plan[s].latest = (s \notin outside.superseded)
    <3> TAKE s \in DOMAIN run.plan
    <3>1. /\ ProblemIn(s, c, run.digest) = Problem(s, c)
          /\ run.digest.sources[s].superseded = (s \in outside.superseded)
      BY <1>1, <1>6, SourcesTold
    <3>2. /\ run.plan[s].problem = ProblemIn(s, c, run.digest)
          /\ run.plan[s].latest = ~run.digest.sources[s].superseded
      BY <1>4, <1>6
    <3> QED
      BY <3>1, <3>2, Zenon
  <2>2. \A s \in DOMAIN run.plan :
          run.plan[s] = [exists |-> s \in Sources, problem |-> Problem(s, c),
                         latest |-> s \notin outside.superseded, hash |-> Hash[s]]
    BY <1>4, <2>1
  <2>3. run.plan = plan
    <3>1. [s \in DOMAIN run.plan |-> run.plan[s]] = plan
      BY <1>4, <1>5, <2>2
    <3> QED
      BY <1>4, <3>1 DEF Table
  <2> QED
    BY <1>2, <1>3, <2>3
<1>7. ASSUME NEW s \in DOMAIN run.plan, s \notin DOMAIN run.digest.sources
      PROVE  /\ run.evaluation.result # "TECHNICAL_PASS" /\ Verdict(k).result # "TECHNICAL_PASS"
  <2>1. PICK e \in candidates[k].draft.plan : e.source = s
    BY <1>4, <1>7
  <2>2. run.plan[s].exists = (s \in Sources)
    <3>1. run.plan[s] = [exists |-> s \in Sources, problem |-> run.plan[s].problem,
                         latest |-> run.plan[s].latest, hash |-> Hash[s]]
      BY <1>4, <1>7
    <3> QED
      BY <3>1
  <2>3. plan[s].exists = (s \in Sources)
    <3>1. s \in {x.source : x \in candidates[k].draft.plan}
      BY <1>4, <1>7
    <3> QED
      BY <1>5, <3>1
  <2> HIDE DEF run, plan, k
  <2> QED
    BY <1>2, <1>3, <1>7, <2>1, <2>2, <2>3, OutOfContext
<1> QED
  BY <1>2, <1>3, <1>6, <1>7

(* Readiness may go by the digest and the result of a run alone            *)
(* (readiness.service.ts): as long as the digest that a validation read is *)
(* the current one (validation.service.ts), validating the candidate again *)
(* would pass if and only if the run did, whatever became of the sources   *)
(* its plan names, and would find the same if those are as they were.      *)
THEOREM VerdictsAlwaysStand == ValidationSpec => []VerdictsStand
  BY RunsInvariant, Invariant, ValidationLeavesContexts, VerdictsOfInvariant, PTL

LEMMA RevisionTold ==
  ASSUME Typed, NEW scope, scope.case \in DOMAIN cases
  PROVE  dependencyDigest(scope).case.revision = cases[scope.case].revision
<1> DEFINE row == cases[scope.case]
<1>1. row \in CaseRows
  BY DEF Typed
<1>2. dependencyDigest(scope).case = [row EXCEPT !.workflow = None, !.version = None]
  BY DEF dependencyDigest
<1> HIDE DEF row
<1>3. dependencyDigest(scope).case.revision = row.revision
  BY <1>1, <1>2 DEF CaseRows
<1> QED
  BY <1>3 DEF row

LEMMA NoDrift ==
  ASSUME NEW in, Identity((in.prompt.dependencies \ in.evaluated.dependencies)
                          \union (in.evaluated.dependencies \ in.prompt.dependencies)) = {}
  PROVE  in.prompt.dependencies = in.evaluated.dependencies
<1>1. \A S : Identity(S) = {} => S = {}
  BY DEF Identity
<1> QED
  BY <1>1

(* What a pass says of what the validation was given.                      *)
LEMMA PassSays ==
  ASSUME NEW in, \A f \in Findings(in) : f.severity \notin Severe
  PROVE  /\ in.prompt.mode = "DRAFTING" /\ in.prompt.dependencies = in.evaluated.dependencies
         /\ in.evaluated.missing = {} /\ in.evaluated.conflicts = {}
         /\ in.candidate.envelope.parent = in.prompt.parent
         /\ in.prompt.task = "NMI_REPLY" /\ in.evaluated.parentMessage # None =>
              in.candidate.envelope.to = RecordedRecipient(in.evaluated.parentMessage)
         /\ \A e \in in.candidate.plan :
              /\ Exists(in, e) /\ in.planSources[e.source].problem = None
              /\ in.planSources[e.source].latest
              /\ <<"SourceReference", e.source>> \in Identity(in.evaluated.dependencies)
              /\ e.state = "PREVIOUSLY_SUPPLIED" =>
                   \E m \in in.evaluated.priorMessages :
                     e.source \in DOMAIN m.attached /\ "OBSERVED_IN_RAW_MIME" \in m.attached[e.source]
<1>1. \A rule, places : /\ Blocker(rule, places) \subseteq Findings(in) => places = {}
                        /\ Review(rule, places) \subseteq Findings(in) => places = {}
  BY NothingFound
<1>2. \A condition, place : When(condition, place) = {} => ~condition
  BY DEF When
<1>3. in.prompt.mode = "DRAFTING"
  <2>1. Blocker("CONTEXT.GENERATION_MODE", When(in.prompt.mode # "DRAFTING", "promptSnapshotId"))
          \subseteq Findings(in)
    BY RulesFind DEF GenerationMode
  <2>2. When(in.prompt.mode # "DRAFTING", "promptSnapshotId") = {}
    BY <1>1, <2>1
  <2> QED
    BY <2>2 DEF When
<1>4. in.prompt.dependencies = in.evaluated.dependencies
  <2> DEFINE drift == Identity((in.prompt.dependencies \ in.evaluated.dependencies)
                               \union (in.evaluated.dependencies \ in.prompt.dependencies))
  <2>1. Review("CONTEXT.PROMPT_DRIFT", drift) \subseteq Findings(in)
    BY RulesFind DEF PromptDrift
  <2>2. drift = {}
    BY <1>1, <2>1
  <2> QED
    BY <2>2, NoDrift
<1>5. in.evaluated.missing = {}
  <2> DEFINE some == {t \in in.evaluated.missing : t[1] \in Blocking}
             others == {t \in in.evaluated.missing : t[1] \notin Blocking}
  <2>1. ContextMissing(in) = Blocker("CONTEXT.MISSING", some) \union Review("CONTEXT.MISSING", others)
    BY DEF ContextMissing
  <2>2. in.evaluated.missing = some \union others
    OBVIOUS
  <2> HIDE DEF some, others
  <2>3. some = {} /\ others = {}
    BY <1>1, <2>1, RulesFind
  <2> QED
    BY <2>2, <2>3
<1>6. in.evaluated.conflicts = {}
  BY <1>1, RulesFind DEF ContextConflicts
<1>7. in.candidate.envelope.parent = in.prompt.parent
  <2>1. Blocker("ENVELOPE.THREAD",
          When(in.candidate.envelope.parent # in.prompt.parent, "envelope.parentBindingId"))
            \subseteq Findings(in)
    BY RulesFind DEF Thread
  <2>2. When(in.candidate.envelope.parent # in.prompt.parent, "envelope.parentBindingId") = {}
    BY <1>1, <2>1
  <2> QED
    BY <2>2 DEF When
<1>8. ASSUME in.prompt.task = "NMI_REPLY", in.evaluated.parentMessage # None
      PROVE  in.candidate.envelope.to = RecordedRecipient(in.evaluated.parentMessage)
  <2> DEFINE amiss == /\ in.prompt.task = "NMI_REPLY" /\ in.evaluated.parentMessage # None
                      /\ LET recipient == RecordedRecipient(in.evaluated.parentMessage)
                         IN recipient = None \/ in.candidate.envelope.to # recipient
  <2>1. ReplyRecipient(in) = Review("ENVELOPE.REPLY_RECIPIENT", When(amiss, "envelope.to"))
    BY DEF ReplyRecipient
  <2> HIDE DEF amiss
  <2>2. When(amiss, "envelope.to") = {}
    BY <1>1, <2>1, RulesFind
  <2>3. ~amiss
    BY <2>2 DEF When
  <2> QED
    BY <1>8, <2>3 DEF amiss
<1>9. \A e \in in.candidate.plan : Exists(in, e)
  <2> DEFINE found == {e \in in.candidate.plan : ~Exists(in, e)}
  <2>1. found = {}
    BY <1>1, RulesFind DEF PlanSourceExists
  <2> QED
    BY <2>1
<1>10. \A e \in in.candidate.plan : in.planSources[e.source].problem = None
  <2> DEFINE found == {e \in in.candidate.plan : Exists(in, e) /\ in.planSources[e.source].problem # None}
  <2>1. found = {}
    BY <1>1, RulesFind DEF PlanSourceApplies
  <2> QED
    BY <1>9, <2>1
<1>11. \A e \in in.candidate.plan :
         <<"SourceReference", e.source>> \in Identity(in.evaluated.dependencies)
  <2> DEFINE found == {e \in in.candidate.plan :
       Exists(in, e) /\ <<"SourceReference", e.source>> \notin Identity(in.evaluated.dependencies)}
  <2>1. found = {}
    BY <1>1, RulesFind DEF PlanSourceInContext
  <2> QED
    BY <1>9, <2>1
<1>12. \A e \in in.candidate.plan : in.planSources[e.source].latest
  <2> DEFINE found == {e \in in.candidate.plan : Exists(in, e) /\ ~in.planSources[e.source].latest}
  <2>1. found = {}
    BY <1>1, RulesFind DEF PlanSourceLatest
  <2> QED
    BY <1>9, <2>1
<1>13. ASSUME NEW e \in in.candidate.plan, e.state = "PREVIOUSLY_SUPPLIED"
       PROVE  \E m \in in.evaluated.priorMessages :
                e.source \in DOMAIN m.attached /\ "OBSERVED_IN_RAW_MIME" \in m.attached[e.source]
  <2> DEFINE claimed == {x \in in.candidate.plan : x.state = "PREVIOUSLY_SUPPLIED"}
             postures(x) == Supplied(in.evaluated.priorMessages, x.source)
             never == {x \in claimed : postures(x) = {}}
             unseen == {x \in claimed : postures(x) # {} /\ "OBSERVED_IN_RAW_MIME" \notin postures(x)}
  <2>1. PlanPreviouslySupplied(in) = Blocker("PLAN.PREVIOUSLY_SUPPLIED", never)
                                     \union Review("PLAN.PREVIOUSLY_SUPPLIED", unseen)
    BY DEF PlanPreviouslySupplied
  <2>2. e \in never \/ e \in unseen \/ "OBSERVED_IN_RAW_MIME" \in postures(e)
    BY <1>13
  <2> HIDE DEF never, unseen
  <2>3. never = {} /\ unseen = {}
    BY <1>1, <2>1, RulesFind
  <2>4. "OBSERVED_IN_RAW_MIME" \in Supplied(in.evaluated.priorMessages, e.source)
    BY <2>2, <2>3
  <2> QED
    BY <2>4 DEF Supplied
<1> QED
  BY <1>3, <1>4, <1>5, <1>6, <1>7, <1>8, <1>9, <1>10, <1>11, <1>12, <1>13

LEMMA PassesOfInvariant == IInv /\ VInv => PassesAreFaithful
<1> SUFFICES ASSUME IInv, VInv, NEW r \in Rows(runs), Stands(runs[r]),
                    runs[r].evaluation.result = "TECHNICAL_PASS"
             PROVE  LET row == candidates[runs[r].candidate]
                        scope == ScopeOf(runs[r].candidate)
                        data == prompts[row.prompt].data
                    IN /\ scope = data.scope /\ scope.mode = "DRAFTING"
                       /\ data = promptCaseData(scope)
                       /\ data.missing = {} /\ data.conflicts = {}
                       /\ scope.parent # None =>
                            /\ row.draft.envelope.parent = scope.parent
                            /\ row.draft.envelope.to =
                                 RecordedRecipient(Message[bindings[scope.parent].message])
                       /\ \A e \in row.draft.plan :
                            /\ e.source \in ContextSources(scope) \ outside.superseded
                            /\ scopeProblem(e.source, caseTarget(row.case)) = None
                            /\ caseTarget(row.case).owner # None =>
                                 outside.users[e.source] \subseteq {caseTarget(row.case).owner}
                            /\ e.state = "PREVIOUSLY_SUPPLIED" =>
                                 \E b \in scope.priors :
                                   /\ e.source \in DOMAIN Message[bindings[b].message].attached
                                   /\ "OBSERVED_IN_RAW_MIME"
                                        \in Message[bindings[b].message].attached[e.source]
  BY DEF PassesAreFaithful
<1> DEFINE run == runs[r]
           k == run.candidate
           row == candidates[k]
           scope == ScopeOf(k)
           c == scope.case
           prompt == prompts[row.prompt]
           in == InputIn(k, run.digest, run.plan)
<1>1. /\ RunHolds(run) /\ k \in Rows(candidates) /\ Typed
      /\ c = row.case /\ c \in DOMAIN cases /\ run.digest = dependencyDigest(scope)
  BY StandingRun
<1>2. Readable(scope)
  BY DEF Stands
<1>3. PromptHolds(prompt) /\ scope = prompt.data.scope /\ scope.task = prompt.task
  BY <1>1, CandidateScope
<1>4. \A f \in Findings(in) : f.severity \notin Severe
  <2>1. run.evaluation = evaluateCandidate(in, run.failed)
    BY <1>1 DEF RunHolds
  <2> HIDE DEF in, run
  <2>2. evaluateCandidate(in, run.failed).result = "TECHNICAL_PASS"
    BY <2>1 DEF run
  <2> QED
    BY <2>2, PassIs
<1>5. /\ in.candidate.envelope = row.draft.envelope /\ in.candidate.plan = row.draft.plan
      /\ in.prompt.task = prompt.task /\ in.prompt.mode = scope.mode /\ in.prompt.parent = scope.parent
      /\ in.prompt.dependencies = dependenciesOf(prompt.digest)
      /\ in.planSources = run.plan /\ in.evaluated = EvaluatedIn(scope, run.digest)
  BY DEF InputIn
<1>6. /\ in.evaluated.dependencies = dependenciesOf(run.digest)
      /\ in.evaluated.parentMessage =
           IF scope.parent = None THEN None ELSE Message[bindings[scope.parent].message]
      /\ in.evaluated.priorMessages = {Message[bindings[b].message] : b \in scope.priors}
  <2>1. in.evaluated = Evaluated(scope)
    BY <1>1, <1>5, EvaluatedTold
  <2> QED
    BY <1>1, <2>1 DEF Evaluated
<1>7. in.evaluated.missing = missing(scope) /\ in.evaluated.conflicts = conflicts(scope)
  <2>1. in.evaluated = Evaluated(scope)
    BY <1>1, <1>5, EvaluatedTold
  <2> QED
    BY <2>1 DEF Evaluated
<1> HIDE DEF in
<1>9. /\ scope.mode = "DRAFTING" /\ dependenciesOf(prompt.digest) = dependenciesOf(run.digest)
      /\ missing(scope) = {} /\ conflicts(scope) = {}
      /\ row.draft.envelope.parent = scope.parent
      /\ prompt.task = "NMI_REPLY" /\ in.evaluated.parentMessage # None =>
           row.draft.envelope.to = RecordedRecipient(in.evaluated.parentMessage)
  <2>1. /\ in.prompt.mode = "DRAFTING" /\ in.prompt.dependencies = in.evaluated.dependencies
        /\ in.evaluated.missing = {} /\ in.evaluated.conflicts = {}
        /\ in.candidate.envelope.parent = in.prompt.parent
        /\ in.prompt.task = "NMI_REPLY" /\ in.evaluated.parentMessage # None =>
             in.candidate.envelope.to = RecordedRecipient(in.evaluated.parentMessage)
    BY <1>4, PassSays
  <2> HIDE DEF run, row, scope, prompt
  <2> QED
    BY <1>5, <1>6, <1>7, <2>1
<1>10. \A e \in row.draft.plan :
         /\ run.plan[e.source].problem = None /\ run.plan[e.source].latest
         /\ <<"SourceReference", e.source>> \in Identity(dependenciesOf(run.digest))
         /\ e.state = "PREVIOUSLY_SUPPLIED" =>
              \E m \in in.evaluated.priorMessages :
                e.source \in DOMAIN m.attached /\ "OBSERVED_IN_RAW_MIME" \in m.attached[e.source]
  <2>1. \A e \in in.candidate.plan :
          /\ in.planSources[e.source].problem = None /\ in.planSources[e.source].latest
          /\ <<"SourceReference", e.source>> \in Identity(in.evaluated.dependencies)
          /\ e.state = "PREVIOUSLY_SUPPLIED" =>
               \E m \in in.evaluated.priorMessages :
                 e.source \in DOMAIN m.attached /\ "OBSERVED_IN_RAW_MIME" \in m.attached[e.source]
    BY <1>4, PassSays
  <2> HIDE DEF run, row
  <2> QED
    BY <1>5, <1>6, <2>1
<1>11. prompt.data = promptCaseData(scope)
  <2>1. /\ prompt.data = DataIn(scope, prompt.digest.case.revision, prompt.digest)
        /\ prompt.digest.scope = scope /\ Shaped(prompt.digest)
    BY <1>3 DEF PromptHolds
  <2>2. Shaped(run.digest) /\ run.digest.scope = scope
    BY <1>1, DigestShaped
  <2>3. prompt.digest = run.digest
    BY <1>9, <2>1, <2>2, SameDigest
  <2>4. run.digest.case.revision = cases[c].revision
    BY <1>1, RevisionTold
  <2>5. promptCaseData(scope) = DataIn(scope, cases[c].revision, run.digest)
    BY <1>1, DataTold
  <2> QED
    BY <2>1, <2>3, <2>4, <2>5
<1>12. prompt.data.missing = {} /\ prompt.data.conflicts = {}
  BY <1>9, <1>11 DEF promptCaseData
<1>13. ASSUME scope.parent # None
       PROVE  row.draft.envelope.to = RecordedRecipient(Message[bindings[scope.parent].message])
  <2>1. prompt.task = "NMI_REPLY"
    BY <1>3, <1>13 DEF PromptHolds
  <2>2. scope.parent \in Current(bindings, c)
    BY <1>2, <1>13 DEF Readable, Named
  <2>3. bindings[scope.parent].message \in Messages
    <3>1. bindings \in Seq(BindingRows)
      BY <1>1 DEF Typed
    <3>2. bindings[scope.parent] \in BindingRows
      BY <2>2, <3>1, RowOf DEF Current, RowsOf
    <3> QED
      BY <3>2 DEF BindingRows
  <2>4. in.evaluated.parentMessage = Message[bindings[scope.parent].message]
    BY <1>6, <1>13
  <2> QED
    BY <1>9, <2>1, <2>3, <2>4, RecordsAssumption
<1>14. ASSUME NEW e \in row.draft.plan
       PROVE  /\ e.source \in ContextSources(scope) \ outside.superseded
              /\ Problem(e.source, c) = None
  <2>1. e.source \in DOMAIN run.digest.sources
    BY <1>10, IdentityIs
  <2>2. /\ e.source \in ContextSources(scope)
        /\ ProblemIn(e.source, c, run.digest) = Problem(e.source, c)
        /\ run.digest.sources[e.source].superseded = (e.source \in outside.superseded)
    BY <1>1, <2>1, SourcesTold
  <2>3. /\ run.plan[e.source].problem = ProblemIn(e.source, c, run.digest)
        /\ run.plan[e.source].latest = ~run.digest.sources[e.source].superseded
    <3>1. DOMAIN run.plan = {x.source : x \in row.draft.plan}
      BY <1>1 DEF RunHolds
    <3>2. e.source \in DOMAIN run.plan
      BY <3>1
    <3> QED
      BY <1>1, <2>1, <3>2 DEF RunHolds
  <2>4. e.source \notin outside.superseded
    <3>1. run.plan[e.source].latest
      BY <1>10
    <3> QED
      BY <2>2, <2>3, <3>1, Zenon
  <2>5. Problem(e.source, c) = None
    BY <1>10, <2>2, <2>3
  <2> QED
    BY <2>2, <2>4, <2>5
<1>15. ASSUME NEW s, Problem(s, c) = None
       PROVE  /\ scopeProblem(s, caseTarget(row.case)) = None
              /\ caseTarget(row.case).owner # None =>
                   outside.users[s] \subseteq {caseTarget(row.case).owner}
  <2> DEFINE target == caseTarget(row.case)
             problem == scopeProblem(s, target)
  <2>1. Problem(s, c) = IF problem # None THEN problem
                        ELSE IF target.owner # None /\ outside.users[s] \ {target.owner} # {}
                             THEN "CROSS_OWNER_REFERENCE" ELSE None
    BY <1>1 DEF Problem, applicabilityProblem
  <2> HIDE DEF target, problem
  <2>2. None # "CROSS_OWNER_REFERENCE"
    BY RecordsAssumption
  <2>3. problem = None /\ (target.owner # None => outside.users[s] \subseteq {target.owner})
    BY <1>15, <2>1, <2>2
  <2> QED
    BY <2>3 DEF target, problem
<1>16. ASSUME NEW e \in row.draft.plan, e.state = "PREVIOUSLY_SUPPLIED"
       PROVE  \E b \in scope.priors :
                /\ e.source \in DOMAIN Message[bindings[b].message].attached
                /\ "OBSERVED_IN_RAW_MIME" \in Message[bindings[b].message].attached[e.source]
  BY <1>6, <1>10, <1>16
<1> QED
  BY <1>3, <1>9, <1>11, <1>12, <1>13, <1>14, <1>15, <1>16

(* A notice that passed the technical rules (technical-ruleset.ts) and     *)
(* whose digest still stands was drafted to be sent from exactly the case  *)
(* data that is recorded now, with nothing missing or in conflict, answers *)
(* where it was asked to, and plans only documents of its own case, scope  *)
(* and owner, at their latest revision.                                    *)
THEOREM PassesAlwaysFaithful == ValidationSpec => []PassesAreFaithful
  BY RunsInvariant, Invariant, ValidationLeavesContexts, PassesOfInvariant, PTL

----------------------------------------------------------------------------
(* What the pages of a case offer.  The page's copy of the scope rules     *)
(* gives, for every source and every record that may cite one, exactly the *)
(* server's answer.                                                        *)

\* A record of each kind, with what the pages know of it.
Targets ==
  [kind : {"Agency"}, case : {None}, agency : Agencies, owner : {None}, subject : {None}]
  \union [kind : {"Route"}, case : {None}, agency : Agencies, owner : {None}, subject : Subjects]
  \union [kind : {"LegalSubject"}, case : {None}, agency : {None}, owner : {None}, subject : Subjects]
  \union [kind : {"Owner"}, case : {None}, agency : {None}, owner : {None}, subject : {None}]
  \union [kind : {"OwnerSubject"}, case : {None}, agency : {None}, owner : {None}, subject : Subjects]
  \union [kind : {"Case"}, case : Cases, agency : Agencies, owner : {None}, subject : Subjects \union {None}]

(* What a picker offers by scope is what the server takes by scope, and    *)
(* the reason it states for the rest is the server's (sources/scope.ts     *)
(* against modules/sources/source-scope.ts).                               *)
THEOREM PickersFollowTheServer ==
  ASSUME NEW s \in Sources, NEW target \in Targets
  PROVE  scopeReason(s, target) = scopeProblem(s, target)
<1> DEFINE scope == Scope[s]
<1>1. /\ scope.agency \in Agencies \union {None} /\ scope.agencies \subseteq Agencies
      /\ scope.subjects \subseteq Subjects /\ scope.cases \subseteq Cases
  BY ScopeAssumption
<1>2. AgencyReason(scope, target) = AgencyProblem(scope, target)
  BY <1>1, ScopeAssumption DEF AgencyReason, AgencyProblem, Leaves, NamesAgency, Targets
<1>3. SubjectReason(scope.subjects, target) = SubjectProblem(scope, target)
  BY <1>1, ScopeAssumption DEF SubjectReason, SubjectProblem, Leaves, Targets
<1> QED
  BY <1>2, <1>3 DEF scopeReason, scopeProblem
=============================================================================
