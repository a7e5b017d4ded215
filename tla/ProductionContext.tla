-------------------------- MODULE ProductionContext --------------------------
(***************************************************************************)
(* The production context of a case (modules/production) and the prompts   *)
(* generated from it (modules/prompts).  A reader is shown the context, a  *)
(* revision number and a digest over the records the context depends on;   *)
(* the reader later asks for a prompt with both, and the prompt is made    *)
(* from the context as it is then, if both still stand.  The case's lock   *)
(* keeps its intake still in between; records elsewhere do not move the    *)
(* revision, and only the digest can tell.                                 *)
(*                                                                         *)
(* A digest is modelled as the content it covers: equal digests, equal     *)
(* content.  A read is one snapshot, a generation one step (SERIALIZABLE). *)
(* The size limits of a context are far above these instances.             *)
(***************************************************************************)
EXTENDS CaseIntake

CONSTANTS
  Reviewable,     \* the cases whose contexts the instance's reader asks for
  MaxPrompts      \* how many prompts the instance allows

VARIABLE review          \* the view a reader holds, or None

contextVars == <<vars, review>>

----------------------------------------------------------------------------
(* What a reader asks for (context-scope.ts) and what it may name          *)

ContextScopes(c) ==
  [case : {c}, task : {"INITIAL", "NMI_REPLY"}, mode : {"PREPARATION", "DRAFTING"},
   selection : OneOf(RowsOf(selections, c)), parent : OneOf(Current(bindings, c)),
   priors : SUBSET Current(bindings, c)]

Named(scope) == ({scope.parent} \ {None}) \union scope.priors

contextScope(scope) ==
  /\ scope.selection \in OneOf(RowsOf(selections, scope.case))
  /\ Named(scope) \subseteq Current(bindings, scope.case)
  /\ scope.parent # None => bindings[scope.parent].event = "NMI"
  /\ \A b \in scope.priors : bindings[b].event = "AS_SENT"
  /\ scope.task = "INITIAL" => Named(scope) = {}

----------------------------------------------------------------------------
(* The rows of a context (context-snapshot.ts): what is unarchived and     *)
(* current, and what those rows still name.                                *)

InScope(c, kind) ==
  {facts[f].scope.row : f \in {g \in Current(facts, c) : facts[g].scope.kind = kind}}

ContextMappings(c) == Unarchived(mappings, c) \union InScope(c, "USE")
ContextWorks(c) ==
  Unarchived(works, c) \union InScope(c, "WORK")
  \union {mappings[m].work : m \in ContextMappings(c)}
ContextItems(scope) ==
  Unarchived(items, scope.case) \union InScope(scope.case, "ITEM")
  \union {mappings[m].item : m \in ContextMappings(scope.case)}
  \union ({bindings[b].item : b \in Named(scope)} \ {None})
Supporting(c) == UNION {facts[f].supports : f \in Current(facts, c)}
ContextLinks(c) == {i \in RowsOf(links, c) : links[i].state = "LINKED"} \union Supporting(c)
ContextMessages(scope) == {bindings[b].message : b \in Named(scope)}

Cites(source, kind, row) == [source |-> source, kind |-> kind, row |-> row]

\* Which record cites which source (context-sources.ts).
IntakeCitations(c) ==
  {t \in {Cites(cases[c].canonical, "CASE_CANONICAL", c), Cites(cases[c].packet, "CASE_PACKET", c)}
         \union {Cites(links[i].source, "CASE_SOURCE", i) : i \in ContextLinks(c)}
         \union {Cites(links[i].source, "FACT_SUPPORT", i) : i \in Supporting(c)}
         \union {Cites(mappings[m].basis, "MAPPING_BASIS", m) : m \in ContextMappings(c)}
   : t.source # None}
SelectionCitations(scope) ==
  {t \in {Cites(selections[i].basis, "SELECTION_BASIS", i) : i \in {scope.selection} \ {None}} :
     t.source # None}
MessageCitations(scope) ==
  UNION {{Cites(s, "CORRESPONDENCE", m) : s \in Message[m].sources} : m \in ContextMessages(scope)}

OwnCitations(scope) == IntakeCitations(scope.case) \union SelectionCitations(scope)
ContextSources(scope) ==
  {t.source : t \in OwnCitations(scope) \union MessageCitations(scope)}

Problem(s, c) == applicabilityProblem(s, caseTarget(c), outside.users[s])

----------------------------------------------------------------------------
(* The context (context-assembly.ts)                                       *)

Content(table, S) == [i \in S |-> table[i]]

ActiveItems(scope) == {i \in ContextItems(scope) : ~items[i].archived}
ActiveMappings(c) == {m \in ContextMappings(c) : ~mappings[m].archived}

Absent(code, isAbsent) == {t \in {<<code, None>>} : isAbsent}

missing(scope) ==
  LET c == scope.case
  IN UNION {
       Absent("CASE_ROUTE_UNBOUND", cases[c].route = None),
       Absent("AUTHORITY_SELECTION_NOT_SELECTED", scope.selection = None),
       Absent("REPORTED_ITEMS_ABSENT", ActiveItems(scope) = {}),
       Absent("WORKS_ABSENT", \A w \in ContextWorks(c) : works[w].archived),
       Absent("USE_MAPPINGS_ABSENT", ActiveMappings(c) = {}),
       {<<"REPORTED_ITEM_UNMAPPED", i>> :
          i \in ActiveItems(scope) \ {mappings[m].item : m \in ActiveMappings(c)}},
       Absent("REPLY_PARENT_NOT_SELECTED", scope.task = "NMI_REPLY" /\ scope.parent = None),
       Absent("PRIOR_AS_SENT_NOT_SELECTED", scope.task = "NMI_REPLY" /\ scope.priors = {}),
       {<<"REPLY_PARENT_FULL_TEXT_ABSENT", bindings[b].message>> :
          b \in {p \in {scope.parent} \ {None} : Message[bindings[p].message].mode = "EXCERPT"}},
       {<<"PRIOR_AS_SENT_RAW_SOURCE_ABSENT", bindings[b].message>> :
          b \in {p \in scope.priors : Message[bindings[p].message].mode # "RAW_SOURCE"}},
       {<<"FACT_PROVENANCE_MISSING", f>> :
          f \in {g \in Current(facts, c) : facts[g].provenance = "MISSING"}}}

ArchivedRows(table, S, kind) ==
  {<<"ARCHIVED_RECORD_REFERENCED", kind, i>> : i \in {j \in S : table[j].archived}}

conflicts(scope) ==
  LET c == scope.case
      inConflict(table, S, code) ==
        {<<code, i>> : i \in {j \in S : table[j].provenance = "CONFLICT"}}
      notApplicable(citations, code) ==
        {<<code, Problem(t.source, c), t>> : t \in {u \in citations : Problem(u.source, c) # None}}
  IN UNION {
       ArchivedRows(items, ContextItems(scope), "ReportedItem"),
       ArchivedRows(works, ContextWorks(c), "CaseWork"),
       ArchivedRows(mappings, ContextMappings(c), "UseMapping"),
       inConflict(mappings, ContextMappings(c), "MAPPING_PROVENANCE_CONFLICT"),
       inConflict(facts, Current(facts, c), "FACT_PROVENANCE_CONFLICT"),
       {<<"SUPPORT_LINK_NOT_LINKED", i>> :
          i \in {j \in Supporting(c) : links[j].state # "LINKED"}},
       notApplicable(OwnCitations(scope), "SOURCE_NOT_APPLICABLE"),
       notApplicable(MessageCitations(scope), "CORRESPONDENCE_SOURCE_NOT_APPLICABLE")}

\* The records as a context shows them and as a digest covers them.
Records(scope) ==
  LET c == scope.case
  IN [items |-> Content(items, ContextItems(scope)),
      works |-> Content(works, ContextWorks(c)),
      mappings |-> Content(mappings, ContextMappings(c)),
      facts |-> Content(facts, Current(facts, c)),
      bindings |-> Content(bindings, Named(scope)),
      authority |-> IF scope.selection = None THEN None
                    ELSE outside.authority[selections[scope.selection].route]]

promptCaseData(scope) ==
  [scope |-> scope, revision |-> cases[scope.case].revision, code |-> cases[scope.case].code,
   party |-> caseTarget(scope.case), records |-> Records(scope), sources |-> ContextSources(scope),
   missing |-> missing(scope), conflicts |-> conflicts(scope)]

----------------------------------------------------------------------------
(* The dependencies (context-dependencies.ts)                              *)

otherOwnerMaterial(scope) ==
  {s \in ContextSources(scope) : Problem(s, scope.case) = "CROSS_OWNER_REFERENCE"}

SourceFingerprintsOfRowsAlone(scope) ==
  [s \in ContextSources(scope) |-> [superseded |-> s \in outside.superseded]]
SourceFingerprints(scope) ==
  [s \in ContextSources(scope) |->
    [superseded |-> s \in outside.superseded, other |-> s \in otherOwnerMaterial(scope)]]

dependencyDigest(scope) ==
  LET c == scope.case
      row == cases[c]
  IN [scope |-> scope,
      case |-> [row EXCEPT !.workflow = None, !.version = None],
      parties |-> [archived |-> outside.archived \intersect
                     ({CaseAgency[c], caseTarget(c).owner} \ {None}),
                   route |-> IF row.route = None THEN None ELSE outside.routes[row.route]],
      records |-> Records(scope),
      links |-> Content(links, ContextLinks(c)),
      sources |-> SourceFingerprints(scope)]

----------------------------------------------------------------------------
(* Reading a context, and generating a prompt from what was read           *)

Blocking ==
  {"CASE_ROUTE_UNBOUND", "AUTHORITY_SELECTION_NOT_SELECTED", "REPORTED_ITEMS_ABSENT",
   "WORKS_ABSENT", "USE_MAPPINGS_ABSENT", "REPLY_PARENT_NOT_SELECTED",
   "PRIOR_AS_SENT_NOT_SELECTED"}

Deliverable(scope) ==
  scope.mode = "DRAFTING" => \A t \in missing(scope) : t[1] \notin Blocking

ReadContext(scope) ==
  /\ review = None /\ Len(prompts) < MaxPrompts
  /\ contextScope(scope) /\ Deliverable(scope)
  /\ review' = [scope |-> scope, revision |-> cases[scope.case].revision,
                digest |-> dependencyDigest(scope), data |-> promptCaseData(scope)]
  /\ UNCHANGED vars

NextVersion(c, task) == 1 + Cardinality({p \in RowsOf(prompts, c) : prompts[p].task = task})

GeneratePrompt ==
  LET scope == review.scope
      c == scope.case
  IN /\ review # None
     /\ c \in DOMAIN cases /\ ~cases[c].archived
     /\ cases[c].revision = review.revision
     /\ contextScope(scope)
     /\ dependencyDigest(scope) = review.digest
     /\ Deliverable(scope)
     /\ prompts' = Append(prompts,
          [case |-> c, task |-> scope.task, version |-> NextVersion(c, scope.task),
           digest |-> review.digest, data |-> promptCaseData(scope), reviewed |-> review.data])
     /\ review' = None
     /\ UNCHANGED <<cases, links, works, items, mappings, facts, bindings, selections, outside>>

----------------------------------------------------------------------------
(* What is true of the records of all cases whatever was done to them: the *)
(* rows of a case name rows of their own case, its sources are within      *)
(* their scopes, and a chain of facts has one head.  An instance begins    *)
(* with records of which it is true.                                       *)

RowsOfCases(cs, table) == \A i \in Rows(table) : table[i].case \in DOMAIN cs

Fits(cs, s, c) == s # None => scopeProblem(s, caseTargetWith(c, cs[c].route)) = None

ColumnsFit(cs) ==
  \A c \in DOMAIN cs : Fits(cs, cs[c].canonical, c) /\ Fits(cs, cs[c].packet, c)

\* The links in use and those that any revision of a fact was recorded upon.
LinksFit(cs, ls, fs) ==
  \A i \in Rows(ls) :
    ls[i].state = "LINKED" \/ (\E f \in Rows(fs) : i \in fs[f].supports) =>
      Fits(cs, ls[i].source, ls[i].case)

\* The mappings in use and those that any revision of a fact is about.
MappingsFit(cs, ms, fs) ==
  \A m \in Rows(ms) :
    ~ms[m].archived \/ (\E f \in Rows(fs) : fs[f].scope = [kind |-> "USE", row |-> m]) =>
      Fits(cs, ms[m].basis, ms[m].case)

SelectionsFit(cs, ss) ==
  \A i \in Rows(ss) :
    ss[i].route = cs[ss[i].case].route /\ Fits(cs, ss[i].basis, ss[i].case)

MappingsName(ws, is, ms) ==
  \A m \in Rows(ms) :
    ms[m].work \in RowsOf(ws, ms[m].case) /\ ms[m].item \in RowsOf(is, ms[m].case)

FactsName(ls, ws, is, ms, fs) ==
  \A f \in Rows(fs) :
    LET c == fs[f].case
        scope == fs[f].scope
    IN /\ fs[f].supports \subseteq RowsOf(ls, c)
       /\ scope.kind = "WORK" => scope.row \in RowsOf(ws, c)
       /\ scope.kind = "ITEM" => scope.row \in RowsOf(is, c)
       /\ scope.kind = "USE" => scope.row \in RowsOf(ms, c)

FactsChain(fs) ==
  \A f \in Rows(fs) :
    LET c == fs[f].case
        group == fs[f].group
    IN /\ group \in RowsOf(fs, c) /\ fs[group].scope = fs[f].scope
       /\ fs[f].supersedes \in OneOf(Rows(fs))
       /\ \E head \in Rows(fs) : {g \in Current(fs, c) : fs[g].group = group} = {head}

BindingsName(is, bs) ==
  \A b \in Rows(bs) :
    /\ bs[b].item \in OneOf(RowsOf(is, bs[b].case))
    /\ Message[bs[b].message].agency = CaseAgency[bs[b].case]

ASSUME FirstsAssumption ==
  /\ MaxPrompts \in Nat
  /\ \A t \in Firsts :
       /\ DOMAIN t.cases \subseteq Cases /\ \A c \in DOMAIN t.cases : t.cases[c] \in CaseRows
       /\ t.links \in Seq(LinkRows) /\ t.works \in Seq(WorkRows) /\ t.items \in Seq(ItemRows)
       /\ t.mappings \in Seq(MappingRows) /\ t.facts \in Seq(FactRows)
       /\ t.bindings \in Seq(BindingRows) /\ t.selections \in Seq(SelectionRows)
       /\ RowsOfCases(t.cases, t.links) /\ RowsOfCases(t.cases, t.works)
       /\ RowsOfCases(t.cases, t.items) /\ RowsOfCases(t.cases, t.mappings)
       /\ RowsOfCases(t.cases, t.facts) /\ RowsOfCases(t.cases, t.bindings)
       /\ RowsOfCases(t.cases, t.selections)
       /\ ColumnsFit(t.cases) /\ LinksFit(t.cases, t.links, t.facts)
       /\ MappingsFit(t.cases, t.mappings, t.facts) /\ SelectionsFit(t.cases, t.selections)
       /\ MappingsName(t.works, t.items, t.mappings) /\ BindingsName(t.items, t.bindings)
       /\ FactsName(t.links, t.works, t.items, t.mappings, t.facts) /\ FactsChain(t.facts)

Init ==
  /\ \E first \in Firsts :
       /\ cases = first.cases /\ links = first.links /\ works = first.works
       /\ items = first.items /\ mappings = first.mappings /\ facts = first.facts
       /\ bindings = first.bindings /\ selections = first.selections
  /\ prompts = <<>>
  /\ outside = [archived |-> {}, routes |-> [rt \in Routes |-> "LINKED"],
                users |-> [s \in Sources |-> {}], superseded |-> {}, captured |-> {bindings[b].message : b \in Rows(bindings)},
                authority |-> [rt \in Routes |-> 0], changes |-> 0]
  /\ review = None

Next ==
  \/ IntakeSteps /\ UNCHANGED review
  \/ \E c \in DOMAIN cases \intersect Reviewable : \E scope \in ContextScopes(c) : ReadContext(scope)
  \/ GeneratePrompt

Spec == Init /\ [][Next]_contextVars

----------------------------------------------------------------------------
(* Properties                                                              *)

\* Every variable keeps the type of its column.
TypeOK ==
  /\ DOMAIN cases \subseteq Cases /\ \A c \in DOMAIN cases : cases[c] \in CaseRows
  /\ links \in Seq(LinkRows) /\ works \in Seq(WorkRows) /\ items \in Seq(ItemRows)
  /\ mappings \in Seq(MappingRows) /\ facts \in Seq(FactRows)
  /\ bindings \in Seq(BindingRows) /\ selections \in Seq(SelectionRows)
  /\ outside \in OutsideRows
  /\ \A p \in Rows(prompts) : prompts[p].case \in Cases /\ prompts[p].version \in 1 .. MaxPrompts

(* Whatever was unlinked, archived, rebound and restored in between, every *)
(* source that a case's own records cite is within its recorded scope for  *)
(* the party the case is bound to: a context reports SOURCE_NOT_APPLICABLE *)
(* for them only when another owner's records have come to cite the source.*)
SourcesFitTheCase ==
  \A c \in DOMAIN cases :
    \A t \in IntakeCitations(c) \union {Cites(selections[i].basis, "SELECTION_BASIS", i) :
                                         i \in RowsOf(selections, c)} :
      t.source # None => scopeProblem(t.source, caseTarget(c)) = None

(* What reading a context treats as an integrity failure never happens: a  *)
(* selection is of the case's route, every row a fact, a mapping or a      *)
(* binding names is the case's own, every support is one of its links, its *)
(* messages are its agency's, and a chain of facts has one current         *)
(* revision, of the scope it began with.                                   *)
ReadsStaySound ==
  /\ \A i \in Rows(selections) : selections[i].route = cases[selections[i].case].route
  /\ \A m \in Rows(mappings) :
       /\ mappings[m].work \in RowsOf(works, mappings[m].case)
       /\ mappings[m].item \in RowsOf(items, mappings[m].case)
  /\ \A f \in Rows(facts) :
       /\ facts[f].supports \subseteq RowsOf(links, facts[f].case)
       /\ facts[f].scope.kind # "CASE" =>
            facts[f].scope.row \in RowsOf(TableOf(facts[f].scope.kind), facts[f].case)
       /\ Cardinality({g \in Current(facts, facts[f].case) : facts[g].group = facts[f].group}) = 1
       /\ facts[f].scope = facts[facts[f].group].scope
  /\ \A b \in Rows(bindings) :
       /\ bindings[b].item \in OneOf(RowsOf(items, bindings[b].case))
       /\ Message[bindings[b].message].agency = CaseAgency[bindings[b].case]

(* A prompt shows exactly the case data its reader reviewed, although only *)
(* the case itself is locked: no change of a record elsewhere gets past    *)
(* the revision and the digest.                                            *)
PromptsShowWhatWasReviewed == \A p \in Rows(prompts) : prompts[p].data = prompts[p].reviewed

\* The intake of a case, notes and workflow apart.
Intake(c) ==
  <<[cases[c] EXCEPT !.workflow = None, !.version = None, !.archived = None],
    Content(links, RowsOf(links, c)), Content(items, RowsOf(items, c)),
    Content(works, RowsOf(works, c)),
    Content(mappings, RowsOf(mappings, c)), Content(facts, RowsOf(facts, c)),
    Content(bindings, RowsOf(bindings, c))>>

(* While the revision of a case stands still so does everything recorded   *)
(* in its intake, and an archived case changes only by being restored.     *)
MaterialMovesRevision ==
  [][\A c \in DOMAIN cases \intersect DOMAIN cases' :
      /\ cases'[c].revision \in {cases[c].revision, cases[c].revision + 1}
      /\ cases'[c].revision = cases[c].revision \/ cases[c].archived => Intake(c)' = Intake(c)]_vars
=============================================================================
