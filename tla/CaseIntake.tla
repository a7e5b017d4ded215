----------------------------- MODULE CaseIntake -----------------------------
(***************************************************************************)
(* The records of a case (modules/cases, modules/correspondence): the case *)
(* itself, its links to sources, works, reported items, use mappings, fact *)
(* revisions, bindings of captured messages and authority selections.      *)
(*                                                                         *)
(* Every one of these writes first locks its CaseRecord FOR UPDATE, so the *)
(* writes of one case run one after another and each is one step here.     *)
(* Keys, If-Match and refusals (a refused write changes nothing) are the   *)
(* business of IdempotentWrite.  A row's id is its place in its table.     *)
(*                                                                         *)
(* Records of other parts of the system change under a case's feet: an     *)
(* agency or route is archived or paused, another owner's records begin to *)
(* cite a source, a source is revised, a message captured, the recorded    *)
(* authority moves.                                                        *)
(***************************************************************************)
EXTENDS SourceScope, Naturals, Sequences, FiniteSets, Functions

CONSTANTS
  Routes, Messages, Videos, Occurrences, Roles, Texts, Codes, Workflows, Provenances,
  Route,          \* [Routes -> [agency, owner, subject]]
  Message,        \* [Messages -> [agency, sources, mode]]: as captured
  CaseAgency,     \* [Cases -> Agencies]
  Canonical,      \* the sources recorded as CANONICAL_RECORD
  Reviewed,       \* the sources recorded as DOCUMENT_REVIEWED
  Firsts,         \* the states of the tables an instance begins with
  MaxChanges      \* bounds the versions of the cases and the changes elsewhere, taken together

ASSUME RecordsAssumption ==
  /\ Route \in [Routes -> [agency : Agencies, owner : Owners, subject : Subjects]]
  /\ CaseAgency \in [Cases -> Agencies]
  /\ "INTAKE" \in Workflows
  /\ None \notin Routes \union Codes /\ None \notin Nat
  /\ \A m \in Messages : Message[m] # None
  /\ None \notin {"CASE_SUBJECT_UNBOUND", "SCOPED_TO_OTHER_SUBJECT", "CROSS_OWNER_REFERENCE"}

VARIABLES
  cases,          \* [the cases there are -> their rows]
  links, works, items, mappings, facts, bindings, selections, prompts, \* tables: sequences
  outside         \* what other parts of the system record

tables == <<links, works, items, mappings, facts, bindings, selections, prompts>>
vars == <<cases, tables, outside>>

----------------------------------------------------------------------------
(* Rows                                                                    *)

Rows(table) == 1 .. Len(table)
RowsOf(table, c) == {i \in Rows(table) : table[i].case = c}
Unarchived(table, c) == {i \in RowsOf(table, c) : ~table[i].archived}

NewCase(rt, hint) ==
  [archived |-> FALSE, route |-> rt, hint |-> hint, packet |-> None, code |-> None,
   canonical |-> None, workflow |-> "INTAKE", selection |-> None, revision |-> 1, version |-> 1]

Archived(table, i, flag) == [table EXCEPT ![i].archived = flag]

\* The revisions of facts and the bindings nothing supersedes.
Superseded(table) == {table[i].supersedes : i \in Rows(table)}
Current(table, c) == RowsOf(table, c) \ Superseded(table)

HeadGroup(f) == IF f = None THEN Len(facts) + 1 ELSE facts[f].group

----------------------------------------------------------------------------
(* Locking a case and moving its versions                                  *)

lockCase(c) == c \in DOMAIN cases
Writable(c) == lockCase(c) /\ ~cases[c].archived

Moved(row, material) ==
  [row EXCEPT !.version = @ + 1, !.revision = IF material THEN @ + 1 ELSE @]

\* The case's row after a write that leaves its own columns alone.
touchCase(c, material) == cases' = [cases EXCEPT ![c] = Moved(@, material)]

----------------------------------------------------------------------------
(* The parties and sources a case may name                                 *)

caseTargetWith(c, rt) ==
  Target("Case", c, CaseAgency[c], IF rt = None THEN None ELSE Route[rt].owner,
         IF rt = None THEN None ELSE Route[rt].subject)
caseTarget(c) == caseTargetWith(c, cases[c].route)

Usable(s, target) == applicabilityProblem(s, target, outside.users[s]) = None
UsableOrNone(s, target) == s # None => Usable(s, target)

RouteUsable(rt, c) ==
  /\ Route[rt].agency = CaseAgency[c]
  /\ outside.routes[rt] = "LINKED"
  /\ {CaseAgency[c], Route[rt].owner} \intersect outside.archived = {}

OwnerHintFits(hint, rt) == hint # None /\ rt # None => hint = Route[rt].owner

\* What pins a case's route.  (Candidates only exist after a prompt.)
HasHistory(c) ==
  \/ RowsOf(selections, c) # {}
  \/ RowsOf(facts, c) # {}
  \/ RowsOf(prompts, c) # {}
  \/ RowsOf(bindings, c) # {}

\* The sources a case relies on through its columns, links and mappings.
ReliedOn(c) ==
  ({cases[c].canonical, cases[c].packet} \ {None})
  \union {links[i].source : i \in {j \in RowsOf(links, c) : links[j].state # "UNLINKED"}}
  \union ({mappings[m].basis : m \in Unarchived(mappings, c)} \ {None})

CaseSourcesFit(c, rt) == \A s \in ReliedOn(c) : Usable(s, caseTargetWith(c, rt))

----------------------------------------------------------------------------
(* The case record (cases.service.ts)                                      *)

HintUsable(hint, rt) == hint # None => hint \notin outside.archived /\ OwnerHintFits(hint, rt)

CreateCase(c, rt, hint) ==
  /\ c \notin DOMAIN cases
  /\ CaseAgency[c] \notin outside.archived
  /\ rt # None => RouteUsable(rt, c)
  /\ HintUsable(hint, rt)
  /\ cases' = [d \in DOMAIN cases \union {c} |->
                 IF d = c THEN NewCase(rt, hint) ELSE cases[d]]
  /\ UNCHANGED <<tables, outside>>

\* Only what is given changes.  (Labels move the revision as the hint does, notes do not.)
PatchCase(c, hint, packet) ==
  LET row == [cases[c] EXCEPT !.hint = hint, !.packet = packet]
  IN /\ Writable(c)
     /\ hint # cases[c].hint => HintUsable(hint, cases[c].route)
     /\ packet # cases[c].packet => UsableOrNone(packet, caseTarget(c))
     /\ cases' = [cases EXCEPT ![c] = Moved(row, row # cases[c])]
     /\ UNCHANGED <<tables, outside>>

DeleteCase(c) ==
  /\ Writable(c) /\ cases[c].code = None
  /\ \A table \in {links, works, items, mappings, facts, bindings, selections, prompts} :
       RowsOf(table, c) = {}
  /\ \A s \in Sources : c \notin Scope[s].cases
  /\ cases' = [d \in DOMAIN cases \ {c} |-> cases[d]]
  /\ UNCHANGED <<tables, outside>>

ArchiveCase(c) ==
  /\ Writable(c)
  /\ cases' = [cases EXCEPT ![c] = Moved([@ EXCEPT !.archived = TRUE], FALSE)]
  /\ UNCHANGED <<tables, outside>>

RestoreCase(c) ==
  /\ lockCase(c) /\ cases[c].archived
  /\ CaseAgency[c] \notin outside.archived
  /\ cases[c].route # None => outside.routes[cases[c].route] # "ARCHIVED"
  /\ cases' = [cases EXCEPT ![c] = Moved([@ EXCEPT !.archived = FALSE], FALSE)]
  /\ UNCHANGED <<tables, outside>>

SetWorkflow(c, state) ==
  /\ Writable(c) /\ cases[c].workflow # state
  /\ cases' = [cases EXCEPT ![c] = Moved([@ EXCEPT !.workflow = state], FALSE)]
  /\ UNCHANGED <<tables, outside>>

BindRoute(c, rt) ==
  /\ Writable(c) /\ cases[c].route # rt
  /\ cases[c].route # None => ~HasHistory(c)
  /\ RouteUsable(rt, c)
  /\ OwnerHintFits(cases[c].hint, rt)
  /\ CaseSourcesFit(c, rt)
  /\ cases' = [cases EXCEPT ![c] = Moved([@ EXCEPT !.route = rt], TRUE)]
  /\ UNCHANGED <<tables, outside>>

BindCanonical(c, code, s) ==
  /\ Writable(c) /\ cases[c].code = None
  /\ Usable(s, caseTarget(c))
  /\ s \in Canonical \ outside.superseded
  /\ \A d \in DOMAIN cases : cases[d].code # code
  /\ cases' = [cases EXCEPT ![c] = Moved([@ EXCEPT !.code = code, !.canonical = s], TRUE)]
  /\ UNCHANGED <<tables, outside>>

\* The chain it pins is AuthorityRecords'.
SelectAuthority(c, basis) ==
  LET rt == cases[c].route
      row == [cases[c] EXCEPT !.selection = Len(selections) + 1]
  IN /\ Writable(c) /\ rt # None
     /\ RouteUsable(rt, c)
     /\ UsableOrNone(basis, caseTarget(c))
     /\ selections' = Append(selections, [case |-> c, route |-> rt, basis |-> basis])
     /\ cases' = [cases EXCEPT ![c] = Moved(row, TRUE)]
     /\ UNCHANGED <<links, works, items, mappings, facts, bindings, prompts, outside>>

----------------------------------------------------------------------------
(* Its source links (case-sources.service.ts)                              *)

OtherThanLinks == <<works, items, mappings, facts, bindings, selections, prompts, outside>>

LinkSource(c, s, role) ==
  /\ Writable(c)
  /\ \A i \in RowsOf(links, c) : <<links[i].source, links[i].role>> # <<s, role>>
  /\ Usable(s, caseTarget(c))
  /\ links' = Append(links, [case |-> c, source |-> s, role |-> role, state |-> "LINKED"])
  /\ touchCase(c, TRUE)
  /\ UNCHANGED OtherThanLinks

SetLinkState(i, state) ==
  LET c == links[i].case
  IN /\ Writable(c) /\ links[i].state # state
     /\ state = "LINKED" => Usable(links[i].source, caseTarget(c))
     /\ links' = [links EXCEPT ![i].state = state]
     /\ touchCase(c, TRUE)
     /\ UNCHANGED OtherThanLinks

----------------------------------------------------------------------------
(* Its works and reported items (case-works, reported-items)               *)

OtherThanWorks == <<links, items, mappings, facts, bindings, selections, prompts, outside>>
OtherThanItems == <<links, works, mappings, facts, bindings, selections, prompts, outside>>

CreateWork(c, title) ==
  /\ Writable(c)
  /\ works' = Append(works, [case |-> c, title |-> title, archived |-> FALSE])
  /\ touchCase(c, TRUE)
  /\ UNCHANGED OtherThanWorks

\* (The notes are not modelled: they move neither version of the case.)
PatchWork(w, title) ==
  /\ Writable(works[w].case) /\ ~works[w].archived
  /\ works[w].title # title
  /\ works' = [works EXCEPT ![w].title = title]
  /\ touchCase(works[w].case, TRUE)
  /\ UNCHANGED OtherThanWorks

SetWorkArchivedUntouched(w, flag) ==
  /\ Writable(works[w].case) /\ works[w].archived # flag
  /\ works' = Archived(works, w, flag)
  /\ UNCHANGED cases
  /\ UNCHANGED OtherThanWorks
SetWorkArchived(w, flag) ==
  /\ Writable(works[w].case) /\ works[w].archived # flag
  /\ works' = Archived(works, w, flag)
  /\ touchCase(works[w].case, TRUE)
  /\ UNCHANGED OtherThanWorks

CreateItem(c, video, title) ==
  /\ Writable(c)
  /\ \A i \in RowsOf(items, c) : items[i].video # video
  /\ items' = Append(items, [case |-> c, video |-> video, title |-> title, archived |-> FALSE])
  /\ touchCase(c, TRUE)
  /\ UNCHANGED OtherThanItems

PatchItem(i, title) ==
  /\ Writable(items[i].case) /\ ~items[i].archived
  /\ items[i].title # title
  /\ items' = [items EXCEPT ![i].title = title]
  /\ touchCase(items[i].case, TRUE)
  /\ UNCHANGED OtherThanItems

SetItemArchived(i, flag) ==
  /\ Writable(items[i].case) /\ items[i].archived # flag
  /\ items' = Archived(items, i, flag)
  /\ touchCase(items[i].case, TRUE)
  /\ UNCHANGED OtherThanItems

----------------------------------------------------------------------------
(* Its use mappings (use-mappings.service.ts)                              *)

OtherThanMappings == <<links, works, items, facts, bindings, selections, prompts, outside>>

\* A row a request names belongs to the case and is not archived.
BodyChildOfAnyCase(table, c, i) == i \in Rows(table) /\ ~table[i].archived
BodyChild(table, c, i) == i \in Unarchived(table, c)

BasisReviewed(provenance, basis) == provenance = "DOCUMENT_REVIEWED" => basis \in Reviewed

PartiesUnarchived(m) == ~works[mappings[m].work].archived /\ ~items[mappings[m].item].archived

CreateMapping(c, w, i, occurrence, provenance, basis) ==
  /\ Writable(c)
  /\ BodyChild(works, c, w) /\ BodyChild(items, c, i)
  /\ \A m \in Rows(mappings) :
       <<mappings[m].work, mappings[m].item, mappings[m].occurrence>> # <<w, i, occurrence>>
  /\ UsableOrNone(basis, caseTarget(c))
  /\ BasisReviewed(provenance, basis)
  /\ mappings' = Append(mappings,
       [case |-> c, work |-> w, item |-> i, occurrence |-> occurrence,
        provenance |-> provenance, basis |-> basis, archived |-> FALSE])
  /\ touchCase(c, TRUE)
  /\ UNCHANGED OtherThanMappings

PatchMapping(m, provenance, basis) ==
  LET c == mappings[m].case
      row == [mappings[m] EXCEPT !.provenance = provenance, !.basis = basis]
  IN /\ Writable(c) /\ ~mappings[m].archived
     /\ PartiesUnarchived(m)
     /\ row # mappings[m]
     /\ basis # mappings[m].basis => UsableOrNone(basis, caseTarget(c))
     /\ BasisReviewed(provenance, basis)
     /\ mappings' = [mappings EXCEPT ![m] = row]
     /\ touchCase(c, TRUE)
     /\ UNCHANGED OtherThanMappings

ArchiveMapping(m) ==
  /\ Writable(mappings[m].case) /\ ~mappings[m].archived
  /\ mappings' = Archived(mappings, m, TRUE)
  /\ touchCase(mappings[m].case, TRUE)
  /\ UNCHANGED OtherThanMappings

RestoreMappingOnTrust(m) ==
  /\ Writable(mappings[m].case) /\ mappings[m].archived
  /\ PartiesUnarchived(m)
  /\ mappings' = Archived(mappings, m, FALSE)
  /\ touchCase(mappings[m].case, TRUE)
  /\ UNCHANGED OtherThanMappings
RestoreMapping(m) ==
  LET c == mappings[m].case
  IN /\ Writable(c) /\ mappings[m].archived
     /\ PartiesUnarchived(m)
     /\ UsableOrNone(mappings[m].basis, caseTarget(c))
     /\ mappings' = Archived(mappings, m, FALSE)
     /\ touchCase(c, TRUE)
     /\ UNCHANGED OtherThanMappings

----------------------------------------------------------------------------
(* Its facts (case-facts.service.ts).  A fact is about the case, or about  *)
(* one work, item or mapping of it; a revision keeps that scope.           *)

TableOf(kind) == CASE kind = "WORK" -> works [] kind = "ITEM" -> items [] kind = "USE" -> mappings

Scopes(c) ==
  {[kind |-> "CASE", row |-> None]} \union
  UNION {{[kind |-> k, row |-> i] : i \in Unarchived(TableOf(k), c)} : k \in {"WORK", "ITEM", "USE"}}

\* Every link it names is LINKED and of this case, and its source applies now.
SupportsHold(c, supports) ==
  \A i \in supports :
    /\ links[i].case = c /\ links[i].state = "LINKED"
    /\ Usable(links[i].source, caseTarget(c))

RecordFact(c, head, scope, provenance, supports) ==
  /\ Writable(c)
  /\ head # None =>
       head \in Current(facts, c) /\ facts[head].scope = scope
  /\ SupportsHold(c, supports)
  /\ scope \in Scopes(c)
  /\ provenance = "DOCUMENT_REVIEWED" => \E i \in supports : links[i].source \in Reviewed
  /\ facts' = Append(facts,
       [case |-> c, group |-> HeadGroup(head), supersedes |-> head, scope |-> scope,
        provenance |-> provenance, supports |-> supports])
  /\ touchCase(c, TRUE)
  /\ UNCHANGED <<links, works, items, mappings, bindings, selections, prompts, outside>>

----------------------------------------------------------------------------
(* What a case reads into the correspondence captured for its agency       *)
(* (modules/correspondence).                                               *)

BindCorrespondence(c, m, item, event, earlier) ==
  /\ Writable(c)
  /\ m \in outside.captured /\ Message[m].agency = CaseAgency[c]
  /\ item # None => BodyChild(items, c, item)
  /\ event = "OUTCOME" => item # None
  /\ earlier # None => earlier \in Current(bindings, c) /\ bindings[earlier].message = m
  /\ bindings' = Append(bindings,
       [case |-> c, message |-> m, item |-> item, event |-> event, supersedes |-> earlier])
  /\ touchCase(c, TRUE)
  /\ UNCHANGED <<links, works, items, mappings, facts, selections, prompts, outside>>

----------------------------------------------------------------------------
(* What the rest of the system records meanwhile.  A source serves the     *)
(* records of at most one owner (AuthorityRecords, SourcesServeOneOwner).  *)

Elsewhere(change) ==
  /\ outside' = [change EXCEPT !.changes = @ + 1]
  /\ UNCHANGED <<cases, tables>>

CaptureCorrespondence(m) ==
  /\ m \notin outside.captured
  /\ Message[m].agency \notin outside.archived
  /\ \A s \in Message[m].sources : Usable(s, AgencyTarget(Message[m].agency))
  /\ Elsewhere([outside EXCEPT !.captured = @ \union {m}])

SetPartyArchived(p) ==
  Elsewhere([outside EXCEPT !.archived = IF p \in @ THEN @ \ {p} ELSE @ \union {p}])

SetRouteState(rt, state) ==
  outside.routes[rt] # state /\ Elsewhere([outside EXCEPT !.routes[rt] = state])

OwnerTargets == {RouteTarget(Route[rt]) : rt \in Routes} \union {OwnerTarget(o) : o \in Owners}

CiteForOwner(s, target) ==
  /\ outside.users[s] = {} /\ scopeProblem(s, target) = None
  /\ Elsewhere([outside EXCEPT !.users[s] = {target.owner}])

CeaseCiting(s) == outside.users[s] # {} /\ Elsewhere([outside EXCEPT !.users[s] = {}])

ReviseSource(s) ==
  s \notin outside.superseded /\ Elsewhere([outside EXCEPT !.superseded = @ \union {s}])

MoveAuthority(rt) == Elsewhere([outside EXCEPT !.authority[rt] = @ + 1])

----------------------------------------------------------------------------
(* Types and steps                                                         *)

OneOf(S) == S \union {None}

CaseRows ==
  [archived : BOOLEAN, route : OneOf(Routes), hint : OneOf(Owners), packet : OneOf(Sources),
   code : OneOf(Codes), canonical : OneOf(Sources), workflow : Workflows, selection : OneOf(Nat), revision : Nat, version : Nat]
LinkRows ==
  [case : Cases, source : Sources, role : Roles, state : {"LINKED", "PAUSED", "UNLINKED"}]
WorkRows == [case : Cases, title : Texts, archived : BOOLEAN]
ItemRows == [case : Cases, video : Videos, title : Texts, archived : BOOLEAN]
MappingRows ==
  [case : Cases, work : Nat, item : Nat, occurrence : Occurrences, provenance : Provenances,
   basis : OneOf(Sources), archived : BOOLEAN]
FactRows ==
  [case : Cases, group : Nat, supersedes : OneOf(Nat),
   scope : [kind : {"CASE", "WORK", "ITEM", "USE"}, row : OneOf(Nat)],
   provenance : Provenances, supports : SUBSET Nat]
BindingRows ==
  [case : Cases, message : Messages, item : OneOf(Nat), event : {"NMI", "AS_SENT", "OUTCOME"},
   supersedes : OneOf(Nat)]
SelectionRows == [case : Cases, route : Routes, basis : OneOf(Sources)]
OutsideRows ==
  [archived : SUBSET (Agencies \union Owners), routes : [Routes -> {"LINKED", "PAUSED", "ARCHIVED"}],
   users : [Sources -> SUBSET Owners], superseded : SUBSET Sources, captured : SUBSET Messages,
   authority : [Routes -> Nat], changes : Nat]

\* The writes of one case.
CaseSteps(c) ==
  \/ \E hint \in OneOf(Owners), packet \in OneOf(Sources) : PatchCase(c, hint, packet)
  \/ DeleteCase(c)
  \/ ArchiveCase(c)
  \/ RestoreCase(c)
  \/ \E state \in Workflows : SetWorkflow(c, state)
  \/ \E rt \in Routes : BindRoute(c, rt)
  \/ \E code \in Codes, s \in Sources : BindCanonical(c, code, s)
  \/ \E basis \in OneOf(Sources) : SelectAuthority(c, basis)
  \/ \E s \in Sources, role \in Roles : LinkSource(c, s, role)
  \/ \E title \in Texts : CreateWork(c, title)
  \/ \E video \in Videos, title \in Texts : CreateItem(c, video, title)
  \/ \E w \in Rows(works), i \in Rows(items), o \in Occurrences, p \in Provenances,
        basis \in OneOf(Sources) : CreateMapping(c, w, i, o, p, basis)
  \/ \E head \in OneOf(Rows(facts)), scope \in Scopes(c), p \in Provenances,
        supports \in SUBSET Rows(links) : RecordFact(c, head, scope, p, supports)
  \/ \E m \in outside.captured, item \in OneOf(Rows(items)), event \in {"NMI", "AS_SENT", "OUTCOME"},
        earlier \in OneOf(Rows(bindings)) : BindCorrespondence(c, m, item, event, earlier)

\* The writes that name a row of a case.
RowSteps ==
  \/ \E i \in Rows(links), state \in {"LINKED", "PAUSED", "UNLINKED"} : SetLinkState(i, state)
  \/ \E w \in Rows(works), title \in Texts : PatchWork(w, title)
  \/ \E w \in Rows(works), flag \in BOOLEAN : SetWorkArchived(w, flag)
  \/ \E i \in Rows(items), title \in Texts : PatchItem(i, title)
  \/ \E i \in Rows(items), flag \in BOOLEAN : SetItemArchived(i, flag)
  \/ \E m \in Rows(mappings), p \in Provenances, basis \in OneOf(Sources) :
       PatchMapping(m, p, basis)
  \/ \E m \in Rows(mappings) : ArchiveMapping(m) \/ RestoreMapping(m)

OutsideSteps ==
  \/ \E m \in Messages : CaptureCorrespondence(m)
  \/ \E p \in Agencies \union Owners : SetPartyArchived(p)
  \/ \E rt \in Routes, state \in {"LINKED", "PAUSED", "ARCHIVED"} : SetRouteState(rt, state)
  \/ \E s \in Sources, target \in OwnerTargets : CiteForOwner(s, target)
  \/ \E s \in Sources : CeaseCiting(s) \/ ReviseSource(s)
  \/ \E rt \in Routes : MoveAuthority(rt)

Changes == outside.changes + FoldFunction(LAMBDA row, n : row.version + n, 0, cases)

IntakeSteps ==
  /\ Changes < MaxChanges
  /\ \/ \E c \in Cases, rt \in OneOf(Routes), hint \in OneOf(Owners) : CreateCase(c, rt, hint)
     \/ \E c \in Cases : CaseSteps(c)
     \/ RowSteps
     \/ OutsideSteps
=============================================================================
