---------------------------- MODULE DirectoryPages ----------------------------
(***************************************************************************)
(* The pages of the directory, of routes and mandates and the form that    *)
(* records a source (apps/web/src/app: directory, representation, sources).*)
(*                                                                         *)
(* A page is the set of requests it offers while it shows the rows as they *)
(* are: its buttons, its links to forms, and what the pickers of a form    *)
(* leave to choose.  Each page was written apart from the service that     *)
(* answers it and sees less: its own record, a few lists, and what the     *)
(* server said when it refused.  A form may also begin with what the       *)
(* address that led to it names.  Layout, search and paging of lists are   *)
(* left out; a stale page is refused by its ETag, which DirectoryRecords   *)
(* leaves out with every other failed precondition.                        *)
(***************************************************************************)
EXTENDS DirectoryRecords

\* A request for i without a body to speak of; a new state for i.
Asks(kind, i) == [kind |-> kind, id |-> i, also |-> {}, state |-> "-"]
Moves(i, state) == [kind |-> "setState", id |-> i, also |-> {}, state |-> state]

\* The ids a create may still be given, and the records a list shows.
New(type) == {i \in Of(type) : rows[i] = Absent}
Listed(type) == {i \in Of(type) : Present(i)}
Items(type) == {i \in Listed(type) : ~rows[i].archived}

----------------------------------------------------------------------------
(* What every page is made of.                                             *)

recordState(i) == IF rows[i].archived THEN "ARCHIVED" ELSE rows[i].state
isBound(i) == rows[i].bound

\* Draft and active are each other's target; there is no way out of an archived
\* record but to restore it.
StateButtons(i) ==
  LET target == IF recordState(i) = "ACTIVE" THEN "DRAFT" ELSE "ACTIVE"
  IN  IF recordState(i) = "ARCHIVED" THEN {Asks("restore", i)}
      ELSE {Asks("archive", i), Moves(i, target)}

DeleteButton(i, blocked) ==
  IF recordState(i) = "DRAFT" /\ ~isBound(i) /\ ~blocked THEN {Asks("delete", i)} ELSE {}

RecordStateActions(i, edit, blocked) ==
  StateButtons(i) \union DeleteButton(i, blocked)
    \union (IF recordState(i) # "ARCHIVED" THEN edit ELSE {})

\* The buttons of a record whose archiving leaves its state alone; drafts are the
\* only signers to delete, and any route or mandate may be.
KeptStateActions(i, edit, states, drafted) ==
  IF rows[i].archived THEN {Asks("restore", i)}
  ELSE {Asks("archive", i)} \union edit
         \union {Moves(i, s) : s \in states \ {rows[i].state}}
         \union (IF drafted /\ ~isBound(i) THEN {Asks("delete", i)} ELSE {})

SignerActions(i, edit) == KeptStateActions(i, edit, SignerStates, rows[i].state = "DRAFT")
RouteActions(i, edit) == KeptStateActions(i, edit, LinkStates, TRUE)
MandateActions(i, edit) == KeptStateActions(i, edit, {}, TRUE)

CanonicalBindingSection(i) ==
  IF ~isBound(i) /\ ~rows[i].archived THEN {Asks("bindCanonical", i)} ELSE {}

----------------------------------------------------------------------------
(* Agencies and legal subjects.                                            *)

\* The form sees that the record is active or bound; that another record names
\* it, it learns from a refusal ("told").
established(i, told) == told \/ recordState(i) = "ACTIVE" \/ isBound(i)

\* What the form of an established record can still send changes no identity.
AgencyForm(i, told) == IF established(i, told) THEN {} ELSE {Asks("patchIdentity", i)}
LegalSubjectForm(i, told) == IF established(i, told) THEN {} ELSE {Asks("patchIdentity", i)}

\* Its signers and its mandates are listed with a link to the form of a new one.
CreatesFor(type, agencies) == {Asks("create", i) : i \in {x \in New(type) : AgencyOf[x] \in agencies}}
AgencySigners(a) == {s \in Listed(Signer) : AgencyOf[s] = a}
AddSigner(a) == IF recordState(a) = "ARCHIVED" THEN {} ELSE CreatesFor(Signer, {a})
AgencyMandates(a) == IF recordState(a) = "ARCHIVED" THEN {} ELSE CreatesFor(Mandate, {a})

AgencyDetail(a, told) ==
  RecordStateActions(a, AgencyForm(a, told), AgencySigners(a) # {})
    \union CanonicalBindingSection(a) \union AddSigner(a) \union AgencyMandates(a)

NewAgencyPage == {Asks("create", i) : i \in New(Agency)}

NewLegalSubjectPage == {Asks("create", i) : i \in New(LegalSubject)}
LegalSubjectDetail(s, told) ==
  RecordStateActions(s, LegalSubjectForm(s, told), FALSE) \union CanonicalBindingSection(s)

----------------------------------------------------------------------------
(* Owners and their associations.                                          *)

allLinks(o) == {a \in Listed(OwnerSubject) : OwnerOf[a] = o}

\* Every association is offered the states it is not in, on its own page and on its
\* owner's, archived or not.
OwnerSubjectDetail(a) == {Moves(a, s) : s \in LinkStates \ {rows[a].state}}
LinkButtons(a) == {Moves(a, s) : s \in LinkStates \ {rows[a].state}}

\* The subjects of an owner: those not archived and not linked yet, in any state.
LinkSubjectForm(o) ==
  {Asks("create", a) : a \in {x \in New(OwnerSubject) :
     /\ OwnerOf[x] = o
     /\ SubjectOf[x] \in Items(LegalSubject) \ {SubjectOf[l] : l \in allLinks(o)}}}

OwnerSubjects(o) ==
  (UNION {LinkButtons(a) : a \in allLinks(o)})
    \union (IF recordState(o) # "ARCHIVED" THEN LinkSubjectForm(o) ELSE {})

NewOwnerPage == {Asks("create", i) : i \in New(Owner)}
OwnerForm(o) == {Asks("patchIdentity", o)}

OwnerDetail(o) ==
  RecordStateActions(o, OwnerForm(o), allLinks(o) # {})
    \union CanonicalBindingSection(o) \union OwnerSubjects(o)

----------------------------------------------------------------------------
(* Signers and mandates.                                                   *)

\* The form that edits a signer locks the name of a bound one.
SignerForm(s) == IF isBound(s) THEN {} ELSE {Asks("patchIdentity", s)}

\* The agency is picked among those not archived, or comes with the address: the list
\* adds the agency it is filtered by, whatever its state, to its link to the form,
\* which asks no more than that there be one.
NewSignerPage == CreatesFor(Signer, Items(Agency))
SignerListPage == CreatesFor(Signer, Listed(Agency))

SignerDetail(s) == SignerActions(s, SignerForm(s)) \union CanonicalBindingSection(s)

MandatePatchForm(m) == {Asks("patchIdentity", m)}
\* The same of mandates.
NewMandatePage == CreatesFor(Mandate, Items(Agency))
MandateListPage == CreatesFor(Mandate, Listed(Agency))

MandateDetail(m) == MandateActions(m, MandatePatchForm(m)) \union CanonicalBindingSection(m)

----------------------------------------------------------------------------
(* Routes.                                                                 *)

\* (mutant) Signers that have ended are offered.
SignersNotArchived(a) == {s \in Items(Signer) : AgencyOf[s] = a}

eligible(a) == {s \in Items(Signer) : AgencyOf[s] = a /\ rows[s].state # "ENDED"}

\* No default signer, or one of those.
DefaultSigners(kind, t) ==
  [kind : {kind}, id : {t}, also : {{}} \union {{s} : s \in eligible(AgencyOf[t])}, state : {"-"}]

linkItems(owners) == {l \in Listed(OwnerSubject) : OwnerOf[l] \in owners /\ rows[l].state = "LINKED"}

RouteCreateForm(agencies, links) ==
  UNION {DefaultSigners("create", t) :
           t \in {x \in New(Route) : AgencyOf[x] \in agencies /\ AssociationOf[x] \in links}}

\* The agency and the owner are picked among those not archived; or the address names
\* one of them, and the form takes it as it is: the agency of a case that finds no
\* route to bind, the owner of a link whose page led to the form.
NewRoutePage == RouteCreateForm(Items(Agency), linkItems(Items(Owner)))

\* (Of the routes to bind, those of an organisation's subject are not told apart.)
operational(agency) == {t \in Listed(Route) : RouteUsableForCase(t, agency)}
RouteBindingDialog(k) ==
  IF operational(AgencyOf[k]) = {} THEN RouteCreateForm({AgencyOf[k]}, linkItems(Items(Owner))) ELSE {}

RoutesOfLink(l) == IF rows[l].state = "LINKED" THEN RouteCreateForm(Items(Agency), {l}) ELSE {}

RoutePatchForm(t) == DefaultSigners("patchReference", t)

RouteDetail(t) == RouteActions(t, RoutePatchForm(t)) \union CanonicalBindingSection(t)

----------------------------------------------------------------------------
(* Sources.                                                                *)

\* A new source names agencies, legal subjects and cases that are not archived.
ScopeItems == Items(Agency) \union Items(LegalSubject) \union Items(CaseRecord)
SourceForm == {Asks("create", x) : x \in {y \in New(SourceReference) : Scope[y] \subseteq ScopeItems}}

----------------------------------------------------------------------------
(* What the pages offer, and what the server makes of it.                  *)

\* What is offered of the lists and records that a page shows.  "told" are the records
\* that the server has called established.
Picked(told) ==
  (UNION {AgencyDetail(a, a \in told) : a \in Listed(Agency)}) \union
  (UNION {LegalSubjectDetail(s, s \in told) : s \in Listed(LegalSubject)}) \union
  (UNION {OwnerDetail(o) : o \in Listed(Owner)}) \union
  (UNION {SignerDetail(s) : s \in Listed(Signer)}) \union
  (UNION {MandateDetail(m) : m \in Listed(Mandate)}) \union
  (UNION {RouteDetail(t) : t \in Listed(Route)}) \union
  (UNION {OwnerSubjectDetail(a) : a \in Listed(OwnerSubject)}) \union
  NewAgencyPage \union NewLegalSubjectPage \union NewOwnerPage \union
  NewSignerPage \union NewMandatePage \union NewRoutePage \union SourceForm

\* What is offered by the forms that a link opens with an agency or an owner in its
\* address.
Preset ==
  SignerListPage \union MandateListPage \union
  (UNION {RouteBindingDialog(k) : k \in Items(CaseRecord)}) \union
  (UNION {RoutesOfLink(l) : l \in Listed(OwnerSubject)})

\* The requests there are about these types, on records and parties that exist.
Possible ==
  {c \in UNION {CommandsOn(i) : i \in Ids \ Of(CaseRecord)} :
     IF c.kind = "create"
     THEN rows[c.id] = Absent /\ \A i \in PartiesOf(c) : Present(i)
     ELSE \A i \in {c.id} \union c.also : Present(i)}

\* What the server reads and no page does: who else names a record; the parties of
\* a record that is restored or linked again; the routes of an association; the
\* subject, and the twin, of a new route.
Unseen(c) ==
  \/ c.kind = "delete" /\ dependencyReasons(c.id) # {}
  \/ c.kind = "restore" /\ ~RestorePermitted(c)
  \/ /\ c.kind = "setState" /\ Has(c.id, {OwnerSubject})
     /\ \/ c.state = "UNLINKED" /\ ~UnlinkPermitted(c.id)
        \/ c.state = "LINKED" /\ ~Unarchived({OwnerOf[c.id], SubjectOf[c.id]})
  \/ /\ c.kind = "setState" /\ Has(c.id, {Route}) /\ c.state = "LINKED"
     /\ ~PartiesUsable(c.id) \/ rows[AssociationOf[c.id]].state # "LINKED"
  \/ /\ c.kind = "create" /\ Has(c.id, {Route})
     /\ \/ rows[RouteSubject(c.id)].archived
        \/ RoutesBetween(AgencyOf[c.id], AssociationOf[c.id]) # {}

\* What a page has read and a form with a preset does not look at: that the agency or
\* the owner of the new record is archived.
Overlooked(c) ==
  \/ rows[AgencyOf[c.id]].archived
  \/ Has(c.id, {Route}) /\ rows[RouteOwner(c.id)].archived

Quiet == \A r \in Requests : pc[r] \in {"idle", "done"}

\* Whatever the directory has come to hold, its pages hide nothing the server would
\* do, and offer of what they show nothing it would refuse, but for the facts that no
\* page reads.  Once the server has called a record established, its form offers no
\* identity that would be refused again.  A form that begins with what an address
\* names does not mirror the server: it offers an archived agency or owner, which is
\* refused, and that is all it offers in vain (record-actions.tsx, agencies.tsx,
\* owners.tsx, signers.tsx:302, mandates.tsx:496, routes.tsx:504 and the others
\* against the services of modules/directory and modules/representation).
DirectoryPagesMirror ==
  Quiet =>
    LET told == {i \in Listed(Agency) \union Listed(LegalSubject) : establishedBy(i)}
        permitted == {c \in Possible : Permitted(c)}
    IN  /\ {c \in Picked(told) : ~Unseen(c)} = permitted
        /\ permitted \subseteq Picked({})
        /\ \A c \in Preset : ~Unseen(c) => (c \in permitted <=> ~Overlooked(c))
=============================================================================
