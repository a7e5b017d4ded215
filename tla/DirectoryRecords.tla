--------------------------- MODULE DirectoryRecords ---------------------------
(***************************************************************************)
(* The directory (modules/directory): agencies, legal subjects, owners,    *)
(* their associations and signers; with the routes and mandates            *)
(* (modules/representation), cases and sources that name them.             *)
(*                                                                         *)
(* Every write is one READ COMMITTED transaction: it takes the row locks   *)
(* its service lists, one at a time; checks what it read under them; and   *)
(* writes.  Whether a record is used, and what its parties' states are, is *)
(* read and not stored, so the rules hold only if the write that would     *)
(* break one and the write that relies on it lock a row in common.         *)
(*                                                                         *)
(* A row keeps what other rows' rules read.  What it names for good is a   *)
(* constant; what it names for now is its field "also" (a route's default  *)
(* signer; a case's owner hint and route).  The locks on cited sources,    *)
(* which come last, are those of AuthorityRecords.                         *)
(***************************************************************************)
EXTENDS RowLocks

CONSTANTS
  Ids,               \* a set of numbers, in the order of the ids
  TypeOf,            \* [Ids -> the type of the row of that id]
  AgencyOf,          \* of each route, signer, mandate and case
  OwnerOf, SubjectOf,    \* of each association
  AssociationOf,     \* of each route
  Scope,             \* the agencies, subjects and cases each source is bound to
  Firsts,            \* what the rows may be at first
  None

VARIABLES
  rows,              \* [Ids -> Row]
  command,           \* [Requests -> what each asks for, while it runs]
  pc                 \* [Requests -> where its transaction stands]

vars == <<rows, command, pc, plan, taken>>

Agency == 1
LegalSubject == 2
Owner == 3
OwnerSubject == 4
Route == 5
Signer == 6
Mandate == 7
CaseRecord == 8
SourceReference == 9

Of(type) == {i \in Ids : TypeOf[i] = type}
Has(i, types) == TypeOf[i] \in types

Lifecycle == {Agency, LegalSubject, Owner}   \* directory/lifecycle.ts
Linked == {OwnerSubject, Route}
LinkStates == {"LINKED", "PAUSED", "UNLINKED"}
SignerStates == {"DRAFT", "AVAILABLE", "PAUSED", "ENDED"}

\* The states a request may ask for.
StatesOf(type) ==
  CASE type \in Lifecycle -> {"DRAFT", "ACTIVE"}
    [] type \in Linked -> LinkStates
    [] type = Signer -> SignerStates
    [] OTHER -> {}

\* A row as it is created.
NewRow(i, also) ==
  [state |-> IF Has(i, Linked) THEN "LINKED" ELSE "DRAFT",
   archived |-> FALSE, identity |-> 0, bound |-> FALSE, also |-> also]

\* There is no row yet; there is none any more.
Absent == [state |-> "ABSENT"]
Deleted == [state |-> "DELETED"]

Row ==
  [state : {"DRAFT", "ACTIVE"} \union LinkStates \union SignerStates, archived : BOOLEAN,
   identity : 0 .. 1, bound : BOOLEAN, also : SUBSET Ids]

ASSUME IdsAssumption ==
  /\ IsFiniteSet(Ids) /\ Ids \subseteq Nat /\ None \notin Ids
  /\ TypeOf \in [Ids -> Agency .. SourceReference]
ASSUME PartiesAssumption ==
  /\ AgencyOf \in [Of(Route) \union Of(Signer) \union Of(Mandate) \union Of(CaseRecord) -> Of(Agency)]
  /\ OwnerOf \in [Of(OwnerSubject) -> Of(Owner)]
  /\ SubjectOf \in [Of(OwnerSubject) -> Of(LegalSubject)]
  /\ AssociationOf \in [Of(Route) -> Of(OwnerSubject)]
  /\ Scope \in [Of(SourceReference) -> SUBSET (Of(Agency) \union Of(LegalSubject) \union Of(CaseRecord))]

\* What a row names for good.
NamedForGood(i) ==
  UNION {IF Has(i, {OwnerSubject}) THEN {OwnerOf[i], SubjectOf[i]} ELSE {},
         IF Has(i, {Route}) THEN {AgencyOf[i], AssociationOf[i]} ELSE {},
         IF Has(i, {Signer, Mandate, CaseRecord}) THEN {AgencyOf[i]} ELSE {},
         IF Has(i, {SourceReference}) THEN Scope[i] ELSE {}}

\* A row is in a state of its type, or a draft where there are none; and there is no
\* column to archive an association by.
Fits(i, row) ==
  /\ row.state \in IF StatesOf(TypeOf[i]) = {} THEN {"DRAFT"} ELSE StatesOf(TypeOf[i])
  /\ Has(i, {OwnerSubject}) => ~row.archived

\* The rows there are at first are sound: each fits its type, what they name is
\* there, and no linked route hangs on an unlinked association.
ASSUME FirstsAssumption ==
  \A first \in Firsts :
    /\ first \in [Ids -> Row \union {Absent}]
    /\ \A i \in Ids : first[i] # Absent => Fits(i, first[i])
    /\ \A i \in Ids : first[i] # Absent =>
         \A j \in first[i].also \union NamedForGood(i) : first[j] # Absent
    /\ \A t \in Of(Route) : first[t] # Absent /\ first[t].state = "LINKED" =>
         first[AssociationOf[t]].state # "UNLINKED"

Present(i) == rows[i] \notin {Absent, Deleted}
RouteOwner(t) == OwnerOf[AssociationOf[t]]
RouteSubject(t) == SubjectOf[AssociationOf[t]]

----------------------------------------------------------------------------
(* Which records name which.                                               *)

\* The foreign keys of i's row (records.ts DIRECT_REFERENCES).
ForeignKeys(i) ==
  rows[i].also \union
  (IF Has(i, {OwnerSubject}) THEN {OwnerOf[i], SubjectOf[i]} ELSE {}) \union
  (IF Has(i, {Route}) THEN {AssociationOf[i]} ELSE {}) \union
  (IF Has(i, {Route, Signer, Mandate, CaseRecord}) THEN {AgencyOf[i]} ELSE {})

\* The records named in the JSON of i's row (records.ts SNAPSHOT_JSON_COLUMNS).
SnapshotColumns(i) == IF Has(i, {SourceReference}) THEN Scope[i] ELSE {}

directReferences(i) == {j \in Ids : Present(j) /\ i \in ForeignKeys(j)}
snapshotReferences(i) == {j \in Ids : Present(j) /\ i \in SnapshotColumns(j)}

dependencyReasons(i) == directReferences(i) \union snapshotReferences(i)

\* (mutant) Only the foreign keys count.
EstablishedByKey(i) == rows[i].state = "ACTIVE" \/ rows[i].bound \/ directReferences(i) # {}

establishedBy(i) == rows[i].state = "ACTIVE" \/ rows[i].bound \/ dependencyReasons(i) # {}

----------------------------------------------------------------------------
(* What clients ask for.                                                   *)

\* What the row that is created or patched may name besides its parties.
Also(kind, i) ==
  CASE Has(i, {Route}) /\ kind \in {"create", "patchReference"} ->
         {{}} \union {{s} : s \in Of(Signer)}
    [] Has(i, {CaseRecord}) /\ kind = "create" ->
         {h \union t : h \in {{}} \union {{o} : o \in Of(Owner)},
                       t \in {{}} \union {{u} : u \in Of(Route)}}
    [] Has(i, {CaseRecord}) /\ kind = "patchReference" -> {{}} \union {{o} : o \in Of(Owner)}
    [] OTHER -> {{}}

\* The kinds of operation each type of record has.
KindsOf(type) ==
  {"create"} \union
  (IF type = SourceReference THEN {}
   ELSE IF type = OwnerSubject THEN {"setState"}
   ELSE {"archive", "restore", "delete", "bindCanonical"}
          \union (IF type \in {Route, CaseRecord} THEN {"patchReference"} ELSE {"patchIdentity"})
          \union (IF StatesOf(type) = {} THEN {} ELSE {"setState"}))

CommandsOn(i) ==
  UNION {[kind : {k}, id : {i}, also : Also(k, i),
          state : IF k = "setState" THEN StatesOf(TypeOf[i]) ELSE {"-"}] : k \in KindsOf(TypeOf[i])}

Commands == UNION {CommandsOn(i) : i \in Ids}

\* The records a new record names.
PartiesOf(c) ==
  {j \in Ids :
     \/ j \in c.also
     \/ Has(c.id, {OwnerSubject}) /\ j \in {OwnerOf[c.id], SubjectOf[c.id]}
     \/ Has(c.id, {Route}) /\ j \in {AgencyOf[c.id], AssociationOf[c.id],
                                     RouteOwner(c.id), RouteSubject(c.id)}
     \/ Has(c.id, {Signer, Mandate, CaseRecord}) /\ j = AgencyOf[c.id]
     \/ Has(c.id, {SourceReference}) /\ j \in Scope[c.id]}

----------------------------------------------------------------------------
(* Row locks, in the order of the types (records.ts) and of the ids.       *)

Shares(type, ids) ==
  LET s == InOrder(ids \intersect Of(type))
  IN  [n \in 1 .. Len(s) |-> ForShare(type, s[n])]

RouteParties(t) ==
  <<ForShare(Agency, AgencyOf[t]), ForShare(LegalSubject, RouteSubject(t)),
    ForShare(Owner, RouteOwner(t)), ForShare(OwnerSubject, AssociationOf[t])>>

RoutePlan(c) ==
  CASE c.kind = "create" -> RouteParties(c.id) \o Shares(Signer, c.also)
    [] c.kind \in {"restore", "setState"} -> Append(RouteParties(c.id), ForUpdate(Route, c.id))
    [] c.kind = "patchReference" -> <<ForUpdate(Route, c.id)>> \o Shares(Signer, c.also)
    [] OTHER -> <<ForUpdate(Route, c.id)>>

\* (mutant) The owner of the path is locked first.
OwnerSubjectPlanOwnerFirst(c) ==
  <<ForUpdate(Owner, OwnerOf[c.id]), ForUpdate(LegalSubject, SubjectOf[c.id])>>
    \o IF c.kind = "create" THEN <<>> ELSE <<ForUpdate(OwnerSubject, c.id)>>

OwnerSubjectPlan(c) ==
  <<ForUpdate(LegalSubject, SubjectOf[c.id]), ForUpdate(Owner, OwnerOf[c.id])>>
    \o IF c.kind = "create" THEN <<>> ELSE <<ForUpdate(OwnerSubject, c.id)>>

CasePlan(c) ==
  LET bound == c.also \intersect Of(Route)
  IN CASE c.kind = "create" ->
            Shares(Agency, {AgencyOf[c.id]} \union {AgencyOf[t] : t \in bound})
              \o Shares(LegalSubject, {RouteSubject(t) : t \in bound})
              \o Shares(Owner, c.also \union {RouteOwner(t) : t \in bound})
              \o Shares(OwnerSubject, {AssociationOf[t] : t \in bound})
              \o Shares(Route, bound)
       [] c.kind = "patchReference" -> Append(Shares(Owner, c.also), ForUpdate(CaseRecord, c.id))
       [] OTHER -> <<ForUpdate(CaseRecord, c.id)>>

\* (mutant) Only the agencies, which have a foreign key, are locked.
ScopePlanAgenciesOnly(c) == Shares(Agency, Scope[c.id])

ScopePlan(c) ==
  Shares(Agency, Scope[c.id]) \o Shares(LegalSubject, Scope[c.id]) \o Shares(CaseRecord, Scope[c.id])

\* A signer's and a mandate's agency is locked to create it, a mandate's to restore it.
OfAgencyPlan(c) ==
  (IF c.kind = "create" \/ (c.kind = "restore" /\ Has(c.id, {Mandate}))
   THEN <<ForShare(Agency, AgencyOf[c.id])>> ELSE <<>>)
    \o IF c.kind = "create" THEN <<>> ELSE <<ForUpdate(TypeOf[c.id], c.id)>>

RecordPlan(c) ==
  CASE Has(c.id, {Route}) -> RoutePlan(c)
    [] Has(c.id, {OwnerSubject}) -> OwnerSubjectPlan(c)
    [] Has(c.id, {CaseRecord}) -> CasePlan(c)
    [] Has(c.id, {SourceReference}) -> ScopePlan(c)
    [] Has(c.id, {Signer, Mandate}) -> OfAgencyPlan(c)
    [] OTHER -> IF c.kind = "create" THEN <<>> ELSE <<ForUpdate(TypeOf[c.id], c.id)>>

----------------------------------------------------------------------------
(* What is checked under the locks.                                        *)

Unarchived(S) == \A i \in S : ~rows[i].archived

\* A route never activates an archived agency, owner or subject.
PartiesUsable(t) == Unarchived({AgencyOf[t], RouteSubject(t), RouteOwner(t)})

RouteUsableForCase(t, agency) ==
  /\ AgencyOf[t] = agency
  /\ Unarchived({t}) /\ rows[t].state = "LINKED"
  /\ PartiesUsable(t)
  /\ rows[AssociationOf[t]].state = "LINKED"

OwnerHintFits(also) ==
  \A o \in also \intersect Of(Owner), t \in also \intersect Of(Route) : o = RouteOwner(t)

SignerUsable(s, agency) ==
  AgencyOf[s] = agency /\ Unarchived({s}) /\ rows[s].state # "ENDED"

RoutesBetween(agency, association) ==
  {t \in Of(Route) : Present(t) /\ AgencyOf[t] = agency /\ AssociationOf[t] = association}

Associations(owner, subject) ==
  {a \in Of(OwnerSubject) : Present(a) /\ OwnerOf[a] = owner /\ SubjectOf[a] = subject}

CreatePermitted(c) ==
  /\ Unarchived(PartiesOf(c) \ Of(OwnerSubject))
  /\ Has(c.id, {OwnerSubject}) => Associations(OwnerOf[c.id], SubjectOf[c.id]) = {}
  /\ Has(c.id, {Route}) =>
       /\ rows[AssociationOf[c.id]].state = "LINKED"
       /\ RoutesBetween(AgencyOf[c.id], AssociationOf[c.id]) = {}
       /\ \A s \in c.also : SignerUsable(s, AgencyOf[c.id])
  /\ Has(c.id, {CaseRecord}) =>
       /\ \A t \in c.also \intersect Of(Route) : RouteUsableForCase(t, AgencyOf[c.id])
       /\ OwnerHintFits(c.also)

PatchPermitted(c) ==
  /\ Unarchived({c.id})
  /\ Has(c.id, {Agency, LegalSubject}) => ~establishedBy(c.id)
  /\ Has(c.id, {Signer}) => ~rows[c.id].bound
  /\ Has(c.id, {Route}) => \A s \in c.also : SignerUsable(s, AgencyOf[c.id])
  /\ Has(c.id, {CaseRecord}) =>
       Unarchived(c.also) /\ OwnerHintFits(c.also \union (rows[c.id].also \intersect Of(Route)))

\* (mutant) An archived route does not stand in the way.
UnlinkPermittedUnlessArchived(a) ==
  \A t \in Of(Route) :
    Present(t) /\ AssociationOf[t] = a /\ ~rows[t].archived => rows[t].state = "UNLINKED"

UnlinkPermitted(a) ==
  \A t \in Of(Route) : Present(t) /\ AssociationOf[t] = a => rows[t].state = "UNLINKED"

SetStatePermitted(c) ==
  /\ Unarchived({c.id}) /\ rows[c.id].state # c.state
  /\ Has(c.id, {OwnerSubject}) =>
       /\ c.state = "UNLINKED" => UnlinkPermitted(c.id)
       /\ c.state = "LINKED" => Unarchived({OwnerOf[c.id], SubjectOf[c.id]})
  /\ Has(c.id, {Route}) /\ c.state = "LINKED" =>
       PartiesUsable(c.id) /\ rows[AssociationOf[c.id]].state = "LINKED"

\* A case's agency and route are read without a lock of their own.
RestorePermitted(c) ==
  /\ rows[c.id].archived
  /\ Has(c.id, {Route}) => PartiesUsable(c.id)
  /\ Has(c.id, {Mandate}) => Unarchived({AgencyOf[c.id]})
  /\ Has(c.id, {CaseRecord}) =>
       Unarchived({AgencyOf[c.id]} \union (rows[c.id].also \intersect Of(Route)))

\* An unused, unbound and unarchived record, and a DRAFT where there are drafts.
DeletePermitted(c) ==
  /\ Unarchived({c.id}) /\ ~rows[c.id].bound
  /\ Has(c.id, Lifecycle \union {Signer}) => rows[c.id].state = "DRAFT"
  /\ dependencyReasons(c.id) = {}

Permitted(c) ==
  /\ \A i \in IF c.kind = "create" THEN PartiesOf(c) ELSE {c.id} \union c.also : Present(i)
  /\ c.kind = "create" => CreatePermitted(c)
  /\ c.kind \in {"patchIdentity", "patchReference"} => PatchPermitted(c)
  /\ c.kind = "setState" => SetStatePermitted(c)
  /\ c.kind = "archive" => Unarchived({c.id})
  /\ c.kind = "restore" => RestorePermitted(c)
  /\ c.kind = "delete" => DeletePermitted(c)
  /\ c.kind = "bindCanonical" => Unarchived({c.id}) /\ ~rows[c.id].bound

----------------------------------------------------------------------------
NoCommand == [kind |-> "none"]

Init ==
  /\ rows \in Firsts
  /\ command = [r \in Requests |-> NoCommand]
  /\ pc = [r \in Requests |-> "idle"]
  /\ plan = [r \in Requests |-> <<>>]
  /\ taken = [r \in Requests |-> 0]

\* The rows a request names are there when it arrives; a new id is its own.
Begin(r) ==
  /\ pc[r] = "idle"
  /\ \E c \in Commands :
       /\ IF c.kind = "create"
          THEN rows[c.id] = Absent /\ \A q \in Requests : command[q] # NoCommand => command[q].id # c.id
                 /\ \A i \in PartiesOf(c) : Present(i)
          ELSE \A i \in {c.id} \union c.also : Present(i)
       /\ command' = [command EXCEPT ![r] = c]
       /\ plan' = [plan EXCEPT ![r] = RecordPlan(c)]
  /\ pc' = [pc EXCEPT ![r] = "locks"]
  /\ UNCHANGED <<rows, taken>>

TakeLock(r) ==
  /\ Take(r)
  /\ UNCHANGED <<rows, command, pc>>

Check(r) ==
  /\ pc[r] = "locks" /\ Locked(r)
  /\ Permitted(command[r])
  /\ pc' = [pc EXCEPT ![r] = "commit"]
  /\ UNCHANGED <<rows, command, plan, taken>>

Ends(r) ==
  /\ command' = [command EXCEPT ![r] = NoCommand]
  /\ pc' = [pc EXCEPT ![r] = "done"]
  /\ ReleaseLocks(r)

\* A check fails, If-Match does not match, or the connection is lost.
Refuse(r) ==
  /\ pc[r] \in {"locks", "commit"}
  /\ Ends(r)
  /\ UNCHANGED rows

\* What r wrote becomes visible.
Commits(r, kind, type) ==
  /\ pc[r] = "commit"
  /\ command[r].kind = kind /\ Has(command[r].id, {type})
  /\ Ends(r)

Writes(r, row) == rows' = [rows EXCEPT ![command[r].id] = row]

Creates(r, type) ==
  Commits(r, "create", type) /\ Writes(r, NewRow(command[r].id, command[r].also))
PatchesIdentity(r, type) ==
  Commits(r, "patchIdentity", type) /\ Writes(r, [rows[command[r].id] EXCEPT !.identity = 1 - @])
Deletes(r, type) == Commits(r, "delete", type) /\ Writes(r, Deleted)
Binds(r, type) ==
  Commits(r, "bindCanonical", type) /\ Writes(r, [rows[command[r].id] EXCEPT !.bound = TRUE])

\* archive, restore and the states a request asks for.  An archived agency, legal
\* subject or owner is restored to DRAFT.
Archives(r, type) ==
  /\ Commits(r, "archive", type)
  /\ Writes(r, [rows[command[r].id] EXCEPT
                  !.archived = TRUE, !.state = IF type \in Lifecycle THEN "DRAFT" ELSE @])
Restores(r, type) ==
  Commits(r, "restore", type) /\ Writes(r, [rows[command[r].id] EXCEPT !.archived = FALSE])
SetsState(r, type) ==
  Commits(r, "setState", type) /\ Writes(r, [rows[command[r].id] EXCEPT !.state = command[r].state])
Transition(r, type) == Archives(r, type) \/ Restores(r, type) \/ SetsState(r, type)

createAgency(r) == Creates(r, Agency)
patchAgency(r) == PatchesIdentity(r, Agency)
transitionAgency(r) == Transition(r, Agency)
deleteUnusedAgency(r) == Deletes(r, Agency)
bindCanonicalAgency(r) == Binds(r, Agency)

createLegalSubject(r) == Creates(r, LegalSubject)
patchLegalSubject(r) == PatchesIdentity(r, LegalSubject)
transitionLegalSubject(r) == Transition(r, LegalSubject)
deleteUnusedLegalSubject(r) == Deletes(r, LegalSubject)
bindCanonicalLegalSubject(r) == Binds(r, LegalSubject)

createOwner(r) == Creates(r, Owner)
patchOwner(r) == PatchesIdentity(r, Owner)
transitionOwner(r) == Transition(r, Owner)
deleteUnusedOwner(r) == Deletes(r, Owner)
bindCanonicalOwner(r) == Binds(r, Owner)

linkOwnerSubject(r) == Creates(r, OwnerSubject)
setOwnerSubjectLinkState(r) == SetsState(r, OwnerSubject)

createSigner(r) == Creates(r, Signer)
patchSigner(r) == PatchesIdentity(r, Signer)
transitionSigner(r) == Transition(r, Signer)
deleteUnusedSigner(r) == Deletes(r, Signer)
bindCanonicalSigner(r) == Binds(r, Signer)

createMandate(r) == Creates(r, Mandate)
patchMandate(r) == PatchesIdentity(r, Mandate)
transitionMandate(r) == Archives(r, Mandate) \/ Restores(r, Mandate)
deleteUnusedMandate(r) == Deletes(r, Mandate)
bindCanonicalMandate(r) == Binds(r, Mandate)

\* The unique key of agency, association and platform is the last word.
createRoute(r) ==
  LET t == command[r].id IN
  /\ Creates(r, Route)
  /\ RoutesBetween(AgencyOf[t], AssociationOf[t]) = {}
patchRoute(r) ==
  /\ Commits(r, "patchReference", Route)
  /\ Writes(r, [rows[command[r].id] EXCEPT !.also = command[r].also])
transitionRoute(r) == Archives(r, Route) \/ Restores(r, Route)
setRouteLinkState(r) == SetsState(r, Route)
deleteUnusedRoute(r) == Deletes(r, Route)
bindCanonicalRoute(r) == Binds(r, Route)

createCase(r) == Creates(r, CaseRecord)
patchCase(r) ==
  /\ Commits(r, "patchReference", CaseRecord)
  /\ Writes(r, [rows[command[r].id] EXCEPT !.also = (@ \intersect Of(Route)) \union command[r].also])
transitionCase(r) == Archives(r, CaseRecord) \/ Restores(r, CaseRecord)
deleteUnusedCase(r) == Deletes(r, CaseRecord)
bindCanonicalCase(r) == Binds(r, CaseRecord)

createSource(r) == Creates(r, SourceReference)

DirectoryWrites(r) ==
  \/ createAgency(r) \/ patchAgency(r) \/ transitionAgency(r) \/ deleteUnusedAgency(r)
  \/ bindCanonicalAgency(r)
  \/ createLegalSubject(r) \/ patchLegalSubject(r) \/ transitionLegalSubject(r)
  \/ deleteUnusedLegalSubject(r) \/ bindCanonicalLegalSubject(r)
  \/ createOwner(r) \/ patchOwner(r) \/ transitionOwner(r) \/ deleteUnusedOwner(r)
  \/ bindCanonicalOwner(r)
  \/ linkOwnerSubject(r) \/ setOwnerSubjectLinkState(r)
  \/ createSigner(r) \/ patchSigner(r) \/ transitionSigner(r) \/ deleteUnusedSigner(r)
  \/ bindCanonicalSigner(r)

OtherWrites(r) ==
  \/ createMandate(r) \/ patchMandate(r) \/ transitionMandate(r) \/ deleteUnusedMandate(r)
  \/ bindCanonicalMandate(r)
  \/ createRoute(r) \/ patchRoute(r) \/ transitionRoute(r) \/ setRouteLinkState(r)
  \/ deleteUnusedRoute(r) \/ bindCanonicalRoute(r)
  \/ createCase(r) \/ patchCase(r) \/ transitionCase(r) \/ deleteUnusedCase(r)
  \/ bindCanonicalCase(r)
  \/ createSource(r)

Next ==
  \E r \in Requests :
    \/ Begin(r) \/ TakeLock(r) \/ Check(r) \/ Refuse(r)
    \/ DirectoryWrites(r) \/ OtherWrites(r)

Spec == Init /\ [][Next]_vars

----------------------------------------------------------------------------
(* Properties.                                                             *)

\* Rows, commands and locks have their types, and no two transactions hold locks
\* that conflict (records.ts lockForUpdate, lockForShare).
TypeOK ==
  /\ rows \in [Ids -> Row \union {Absent, Deleted}]
  /\ pc \in [Requests -> {"idle", "locks", "commit", "done"}]
  /\ \A r \in Requests :
       /\ IF pc[r] \in {"idle", "done"} THEN command[r] = NoCommand /\ plan[r] = <<>>
          ELSE command[r] \in Commands
       /\ taken[r] \in 0 .. Len(plan[r])
       /\ \A q \in Requests \ {r} : \A l \in Held(r), m \in Held(q) : ~Conflict(l, m)

\* Every record that row i names, wherever the name is stored.
Names(i) == rows[i].also \union NamedForGood(i)

\* No record names one that has been deleted, in a foreign key or in JSON that no
\* key guards, however the write that names it and the deletion overlap
\* (records.ts dependencyReasons, source-rules.ts assertScopeRecords).
NothingDangles == \A i \in Ids : Present(i) => \A j \in Names(i) : Present(j)

\* A linked route never hangs on an association that is unlinked; and no two
\* transactions are about to link the same owner and subject, so that the unique
\* key is never what refuses the second (owner-subjects.service.ts link,
\* setLinkState; routes.service.ts create, setLinkState).
LinksStand ==
  /\ \A t \in Of(Route) :
       Present(t) /\ rows[t].state = "LINKED" => rows[AssociationOf[t]].state # "UNLINKED"
  /\ \A r \in Requests : pc[r] = "commit" /\ command[r].kind = "create" =>
       LET a == command[r].id IN
       Has(a, {OwnerSubject}) => Associations(OwnerOf[a], SubjectOf[a]) = {}

\* The identity of an agency or legal subject that is active, bound or named by
\* any record does not change, even when the record that names it is written
\* while the patch runs (records.ts establishedBy, agencies.service.ts patch).
EstablishedIdentityStays ==
  [][\A i \in Of(Agency) \union Of(LegalSubject) :
       Present(i) /\ (\/ rows[i].state = "ACTIVE"
                      \/ rows[i].bound
                      \/ \E j \in Ids : Present(j) /\ i \in Names(j))
         => Present(i)' /\ rows'[i].identity = rows[i].identity]_vars

\* No writes of the directory wait for each other in a circle, whatever types and
\* ids they lock (records.ts lock order).
WaitsNeverCircle == \A S \in SUBSET Requests : ~WaitInCircle(S)
=============================================================================
