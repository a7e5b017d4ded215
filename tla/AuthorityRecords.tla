--------------------------- MODULE AuthorityRecords ---------------------------
(***************************************************************************)
(* The representation records (modules/representation), the selections of  *)
(* authority and route bindings of the cases (modules/cases), and which    *)
(* owner's material a source is (modules/sources/source-scope.ts).         *)
(*                                                                         *)
(* Every write is one READ COMMITTED transaction that takes the row locks  *)
(* its service lists, one at a time; checks what it read under them; locks *)
(* the sources it cites; checks whose material they are; and writes.  The  *)
(* rules that only the order and the kind of these locks enforce are the   *)
(* properties.  If-Match, and refusals over immutable data, are Refuse.    *)
(*                                                                         *)
(* One agency.  A route stands for itself and its owner, legal subject and *)
(* their association.  A new row is named by the request that inserts it.  *)
(***************************************************************************)
EXTENDS RowLocks, FiniteSets, SequencesExt

CONSTANTS
  Routes, Owners, Signers, Mandates, Cases, TheAgency, None,
  Sources,         \* their ids, in the order of the ids
  OwnerOf,         \* [Routes -> Owners]
  CaseSources,     \* [Cases -> the sources a case cites, in the order of its uses]
  FirstVersions, FirstCoverages, FirstEntries,  \* the rows there are at first, by id
  FirstBinding,    \* [Cases -> the route each is bound to at first]
  Kinds            \* the operations the instance runs

VARIABLES
  agencyArchived,    \* BOOLEAN
  usable,            \* the signers neither archived nor ENDED
  archivedMandates,
  routes, versions, coverages,
  entries,           \* the coverage signers
  events, cases, selections,
  command,           \* [Requests -> what each asks for, while it runs]
  pc                 \* [Requests -> where its transaction stands]

records == <<agencyArchived, usable, archivedMandates, routes, versions,
             coverages, entries, events, cases, selections>>
vars == <<records, command, pc, plan, taken>>

VersionIds == Requests \union DOMAIN FirstVersions
CoverageIds == Requests \union DOMAIN FirstCoverages
EntryIds == Requests \union DOMAIN FirstEntries
SomeSource == Sources \union {None}

NoVersion == [mandate |-> None, state |-> "ABSENT", predecessor |-> None, source |-> None]
NoCoverage == [version |-> None, route |-> None, source |-> None]
NoEntry == [coverage |-> None, signer |-> None, source |-> None]
NoEvent == [mandate |-> None, coverage |-> None, source |-> None]
NoSelection == [case |-> None, route |-> None, signer |-> None, coverage |-> None]
NoCommand == [kind |-> "none"]

VersionRows ==
  {NoVersion} \union
  [mandate : Mandates, state : {"DRAFT", "FROZEN"},
   predecessor : VersionIds \union {None}, source : SomeSource]
CoverageRows == {NoCoverage} \union [version : VersionIds, route : Routes, source : SomeSource]
EntryRows == {NoEntry} \union [coverage : CoverageIds, signer : Signers, source : SomeSource]
EventRows ==
  {NoEvent} \union [mandate : Mandates, coverage : CoverageIds \union {None}, source : Sources]
RouteRows ==
  [linked : BOOLEAN, archived : BOOLEAN, preferred : CoverageIds \union {None}, source : SomeSource]
CaseRows == [route : Routes \union {None}, selection : Requests \union {None}]
SelectionRows ==
  {NoSelection} \union [case : Cases, route : Routes, signer : Signers, coverage : CoverageIds]

\* The rows there are at first are sound.
ASSUME NoneAssumption ==
  None \notin Routes \union Mandates \union Cases \union Sources \union VersionIds
               \union CoverageIds \union EntryIds
ASSUME SourcesAssumption == IsFiniteSet(Sources) /\ Sources \subseteq Nat
ASSUME CasesAssumption ==
  /\ OwnerOf \in [Routes -> Owners]
  /\ CaseSources \in [Cases -> Seq(Sources)]
  /\ FirstBinding \in [Cases -> Routes \union {None}]
ASSUME FirstRowsAssumption ==
  /\ Requests \intersect (DOMAIN FirstVersions \union DOMAIN FirstCoverages
                             \union DOMAIN FirstEntries) = {}
  /\ FirstVersions \in [DOMAIN FirstVersions -> VersionRows \ {NoVersion}]
  /\ FirstCoverages \in [DOMAIN FirstCoverages -> CoverageRows \ {NoCoverage}]
  /\ FirstEntries \in [DOMAIN FirstEntries -> EntryRows \ {NoEntry}]
  /\ \A v \in DOMAIN FirstVersions : LET p == FirstVersions[v].predecessor IN p # None =>
       /\ p \in DOMAIN FirstVersions
       /\ \A w \in DOMAIN FirstVersions : FirstVersions[w].predecessor = p => w = v
  /\ \A c \in DOMAIN FirstCoverages : FirstCoverages[c].version \in DOMAIN FirstVersions
  /\ \A e \in DOMAIN FirstEntries : FirstEntries[e].coverage \in DOMAIN FirstCoverages
ASSUME FirstUsesAssumption ==
  \A u, w \in {<<OwnerOf[FirstCoverages[c].route], FirstCoverages[c].source>> :
                  c \in DOMAIN FirstCoverages}
               \union {<<OwnerOf[FirstCoverages[FirstEntries[e].coverage].route],
                         FirstEntries[e].source>> : e \in DOMAIN FirstEntries} :
    u[2] = w[2] /\ u[2] # None => u[1] = w[1]

CoveragesOf(v) == {c \in CoverageIds : coverages[c].version = v}
EntriesOf(c) == {e \in EntryIds : entries[e].coverage = c}

----------------------------------------------------------------------------
(* What clients ask for, with the immutable parents (a coverage's version, *)
(* a version's mandate) that the code reads before it locks.               *)

Commands ==
  {c \in
    [kind : {"archiveAgency", "restoreAgency"}]
    \union [kind : {"endSigner", "reinstateSigner"}, signer : Signers]
    \union [kind : {"archiveRoute", "restoreRoute", "linkRoute", "pauseRoute"}, route : Routes]
    \union [kind : {"bindCanonicalRoute"}, route : Routes, source : Sources]
    \union [kind : {"patchRoute"}, route : Routes, mandate : Mandates,
            version : VersionIds, coverage : CoverageIds]
    \union [kind : {"archiveMandate", "restoreMandate"}, mandate : Mandates]
    \union [kind : {"createVersion"}, mandate : Mandates,
            predecessor : VersionIds \union {None}, source : SomeSource]
    \union [kind : {"patchVersion"}, mandate : Mandates, version : VersionIds, source : SomeSource]
    \union [kind : {"freeze"}, mandate : Mandates, version : VersionIds]
    \union [kind : {"createCoverage"}, mandate : Mandates, version : VersionIds,
            route : Routes, source : SomeSource]
    \union [kind : {"patchCoverage"}, mandate : Mandates, version : VersionIds,
            coverage : CoverageIds, source : SomeSource]
    \union [kind : {"createSigner"}, mandate : Mandates, version : VersionIds,
            coverage : CoverageIds, signer : Signers, source : SomeSource]
    \union [kind : {"deleteSigner"}, mandate : Mandates, version : VersionIds,
            coverage : CoverageIds, entry : EntryIds]
    \union [kind : {"recordEvent"}, mandate : Mandates,
            coverage : CoverageIds \union {None}, source : Sources]
    \union [kind : {"bindRoute"}, case : Cases, route : Routes]
    \union [kind : {"select"}, case : Cases, route : Routes, signer : Signers,
            mandate : Mandates, version : VersionIds, coverage : CoverageIds,
            source : SomeSource]
   : c.kind \in Kinds}

NamesVersion == {"patchRoute", "patchVersion", "freeze", "createCoverage", "patchCoverage",
                 "createSigner", "deleteSigner", "select"}
NamesCoverage == {"patchRoute", "patchCoverage", "createSigner", "deleteSigner", "select"}

\* The rows the request names are there, with those parents.
Found(c) ==
  /\ c.kind \in NamesVersion => versions[c.version].mandate = c.mandate
  /\ c.kind \in NamesCoverage => coverages[c.coverage].version = c.version
  /\ c.kind = "deleteSigner" => entries[c.entry].coverage = c.coverage
  /\ c.kind = "createVersion" /\ c.predecessor # None => versions[c.predecessor] # NoVersion
  /\ c.kind = "recordEvent" /\ c.coverage # None => coverages[c.coverage] # NoCoverage

----------------------------------------------------------------------------
(* Row locks.  The types of rows are numbered in the order of records.ts.  *)

Agency == 1
Route == 2
Signer == 3
Mandate == 4
MandateVersion == 5
MandateCoverage == 6
CoverageSigner == 7
CaseRecord == 8
SourceReference == 9

\* (mutant) The version is only locked by the write that moves its row version.
CreateCoveragePlanUnlocked(c) ==
  <<ForShare(Agency, TheAgency), ForShare(Route, c.route), ForShare(Mandate, c.mandate)>>

CreateCoveragePlan(c) ==
  <<ForShare(Agency, TheAgency), ForShare(Route, c.route), ForShare(Mandate, c.mandate),
    ForUpdate(MandateVersion, c.version)>>

\* (mutant) The coverage is locked before its version.
PatchCoveragePlanChildFirst(c) ==
  <<ForShare(Mandate, c.mandate), ForUpdate(MandateCoverage, c.coverage),
    ForUpdate(MandateVersion, c.version)>>

PatchCoveragePlan(c) ==
  <<ForShare(Mandate, c.mandate), ForUpdate(MandateVersion, c.version),
    ForUpdate(MandateCoverage, c.coverage)>>

\* (mutant) The case is read, not locked.
SelectPlanCaseUnlocked(c) ==
  <<ForShare(Agency, TheAgency), ForShare(Route, c.route), ForShare(Signer, c.signer),
    ForShare(Mandate, c.mandate), ForShare(MandateVersion, c.version),
    ForShare(MandateCoverage, c.coverage)>>

\* (mutant) The mandate is read through its version, not locked.
SelectPlanMandateUnlocked(c) ==
  <<ForShare(Agency, TheAgency), ForShare(Route, c.route), ForShare(Signer, c.signer),
    ForShare(MandateVersion, c.version), ForShare(MandateCoverage, c.coverage),
    ForUpdate(CaseRecord, c.case)>>

SelectPlan(c) ==
  <<ForShare(Agency, TheAgency), ForShare(Route, c.route), ForShare(Signer, c.signer),
    ForShare(Mandate, c.mandate), ForShare(MandateVersion, c.version),
    ForShare(MandateCoverage, c.coverage), ForUpdate(CaseRecord, c.case)>>

\* archiveRoute, restoreRoute, setRouteLinkState, patchRoute, bindCanonicalRoute.
RoutePlan(c) ==
  CASE c.kind \in {"archiveRoute", "bindCanonicalRoute"} -> <<ForUpdate(Route, c.route)>>
    [] c.kind \in {"restoreRoute", "linkRoute", "pauseRoute"} ->
         <<ForShare(Agency, TheAgency), ForUpdate(Route, c.route)>>
    [] c.kind = "patchRoute" ->
         <<ForUpdate(Route, c.route), ForShare(Mandate, c.mandate),
           ForShare(MandateVersion, c.version), ForShare(MandateCoverage, c.coverage)>>

PatchVersionPlan(c) ==
  <<ForShare(Mandate, c.mandate), ForUpdate(MandateVersion, c.version)>>

FreezePlan(c) ==
  <<ForShare(Agency, TheAgency), ForShare(Mandate, c.mandate), ForUpdate(MandateVersion, c.version)>>

CreateSignerPlan(c) ==
  <<ForShare(Agency, TheAgency), ForShare(Signer, c.signer), ForShare(Mandate, c.mandate),
    ForUpdate(MandateVersion, c.version), ForUpdate(MandateCoverage, c.coverage)>>

DeleteSignerPlan(c) ==
  <<ForShare(Mandate, c.mandate), ForUpdate(MandateVersion, c.version),
    ForUpdate(MandateCoverage, c.coverage), ForUpdate(CoverageSigner, c.entry)>>

BindRoutePlan(c) ==
  <<ForShare(Agency, TheAgency), ForShare(Route, c.route), ForUpdate(CaseRecord, c.case)>>

\* The locks each operation takes before it checks anything.
RecordPlan(c) ==
  CASE c.kind \in {"archiveAgency", "restoreAgency"} -> <<ForUpdate(Agency, TheAgency)>>
    [] c.kind \in {"endSigner", "reinstateSigner"} -> <<ForUpdate(Signer, c.signer)>>
    [] c.kind \in {"archiveRoute", "bindCanonicalRoute", "restoreRoute", "linkRoute",
                   "pauseRoute", "patchRoute"} -> RoutePlan(c)
    [] c.kind = "archiveMandate" -> <<ForUpdate(Mandate, c.mandate)>>
    [] c.kind \in {"restoreMandate", "createVersion", "recordEvent"} ->
         <<ForShare(Agency, TheAgency), ForUpdate(Mandate, c.mandate)>>
    [] c.kind = "patchVersion" -> PatchVersionPlan(c)
    [] c.kind = "freeze" -> FreezePlan(c)
    [] c.kind = "createCoverage" -> CreateCoveragePlan(c)
    [] c.kind = "patchCoverage" -> PatchCoveragePlan(c)
    [] c.kind = "createSigner" -> CreateSignerPlan(c)
    [] c.kind = "deleteSigner" -> DeleteSignerPlan(c)
    [] c.kind = "bindRoute" -> BindRoutePlan(c)
    [] c.kind = "select" -> SelectPlan(c)

\* Every source that the version, its coverages and their signers cite.
Cited(v) ==
  ({versions[v].source} \union {coverages[c].source : c \in CoveragesOf(v)}
    \union {entries[e].source : e \in UNION {EntriesOf(c) : c \in CoveragesOf(v)}}) \ {None}

\* The sources it locks once its checks have passed.
SourcesOf(c) ==
  CASE c.kind \in {"createVersion", "createCoverage", "createSigner", "recordEvent",
                   "bindCanonicalRoute", "select"} -> {c.source} \ {None}
    [] c.kind = "patchVersion" -> {c.source} \ {None, versions[c.version].source}
    [] c.kind = "patchCoverage" -> {c.source} \ {None, coverages[c.coverage].source}
    [] c.kind = "freeze" -> Cited(c.version)
    [] OTHER -> {}

\* One pass in the order of the ids, except that a rebinding takes those of its
\* case one use after the other.
SourceOrders(c) ==
  IF c.kind = "bindRoute" THEN {CaseSources[c.case]}
  ELSE {s \in [1 .. Cardinality(SourcesOf(c)) -> SourcesOf(c)] :
          \A i, j \in DOMAIN s : i < j => s[i] < s[j]}

\* Written in the context of a mandate, which no owner is named in.
NamesNoOwner(c) ==
  c.kind \in {"createVersion", "patchVersion"} \/ (c.kind = "recordEvent" /\ c.coverage = None)

\* (mutant) Every source is locked for share.
SourceLockShared(c, source) == ForShare(SourceReference, source)

SourceLock(c, source) ==
  IF NamesNoOwner(c) THEN ForShare(SourceReference, source)
  ELSE ForUpdate(SourceReference, source)

----------------------------------------------------------------------------
(* What is checked under the record locks.                                 *)

UnderMandate == {"createVersion", "patchVersion", "freeze", "createCoverage", "patchCoverage",
                 "createSigner", "deleteSigner", "recordEvent", "archiveMandate",
                 "patchRoute", "select"}
OfDraft == {"patchVersion", "freeze", "createCoverage", "patchCoverage", "createSigner",
            "deleteSigner"}
OfFrozen == {"patchRoute", "select"}
UnderAgency == {"createVersion", "freeze", "createCoverage", "createSigner", "recordEvent",
                "restoreMandate", "restoreRoute", "linkRoute", "bindRoute", "select"}
OfUnarchivedRoute == {"archiveRoute", "linkRoute", "pauseRoute", "patchRoute",
                      "bindCanonicalRoute", "createCoverage", "bindRoute", "select"}

\* A predecessor is a frozen version of the mandate that no other succeeds.
PredecessorFits(mandate, predecessor, successor) ==
  predecessor # None =>
    /\ versions[predecessor].mandate = mandate
    /\ versions[predecessor].state = "FROZEN"
    /\ \A v \in VersionIds \ {successor} : versions[v].predecessor # predecessor

HasHistory(k) == \E s \in Requests : selections[s].case = k

Recorded(signer, coverage) == \E e \in EntriesOf(coverage) : entries[e].signer = signer

Permitted(r, c) ==
  /\ c.kind \in UnderMandate => c.mandate \notin archivedMandates
  /\ c.kind \in OfDraft => versions[c.version].state = "DRAFT"
  /\ c.kind \in OfFrozen =>
       versions[c.version].state = "FROZEN" /\ coverages[c.coverage].route = c.route
  /\ c.kind \in UnderAgency => ~agencyArchived
  /\ c.kind \in OfUnarchivedRoute => ~routes[c.route].archived
  /\ c.kind \in {"bindRoute", "select", "pauseRoute"} => routes[c.route].linked
  /\ c.kind \in {"createSigner", "select", "endSigner"} => c.signer \in usable
  /\ c.kind = "createVersion" => PredecessorFits(c.mandate, c.predecessor, r)
  /\ c.kind = "freeze" => PredecessorFits(c.mandate, versions[c.version].predecessor, c.version)
  /\ c.kind = "deleteSigner" => entries[c.entry].coverage = c.coverage
  /\ c.kind = "recordEvent" /\ c.coverage # None =>
       LET v == coverages[c.coverage].version
       IN  versions[v].mandate = c.mandate /\ versions[v].state = "FROZEN"
  /\ c.kind = "bindCanonicalRoute" => routes[c.route].source = None
  /\ c.kind = "bindRoute" =>
       cases[c.case].route # c.route /\ (cases[c.case].route # None => ~HasHistory(c.case))
  /\ c.kind = "select" => cases[c.case].route = c.route /\ Recorded(c.signer, c.coverage)
  /\ c.kind = "archiveAgency" => ~agencyArchived
  /\ c.kind = "restoreAgency" => agencyArchived
  /\ c.kind = "reinstateSigner" => c.signer \notin usable
  /\ c.kind = "restoreMandate" => c.mandate \in archivedMandates
  /\ c.kind = "restoreRoute" => routes[c.route].archived
  /\ c.kind = "linkRoute" => ~routes[c.route].linked

----------------------------------------------------------------------------
(* Whose material a source is.                                             *)

\* Each use of a source at the level of a route, with the owner of the route.
Uses ==
  {<<OwnerOf[rt], routes[rt].source>> : rt \in Routes}
    \union {<<OwnerOf[coverages[c].route], coverages[c].source>> :
              c \in {d \in CoverageIds : coverages[d] # NoCoverage}}
    \union {<<OwnerOf[coverages[entries[e].coverage].route], entries[e].source>> :
              e \in {d \in EntryIds : entries[d] # NoEntry}}
    \union {<<OwnerOf[coverages[events[e].coverage].route], events[e].source>> :
              e \in {d \in Requests : events[d].coverage # None}}

otherOwnerUsing(source, owner) ==
  source # None /\ \E u \in Uses : u[1] # owner /\ u[2] = source

\* The sources the request would use, each with the owner it would be used for.
Claims(c) ==
  CASE c.kind \in {"bindCanonicalRoute", "createCoverage", "select"} ->
         {<<OwnerOf[c.route], c.source>>}
    [] c.kind \in {"patchCoverage", "createSigner"} ->
         {<<OwnerOf[coverages[c.coverage].route], c.source>>}
    [] c.kind = "recordEvent" /\ c.coverage # None ->
         {<<OwnerOf[coverages[c.coverage].route], c.source>>}
    [] c.kind = "freeze" ->
         UNION {{<<OwnerOf[coverages[d].route], s>> :
                   s \in {coverages[d].source} \union {entries[e].source : e \in EntriesOf(d)}}
                : d \in CoveragesOf(c.version)}
    [] c.kind = "bindRoute" -> {<<OwnerOf[c.route], s>> : s \in ToSet(CaseSources[c.case])}
    [] OTHER -> {}

SourcesUsable(c) == \A u \in Claims(c) : ~otherOwnerUsing(u[2], u[1])

----------------------------------------------------------------------------
Init ==
  /\ agencyArchived = FALSE
  /\ usable = Signers
  /\ archivedMandates = {}
  /\ routes = [rt \in Routes |->
                [linked |-> TRUE, archived |-> FALSE, preferred |-> None, source |-> None]]
  /\ versions = [v \in VersionIds |->
                  IF v \in DOMAIN FirstVersions THEN FirstVersions[v] ELSE NoVersion]
  /\ coverages = [c \in CoverageIds |->
                   IF c \in DOMAIN FirstCoverages THEN FirstCoverages[c] ELSE NoCoverage]
  /\ entries = [e \in EntryIds |-> IF e \in DOMAIN FirstEntries THEN FirstEntries[e] ELSE NoEntry]
  /\ events = [r \in Requests |-> NoEvent]
  /\ cases = [k \in Cases |-> [route |-> FirstBinding[k], selection |-> None]]
  /\ selections = [r \in Requests |-> NoSelection]
  /\ command = [r \in Requests |-> NoCommand]
  /\ pc = [r \in Requests |-> "idle"]
  /\ plan = [r \in Requests |-> <<>>]
  /\ taken = [r \in Requests |-> 0]

Begin(r) ==
  /\ pc[r] = "idle"
  /\ \E c \in Commands :
       /\ Found(c)
       /\ command' = [command EXCEPT ![r] = c]
       /\ plan' = [plan EXCEPT ![r] = RecordPlan(c)]
  /\ pc' = [pc EXCEPT ![r] = "records"]
  /\ UNCHANGED <<records, taken>>

TakeLock(r) ==
  /\ Take(r)
  /\ UNCHANGED <<records, command, pc>>

\* The rows are read under their locks, and the sources are asked for.
Check(r) ==
  /\ pc[r] = "records" /\ Locked(r)
  /\ Permitted(r, command[r])
  /\ \E s \in SourceOrders(command[r]) :
       plan' = [plan EXCEPT ![r] = @ \o [i \in 1 .. Len(s) |-> SourceLock(command[r], s[i])]]
  /\ pc' = [pc EXCEPT ![r] = "sources"]
  /\ UNCHANGED <<records, command, taken>>

\* Other owners' uses are read under the locks on the sources.
CheckSources(r) ==
  /\ pc[r] = "sources" /\ Locked(r)
  /\ SourcesUsable(command[r])
  /\ pc' = [pc EXCEPT ![r] = "commit"]
  /\ UNCHANGED <<records, command, plan, taken>>

\* The transaction ends: its locks are released.
Ends(r) ==
  /\ command' = [command EXCEPT ![r] = NoCommand]
  /\ pc' = [pc EXCEPT ![r] = "done"]
  /\ ReleaseLocks(r)

\* A check fails, If-Match does not match, the database breaks a deadlock, or
\* the connection is lost: nothing is written.
Refuse(r) ==
  /\ pc[r] \in {"records", "sources", "commit"}
  /\ Ends(r)
  /\ UNCHANGED records

\* r writes what nobody else sees before it commits.
Commits(r, kind) ==
  /\ pc[r] = "commit"
  /\ command[r].kind = kind
  /\ Ends(r)

createMandateVersion(r) ==
  LET c == command[r] IN
  /\ Commits(r, "createVersion")
  /\ versions' = [versions EXCEPT ![r] = [mandate |-> c.mandate, state |-> "DRAFT",
                                          predecessor |-> c.predecessor, source |-> c.source]]
  /\ UNCHANGED <<agencyArchived, usable, archivedMandates, routes, coverages, entries, events,
                 cases, selections>>

patchDraftMandateVersion(r) ==
  /\ Commits(r, "patchVersion")
  /\ versions' = [versions EXCEPT ![command[r].version].source = command[r].source]
  /\ UNCHANGED <<agencyArchived, usable, archivedMandates, routes, coverages, entries, events,
                 cases, selections>>

freezeMandateVersion(r) ==
  /\ Commits(r, "freeze")
  /\ versions' = [versions EXCEPT ![command[r].version].state = "FROZEN"]
  /\ UNCHANGED <<agencyArchived, usable, archivedMandates, routes, coverages, entries, events,
                 cases, selections>>

createCoverage(r) ==
  LET c == command[r] IN
  /\ Commits(r, "createCoverage")
  /\ coverages' = [coverages EXCEPT ![r] =
                    [version |-> c.version, route |-> c.route, source |-> c.source]]
  /\ UNCHANGED <<agencyArchived, usable, archivedMandates, routes, versions, entries, events,
                 cases, selections>>

patchDraftCoverage(r) ==
  /\ Commits(r, "patchCoverage")
  /\ coverages' = [coverages EXCEPT ![command[r].coverage].source = command[r].source]
  /\ UNCHANGED <<agencyArchived, usable, archivedMandates, routes, versions, entries, events,
                 cases, selections>>

createCoverageSigner(r) ==
  LET c == command[r] IN
  /\ Commits(r, "createSigner")
  /\ entries' = [entries EXCEPT ![r] =
                  [coverage |-> c.coverage, signer |-> c.signer, source |-> c.source]]
  /\ UNCHANGED <<agencyArchived, usable, archivedMandates, routes, versions, coverages, events,
                 cases, selections>>

deleteDraftCoverageSigner(r) ==
  /\ Commits(r, "deleteSigner")
  /\ entries' = [entries EXCEPT ![command[r].entry] = NoEntry]
  /\ UNCHANGED <<agencyArchived, usable, archivedMandates, routes, versions, coverages, events,
                 cases, selections>>

recordAuthorityEvent(r) ==
  LET c == command[r] IN
  /\ Commits(r, "recordEvent")
  /\ events' = [events EXCEPT ![r] =
                 [mandate |-> c.mandate, coverage |-> c.coverage, source |-> c.source]]
  /\ UNCHANGED <<agencyArchived, usable, archivedMandates, routes, versions, coverages, entries,
                 cases, selections>>

\* archiveMandate and restoreMandate.
setMandateArchived(r) ==
  LET m == command[r].mandate IN
  /\ \/ Commits(r, "archiveMandate") /\ archivedMandates' = archivedMandates \union {m}
     \/ Commits(r, "restoreMandate") /\ archivedMandates' = archivedMandates \ {m}
  /\ UNCHANGED <<agencyArchived, usable, routes, versions, coverages, entries, events, cases,
                 selections>>

\* archiveRoute, restoreRoute and setRouteLinkState.
setRouteState(r) ==
  LET rt == command[r].route IN
  /\ \/ Commits(r, "archiveRoute") /\ routes' = [routes EXCEPT ![rt].archived = TRUE]
     \/ Commits(r, "restoreRoute") /\ routes' = [routes EXCEPT ![rt].archived = FALSE]
     \/ Commits(r, "linkRoute") /\ routes' = [routes EXCEPT ![rt].linked = TRUE]
     \/ Commits(r, "pauseRoute") /\ routes' = [routes EXCEPT ![rt].linked = FALSE]
  /\ UNCHANGED <<agencyArchived, usable, archivedMandates, versions, coverages, entries, events,
                 cases, selections>>

\* A patch of the preferred coverage.
patchRoute(r) ==
  /\ Commits(r, "patchRoute")
  /\ routes' = [routes EXCEPT ![command[r].route].preferred = command[r].coverage]
  /\ UNCHANGED <<agencyArchived, usable, archivedMandates, versions, coverages, entries, events,
                 cases, selections>>

bindCanonicalRoute(r) ==
  /\ Commits(r, "bindCanonicalRoute")
  /\ routes' = [routes EXCEPT ![command[r].route].source = command[r].source]
  /\ UNCHANGED <<agencyArchived, usable, archivedMandates, versions, coverages, entries, events,
                 cases, selections>>

\* archiveAgency and restoreAgency.
setAgencyArchived(r) ==
  /\ \/ Commits(r, "archiveAgency") /\ agencyArchived' = TRUE
     \/ Commits(r, "restoreAgency") /\ agencyArchived' = FALSE
  /\ UNCHANGED <<usable, archivedMandates, routes, versions, coverages, entries, events, cases,
                 selections>>

\* archiveSigner or the state ENDED, and the way back.
setSignerState(r) ==
  LET s == command[r].signer IN
  /\ \/ Commits(r, "endSigner") /\ usable' = usable \ {s}
     \/ Commits(r, "reinstateSigner") /\ usable' = usable \union {s}
  /\ UNCHANGED <<agencyArchived, archivedMandates, routes, versions, coverages, entries, events,
                 cases, selections>>

bindRoute(r) ==
  /\ Commits(r, "bindRoute")
  /\ cases' = [cases EXCEPT ![command[r].case].route = command[r].route]
  /\ UNCHANGED <<agencyArchived, usable, archivedMandates, routes, versions, coverages, entries,
                 events, selections>>

selectCaseAuthority(r) ==
  LET c == command[r] IN
  /\ Commits(r, "select")
  /\ selections' = [selections EXCEPT ![r] = [case |-> c.case, route |-> c.route,
                                              signer |-> c.signer, coverage |-> c.coverage]]
  /\ cases' = [cases EXCEPT ![c.case].selection = r]
  /\ UNCHANGED <<agencyArchived, usable, archivedMandates, routes, versions, coverages, entries,
                 events>>

Writes(r) ==
  \/ createMandateVersion(r) \/ patchDraftMandateVersion(r) \/ freezeMandateVersion(r)
  \/ createCoverage(r) \/ patchDraftCoverage(r)
  \/ createCoverageSigner(r) \/ deleteDraftCoverageSigner(r)
  \/ recordAuthorityEvent(r) \/ setMandateArchived(r)
  \/ setRouteState(r) \/ patchRoute(r) \/ bindCanonicalRoute(r)
  \/ setAgencyArchived(r) \/ setSignerState(r)
  \/ bindRoute(r) \/ selectCaseAuthority(r)

Next ==
  \E r \in Requests : Begin(r) \/ TakeLock(r) \/ Check(r) \/ CheckSources(r) \/ Refuse(r) \/ Writes(r)

Spec == Init /\ [][Next]_vars

----------------------------------------------------------------------------
(* Properties.                                                             *)

\* Rows and commands have their types, an ended transaction holds no lock, and
\* no two transactions hold locks that conflict (records.ts lockForUpdate,
\* lockForShare).
TypeOK ==
  /\ agencyArchived \in BOOLEAN
  /\ usable \subseteq Signers
  /\ archivedMandates \subseteq Mandates
  /\ routes \in [Routes -> RouteRows]
  /\ versions \in [VersionIds -> VersionRows]
  /\ coverages \in [CoverageIds -> CoverageRows]
  /\ entries \in [EntryIds -> EntryRows]
  /\ events \in [Requests -> EventRows]
  /\ cases \in [Cases -> CaseRows]
  /\ selections \in [Requests -> SelectionRows]
  /\ pc \in [Requests -> {"idle", "records", "sources", "commit", "done"}]
  /\ \A r \in Requests :
       /\ IF pc[r] \in {"idle", "done"} THEN command[r] = NoCommand /\ plan[r] = <<>>
          ELSE command[r] \in Commands
       /\ taken[r] \in 0 .. Len(plan[r])
       /\ \A q \in Requests \ {r} : \A l \in Held(r), m \in Held(q) : ~Conflict(l, m)

\* Everything that makes up a frozen version: itself, its coverages and the
\* signers recorded under them.
Frozen(v) ==
  [version |-> versions[v],
   coverages |-> [c \in CoveragesOf(v) |-> coverages[c]],
   signers |-> [c \in CoveragesOf(v) |-> [e \in EntriesOf(c) |-> entries[e]]]]

\* A version once frozen never changes, and neither do its coverages and the
\* signers under them: none is added, edited or removed, although a freeze
\* locks none of them (mandate-versions.service.ts freeze, authority-chain.ts).
FrozenRecordsNeverChange ==
  [][\A v \in VersionIds : versions[v].state = "FROZEN" => Frozen(v)' = Frozen(v)]_vars

\* c is a coverage of route rt in a frozen version.
FrozenFor(c, rt) ==
  coverages[c].route = rt /\ versions[coverages[c].version].state = "FROZEN"

\* Whatever happened since it was made, a selection still shows the route its
\* case is bound to and a frozen coverage of that route under which its signer
\* is recorded, and a preferred coverage is a frozen one of its route
\* (case-authority.service.ts select, cases.service.ts bindRoute, routes.service.ts).
SelectionsKeepTheirChain ==
  /\ \A r \in Requests : LET s == selections[r] IN s # NoSelection =>
       /\ cases[s.case].route = s.route
       /\ FrozenFor(s.coverage, s.route)
       /\ Recorded(s.signer, s.coverage)
  /\ \A rt \in Routes : routes[rt].preferred # None => FrozenFor(routes[rt].preferred, rt)

\* What an operation checked under its record locks still holds while it waits
\* for its sources and until it commits, whatever the others commit meanwhile:
\* a selection never names what has just been archived, paused or ended, and
\* nothing is added to what has just been frozen (authority-chain.ts lockMandate,
\* lockVersion, lockCoverage; case-rules.ts lockParties, lockCase).
ChecksStand ==
  \A r \in Requests : pc[r] \in {"sources", "commit"} => Permitted(r, command[r])

\* No source is used at the level of a route for two owners, however the
\* writes that use it overlap (source-scope.ts assertSourcesUsable).
SourcesServeOneOwner ==
  \A u, w \in Uses : u[2] = w[2] /\ u[2] # None => u[1] = w[1]

\* The rows are locked in an order that lets no transactions wait for each
\* other; the one exception is a rebinding waiting for a source of its case
\* (records.ts lock order, case-rules.ts assertCaseSourcesFit).
OnlyRebindingsDeadlock ==
  \A S \in SUBSET Requests : WaitInCircle(S) =>
    \E r \in S : command[r].kind = "bindRoute" /\ pc[r] = "sources"
=============================================================================
