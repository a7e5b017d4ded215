----------------------------- MODULE SourceScope -----------------------------
(***************************************************************************)
(* Which sources a record may rely on                                      *)
(* (modules/sources/source-scope.ts).  A source records a scope: the       *)
(* agency that owns it, and the agencies, legal subjects and cases it is   *)
(* restricted to.  The scope of a source never changes, nor does a later   *)
(* revision of the source change it.                                       *)
(***************************************************************************)
CONSTANTS
  Sources, Agencies, Subjects, Owners, Cases, None,
  Scope          \* [Sources -> the scope each records]

ASSUME ScopeAssumption ==
  /\ Scope \in [Sources -> [agency : Agencies \union {None}, agencies : SUBSET Agencies,
                            subjects : SUBSET Subjects, cases : SUBSET Cases]]
  /\ None \notin Sources \union Agencies \union Subjects \union Owners \union Cases

\* What a source may be used for: a record of one of these kinds.
Target(kind, c, agency, owner, subject) ==
  [kind |-> kind, case |-> c, agency |-> agency, owner |-> owner, subject |-> subject]
AgencyTarget(a) == Target("Agency", None, a, None, None)
RouteTarget(route) == Target("Route", None, route.agency, route.owner, route.subject)
OwnerTarget(o) == Target("Owner", None, None, o, None)

NamesAgency == {"Agency", "Route", "Case"}

\* What the cases and agencies of a source's scope say of a target.
AgencyProblem(scope, target) ==
  IF scope.cases # {} /\ target.kind # "Case" THEN "CASE_SCOPED_SOURCE"
  ELSE IF scope.cases # {} /\ target.case \notin scope.cases THEN "CROSS_CASE_REFERENCE"
  ELSE IF target.kind \notin NamesAgency
       THEN IF scope.agency # None THEN "AGENCY_OWNED_SOURCE"
            ELSE IF scope.agencies # {} THEN "AGENCY_RESTRICTED_SOURCE" ELSE None
  ELSE IF scope.agency \notin {None, target.agency} THEN "CROSS_AGENCY_REFERENCE"
  ELSE IF /\ target.agency \notin scope.agencies
          /\ IF scope.cases = {} THEN scope.agency = None ELSE scope.agencies # {}
       THEN "NOT_SCOPED_TO_AGENCY"
  ELSE None

\* What its legal subjects say.
SubjectProblem(scope, target) ==
  IF target.kind = "LegalSubject"
  THEN IF target.subject \in scope.subjects THEN None ELSE "NOT_SCOPED_TO_SUBJECT"
  ELSE IF \/ target.kind = "Agency" \/ scope.subjects = {}
          \/ target.subject \in scope.subjects
       THEN None
  ELSE IF target.kind = "Owner" THEN "SUBJECT_SPECIFIC_SOURCE"
  ELSE IF target.subject = None THEN "CASE_SUBJECT_UNBOUND"
  ELSE "SCOPED_TO_OTHER_SUBJECT"

scopeProblem(s, target) ==
  LET problem == AgencyProblem(Scope[s], target)
  IN IF problem # None THEN problem ELSE SubjectProblem(Scope[s], target)

(* With the owner's dimension.  users is the set of owners whose records   *)
(* cite the source as theirs.                                              *)
applicabilityProblem(s, target, users) ==
  IF scopeProblem(s, target) # None THEN scopeProblem(s, target)
  ELSE IF target.owner # None /\ users \ {target.owner} # {} THEN "CROSS_OWNER_REFERENCE"
  ELSE None
=============================================================================
