------------------------------ MODULE PageScope ------------------------------
(***************************************************************************)
(* The web client's own copy of the scope rules                            *)
(* (apps/web/src/app/sources/scope.ts) and the picker that offers sources  *)
(* by it.  It was written apart from the server's, which SourceScope has,  *)
(* and case by case where the server's is by dimension; and it cannot see  *)
(* whose material a source already is.                                     *)
(***************************************************************************)
EXTENDS SourceScope

\* Whether the list of a scope leaves a member out.
Leaves(list, member) == list # {} /\ member \notin list

AgencyReason(scope, target) ==
  IF scope.cases # {}
  THEN IF target.kind # "Case" THEN "CASE_SCOPED_SOURCE"
       ELSE IF target.case \notin scope.cases THEN "CROSS_CASE_REFERENCE"
       ELSE IF scope.agency \notin {None, target.agency} THEN "CROSS_AGENCY_REFERENCE"
       ELSE IF Leaves(scope.agencies, target.agency) THEN "NOT_SCOPED_TO_AGENCY"
       ELSE None
  ELSE IF target.kind \in NamesAgency
  THEN IF scope.agency = None
       THEN IF target.agency \notin scope.agencies THEN "NOT_SCOPED_TO_AGENCY" ELSE None
       ELSE IF scope.agency # target.agency THEN "CROSS_AGENCY_REFERENCE" ELSE None
  ELSE IF scope.agency # None THEN "AGENCY_OWNED_SOURCE"
  ELSE IF scope.agencies # {} THEN "AGENCY_RESTRICTED_SOURCE"
  ELSE None

SubjectReason(subjects, target) ==
  CASE target.kind = "LegalSubject" ->
         IF target.subject \in subjects THEN None ELSE "NOT_SCOPED_TO_SUBJECT"
    [] target.kind \in {"Route", "OwnerSubject"} ->
         IF Leaves(subjects, target.subject) THEN "SCOPED_TO_OTHER_SUBJECT" ELSE None
    [] target.kind = "Case" ->
         IF subjects = {} THEN None
         ELSE IF target.subject = None THEN "CASE_SUBJECT_UNBOUND"
         ELSE IF target.subject \in subjects THEN None ELSE "SCOPED_TO_OTHER_SUBJECT"
    [] target.kind = "Owner" -> IF subjects # {} THEN "SUBJECT_SPECIFIC_SOURCE" ELSE None
    [] OTHER -> None

scopeReason(s, target) ==
  LET reason == AgencyReason(Scope[s], target)
  IN IF reason # None THEN reason ELSE SubjectReason(Scope[s].subjects, target)

\* What a picker of sources offers: the current revisions in scope, and what is chosen already.
SourceSelect(target, superseded, chosen) ==
  {s \in Sources \ superseded : scopeReason(s, target) = None} \union ({chosen} \ {None})

----------------------------------------------------------------------------
(* How a page relates to a command of the server: what it offers is        *)
(* accepted, but for what the page cannot see; and what would be accepted  *)
(* is offered, but for what the page withholds.                            *)

Mirrors(offered, unseen, accepted, withheld) ==
  /\ offered /\ ~unseen => accepted
  /\ accepted /\ ~withheld => offered
=============================================================================
