------------------------------ MODULE Handlers ------------------------------
(***************************************************************************)
(* What the API's handlers do with a request:                              *)
(*   apps/api/src/modules/*/*.controller.ts and the services they call.    *)
(*                                                                         *)
(* Of a handler the model keeps what of the request it parses, the status  *)
(* it answers with (`@HttpCode`), whether it runs through the write        *)
(* executor, the type of the record whose version its service checks,      *)
(* whether the reply carries an ETag, and the statuses its service may     *)
(* refuse with.                                                            *)
(***************************************************************************)
EXTENDS Contract

(* resourceReply(): one record, without an ETag.                           *)
Shown == [path |-> TRUE, query |-> FALSE, body |-> FALSE, code |-> 200, write |-> FALSE,
          target |-> None, etag |-> FALSE, refusals |-> {404},
          public |-> FALSE, appOnly |-> FALSE]
(* entityReply(): one record of a type that has versions.                  *)
ShownVersioned == [Shown EXCEPT !.etag = TRUE]
(* pageReply(): the cursor in the query may belong to another list.        *)
Paged == [Shown EXCEPT !.path = FALSE, !.query = TRUE, !.refusals = {400}]
PagedUnder == [Paged EXCEPT !.path = TRUE, !.refusals = {400, 404}]

(* writeReply() without the ETag of a record.                              *)
Appended == [Shown EXCEPT !.body = TRUE, !.code = 201, !.write = TRUE,
                          !.refusals = {404, 409, 422}]
Inserted == [Appended EXCEPT !.path = FALSE, !.refusals = {409, 422}]
(* The service compares what the body says was reviewed.                   *)
Rechecked == [Appended EXCEPT !.refusals = @ \cup {412}]
AppendedTo(t) == [Appended EXCEPT !.target = t]

Versioned(handler) == [handler EXCEPT !.etag = TRUE]
Commanded(t) == Versioned([AppendedTo(t) EXCEPT !.code = 200])
Deleted(t) == [AppendedTo(t) EXCEPT !.code = 204, !.refusals = {404, 409}]

RecordHandlers(list, create, get, patch, delete, t) ==
    Each({list}, Paged) ++ Each({create}, Versioned(Inserted)) ++ Each({get}, ShownVersioned)
    ++ Each({patch}, Commanded(t)) ++ Each({delete}, Deleted(t))

(* A child is created under its case and changed under its own version.    *)
ChildHandlers(list, create, get, patch, commands, t) ==
    Each({list}, PagedUnder) ++ Each({create}, Versioned(AppendedTo("CaseRecord")))
    ++ Each({get}, ShownVersioned) ++ Each({patch}, Commanded(t))
    ++ Each(commands, Commanded(t))

(* There is no handler for getMeta.                                        *)
HealthHandlers == Each({"getHealth"}, [Shown EXCEPT !.path = FALSE, !.public = TRUE,
                                                    !.refusals = {}])
(* The login's body is validated by its service, logout ignores any.       *)
AuthHandlers ==
    Each({"login"}, [Shown EXCEPT !.path = FALSE, !.public = TRUE, !.appOnly = TRUE,
                                  !.refusals = {400, 403, 429}])
    ++ Each({"getSession"}, [Shown EXCEPT !.path = FALSE, !.refusals = {}])
    ++ Each({"logout"}, [Shown EXCEPT !.path = FALSE, !.code = 204, !.refusals = {}])

AgencyHandlers ==
    RecordHandlers("listAgencies", "createAgency", "getAgency",
                   "patchAgency", "deleteUnusedAgency", "Agency")
    ++ Each({"archiveAgency", "restoreAgency", "bindCanonicalAgency",
             "setAgencyState"}, Commanded("Agency"))
OwnerHandlers ==
    RecordHandlers("listOwners", "createOwner", "getOwner",
                   "patchOwner", "deleteUnusedOwner", "Owner")
    ++ Each({"archiveOwner", "restoreOwner", "bindCanonicalOwner",
             "setOwnerState"}, Commanded("Owner"))
LegalSubjectHandlers ==
    RecordHandlers("listLegalSubjects", "createLegalSubject", "getLegalSubject",
                   "patchLegalSubject", "deleteUnusedLegalSubject", "LegalSubject")
    ++ Each({"archiveLegalSubject", "restoreLegalSubject", "bindCanonicalLegalSubject",
             "setLegalSubjectState"}, Commanded("LegalSubject"))
SignerHandlers ==
    RecordHandlers("listSigners", "createSigner", "getSigner",
                   "patchSigner", "deleteUnusedSigner", "Signer")
    ++ Each({"archiveSigner", "restoreSigner", "bindCanonicalSigner",
             "setSignerState"}, Commanded("Signer"))
OwnerSubjectHandlers ==
    Each({"listOwnerSubjects"}, PagedUnder) ++ Each({"getOwnerSubject"}, ShownVersioned)
    ++ Each({"linkOwnerSubject"}, Versioned(AppendedTo("Owner")))
    ++ Each({"setOwnerSubjectLinkState"}, Commanded("OwnerSubject"))

RouteHandlers ==
    RecordHandlers("listRoutes", "createRoute", "getRoute",
                   "patchRoute", "deleteUnusedRoute", "Route")
    ++ Each({"archiveRoute", "restoreRoute", "bindCanonicalRoute",
             "setRouteLinkState"}, Commanded("Route"))
MandateHandlers ==
    RecordHandlers("listMandates", "createMandate", "getMandate",
                   "patchMandate", "deleteUnusedMandate", "Mandate")
    ++ Each({"archiveMandate", "restoreMandate",
             "bindCanonicalMandate"}, Commanded("Mandate"))
VersionsOfMandateHandlers ==
    Each({"listMandateVersions"}, PagedUnder)
    ++ Each({"createMandateVersion"}, Versioned(AppendedTo("Mandate")))
AuthorityEventHandlers ==
    Each({"recordAuthorityEvent"}, AppendedTo("Mandate"))
    ++ Each({"listAuthorityEvents"}, PagedUnder)
MandateVersionHandlers ==
    Each({"getMandateVersion"}, ShownVersioned)
    ++ Each({"patchDraftMandateVersion"}, Commanded("MandateVersion"))
    ++ Each({"freezeMandateVersion"}, Commanded("MandateVersion"))
CoveragesOfVersionHandlers ==
    Each({"listVersionCoverages"}, PagedUnder)
    ++ Each({"createCoverage"}, Versioned(AppendedTo("MandateVersion")))
CoverageHandlers ==
    Each({"getCoverage"}, ShownVersioned)
    ++ Each({"patchDraftCoverage"}, Commanded("MandateCoverage"))
SignersOfCoverageHandlers ==
    Each({"listCoverageSigners"}, PagedUnder)
    ++ Each({"createCoverageSigner"}, Versioned(AppendedTo("MandateCoverage")))
CoverageSignerHandlers ==
    Each({"getCoverageSigner"}, ShownVersioned)
    ++ Each({"deleteDraftCoverageSigner"}, Deleted("CoverageSigner"))

CaseHandlers ==
    RecordHandlers("listCases", "createCase", "getCase",
                   "patchCase", "deleteUnusedCase", "CaseRecord")
    ++ Each({"ArchiveCase", "RestoreCase", "WorkflowCase", "RouteBindingCase",
             "CanonicalBindingCase"}, Commanded("CaseRecord"))
CaseSourceHandlers ==
    Each({"listCaseSources"}, PagedUnder) ++ Each({"getCaseSource"}, ShownVersioned)
    ++ Each({"linkCaseSource"}, Versioned(AppendedTo("CaseRecord")))
    ++ Each({"setCaseSourceLinkState"}, Commanded("CaseSource"))
SelectionHandlers ==
    Each({"listCaseAuthoritySelections"}, PagedUnder)
    ++ Each({"getCaseAuthoritySelection"}, Shown)
    ++ Each({"selectCaseAuthority"}, AppendedTo("CaseRecord"))

ReportedItemHandlers ==
    ChildHandlers("listCaseReportedItems", "createReportedItem", "getReportedItem",
                  "patchReportedItem", {"archiveReportedItem", "restoreReportedItem"},
                  "ReportedItem")
CaseWorkHandlers ==
    ChildHandlers("listCaseCaseWorks", "createCaseWork", "getCaseWork",
                  "patchCaseWork", {"archiveCaseWork", "restoreCaseWork"}, "CaseWork")
UseMappingHandlers ==
    ChildHandlers("listCaseUseMappings", "createUseMapping", "getUseMapping",
                  "patchUseMapping", {"archiveUseMapping", "restoreUseMapping"}, "UseMapping")
FactHandlers ==
    Each({"listCaseFacts"}, PagedUnder) ++ Each({"getCaseFact", "getCaseFactSources"}, Shown)
    ++ Each({"createCaseFact", "reviseCaseFact"}, AppendedTo("CaseRecord"))

SourceHandlers ==
    Each({"listSources"}, Paged) ++ Each({"getSource"}, Shown)
    ++ Each({"createSource"}, Inserted) ++ Each({"reviseSource"}, Appended)
CorrespondenceHandlers ==
    Each({"listCorrespondence"}, Paged) ++ Each({"getCorrespondence"}, Shown)
    ++ Each({"captureCorrespondence"}, Inserted)
CaseCorrespondenceHandlers ==
    Each({"listCaseCorrespondenceBindings"}, PagedUnder)
    ++ Each({"bindCaseCorrespondence"}, AppendedTo("CaseRecord"))

ContextHandlers == Each({"getProductionContext"},
                        [PagedUnder EXCEPT !.refusals = @ \cup {409, 422}])
PromptHandlers ==
    Each({"generatePrompt"}, Rechecked) ++ Each({"listCasePrompts"}, PagedUnder)
    ++ Each({"getPrompt"}, Shown)
CandidateHandlers ==
    Each({"importCandidate", "reviseCandidate"}, Appended)
    ++ Each({"supersedeCandidate"}, [Appended EXCEPT !.code = 200])
    ++ Each({"listCaseCandidates"}, PagedUnder) ++ Each({"getCandidate"}, Shown)
ValidationHandlers ==
    Each({"validateCandidate"}, Rechecked) ++ Each({"getValidationRun"}, Shown)
    ++ Each({"listValidationRuns", "listValidationIssues"}, PagedUnder)
AssessmentHandlers ==
    Each({"captureCandidateAssessment"}, Rechecked)
    ++ Each({"listCandidateAssessments"}, PagedUnder)
    ++ Each({"getCandidateAssessmentSources"}, Shown)
ReadinessHandlers ==
    Each({"getCandidateReadiness"}, Shown)
    ++ Each({"exportUnsignedCandidate"}, [Rechecked EXCEPT !.code = 200])
AuditHandlers == Each({"listAuditEvents"}, Paged)

(* Nest's routes: the handler of an operation's method and path.           *)
Routes ==
    AgencyHandlers ++ OwnerHandlers ++ LegalSubjectHandlers ++ SignerHandlers
    ++ OwnerSubjectHandlers ++ SourceHandlers ++ RouteHandlers ++ MandateHandlers
    ++ (VersionsOfMandateHandlers ++ MandateVersionHandlers)
    ++ (CoveragesOfVersionHandlers ++ CoverageHandlers)
    ++ (SignersOfCoverageHandlers ++ CoverageSignerHandlers) ++ AuthorityEventHandlers
    ++ CaseHandlers ++ CaseSourceHandlers ++ SelectionHandlers ++ ContextHandlers
    ++ PromptHandlers ++ CandidateHandlers ++ ValidationHandlers ++ AssessmentHandlers
    ++ ReadinessHandlers ++ ReportedItemHandlers ++ CaseWorkHandlers ++ UseMappingHandlers
    ++ FactHandlers ++ (CorrespondenceHandlers ++ CaseCorrespondenceHandlers)
    ++ (AuditHandlers ++ HealthHandlers ++ AuthHandlers)
=============================================================================
