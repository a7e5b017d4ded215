------------------------------ MODULE Contract ------------------------------
(***************************************************************************)
(* The operations TB-SCHEMA-API-v1 contracts:                              *)
(*   packages/contracts/src/api/operations.ts, operation-types.ts.         *)
(*                                                                         *)
(* Of an operation the model keeps what the API and its clients decide by: *)
(* the method, whether its path names a record, whether it takes a body,   *)
(* the status of success and the statuses of failure, whether a session is *)
(* required, whether it is an idempotent write and whose ETag its If-Match *)
(* must present.  Schemas, tags and summaries are left out.                *)
(***************************************************************************)
EXTENDS Integers

None == "none"

(* One specification for several operations.                               *)
Each(operations, specification) == [operation \in operations |-> specification]

(* Two tables in one, as TLC's @@.                                         *)
Joint(f, g) ==
    [operation \in DOMAIN f \cup DOMAIN g |->
        IF operation \in DOMAIN f THEN f[operation] ELSE g[operation]]
f ++ g == Joint(f, g)

ReadErrors == {400, 401, 403, 404, 409, 413, 422, 429, 500}
ConditionalErrors == ReadErrors \cup {412, 428}
PublicErrors == {400, 403, 429, 500}

Getting(path) == [method |-> "get", path |-> path, body |-> FALSE, success |-> 200,
                  errors |-> ReadErrors, session |-> TRUE, keyed |-> FALSE, target |-> None]
Listing == Getting(FALSE)
Reading == Getting(TRUE)

Creating == [Listing EXCEPT !.method = "post", !.body = TRUE, !.success = 201, !.keyed = TRUE]
Appending == [Creating EXCEPT !.path = TRUE]
\* The precondition is in the body: no If-Match, but 412 and 428 are declared.
Rechecking == [Appending EXCEPT !.errors = ConditionalErrors]
AppendingTo(t) == [Rechecking EXCEPT !.target = t]
Commanding(t) == [AppendingTo(t) EXCEPT !.success = 200]
Patching(t) == [Commanding(t) EXCEPT !.method = "patch"]
Deleting(t) == [Commanding(t) EXCEPT !.method = "delete", !.body = FALSE, !.success = 204]

Records(list, create, get, patch, delete, t) ==
    Each({list}, Listing) ++ Each({create}, Creating) ++ Each({get}, Reading)
    ++ Each({patch}, Patching(t)) ++ Each({delete}, Deleting(t))

(* A record kept under its case.                                           *)
Children(list, create, get, patch, commands, t) ==
    Each({list}, Reading) ++ Each({create}, AppendingTo("CaseRecord")) ++ Each({get}, Reading)
    ++ Each({patch}, Patching(t)) ++ Each(commands, Commanding(t))

SystemOperations ==
    Each({"getHealth"}, [Listing EXCEPT !.errors = PublicErrors, !.session = FALSE])
    ++ Each({"getMeta", "getSession"}, Listing)
    ++ Each({"login"}, [Listing EXCEPT !.method = "post", !.body = TRUE,
                                       !.errors = PublicErrors, !.session = FALSE])
    ++ Each({"logout"}, [Listing EXCEPT !.method = "post", !.success = 204])

AgencyRecords == Records("listAgencies", "createAgency", "getAgency", "patchAgency",
                         "deleteUnusedAgency", "Agency")
AgencyCommands == Each({"archiveAgency", "restoreAgency", "bindCanonicalAgency",
                        "setAgencyState"}, Commanding("Agency"))

OwnerRecords == Records("listOwners", "createOwner", "getOwner", "patchOwner",
                        "deleteUnusedOwner", "Owner")
OwnerCommands == Each({"archiveOwner", "restoreOwner", "bindCanonicalOwner",
                       "setOwnerState"}, Commanding("Owner"))

LegalSubjectRecords ==
    Records("listLegalSubjects", "createLegalSubject", "getLegalSubject", "patchLegalSubject",
            "deleteUnusedLegalSubject", "LegalSubject")
LegalSubjectCommands ==
    Each({"archiveLegalSubject", "restoreLegalSubject", "bindCanonicalLegalSubject",
          "setLegalSubjectState"}, Commanding("LegalSubject"))

SignerRecords == Records("listSigners", "createSigner", "getSigner", "patchSigner",
                         "deleteUnusedSigner", "Signer")
SignerCommands == Each({"archiveSigner", "restoreSigner", "bindCanonicalSigner",
                        "setSignerState"}, Commanding("Signer"))

RouteRecords == Records("listRoutes", "createRoute", "getRoute", "patchRoute",
                        "deleteUnusedRoute", "Route")
RouteCommands == Each({"archiveRoute", "restoreRoute", "bindCanonicalRoute",
                       "setRouteLinkState"}, Commanding("Route"))

MandateRecords == Records("listMandates", "createMandate", "getMandate", "patchMandate",
                          "deleteUnusedMandate", "Mandate")
MandateCommands == Each({"archiveMandate", "restoreMandate", "bindCanonicalMandate"},
                        Commanding("Mandate"))

OwnerSubjectOperations ==
    Each({"listOwnerSubjects"}, Reading) ++ Each({"getOwnerSubject"}, Reading)
    ++ Each({"linkOwnerSubject"}, AppendingTo("Owner"))
    ++ Each({"setOwnerSubjectLinkState"}, Commanding("OwnerSubject"))

MandateVersionOperations ==
    (Each({"listMandateVersions"}, Reading)
     ++ Each({"createMandateVersion"}, AppendingTo("Mandate")))
    ++ (Each({"getMandateVersion"}, Reading)
        ++ Each({"patchDraftMandateVersion"}, Patching("MandateVersion"))
        ++ Each({"freezeMandateVersion"}, Commanding("MandateVersion")))

CoverageOperations ==
    (Each({"listVersionCoverages"}, Reading)
     ++ Each({"createCoverage"}, AppendingTo("MandateVersion")))
    ++ (Each({"getCoverage"}, Reading)
        ++ Each({"patchDraftCoverage"}, Patching("MandateCoverage")))

CoverageSignerOperations ==
    (Each({"listCoverageSigners"}, Reading)
     ++ Each({"createCoverageSigner"}, AppendingTo("MandateCoverage")))
    ++ (Each({"getCoverageSigner"}, Reading)
        ++ Each({"deleteDraftCoverageSigner"}, Deleting("CoverageSigner")))

AuthorityEventOperations ==
    Each({"recordAuthorityEvent"}, AppendingTo("Mandate"))
    ++ Each({"listAuthorityEvents"}, Reading)

CaseRecords == Records("listCases", "createCase", "getCase", "patchCase",
                       "deleteUnusedCase", "CaseRecord")
CaseCommands == Each({"ArchiveCase", "RestoreCase", "WorkflowCase", "RouteBindingCase",
                      "CanonicalBindingCase"}, Commanding("CaseRecord"))

SelectionOperations ==
    Each({"listCaseAuthoritySelections"}, Reading)
    ++ Each({"getCaseAuthoritySelection"}, Reading)
    ++ Each({"selectCaseAuthority"}, AppendingTo("CaseRecord"))

ReportedItemOperations ==
    Children("listCaseReportedItems", "createReportedItem", "getReportedItem",
             "patchReportedItem", {"archiveReportedItem", "restoreReportedItem"},
             "ReportedItem")
CaseWorkOperations ==
    Children("listCaseCaseWorks", "createCaseWork", "getCaseWork",
             "patchCaseWork", {"archiveCaseWork", "restoreCaseWork"}, "CaseWork")
UseMappingOperations ==
    Children("listCaseUseMappings", "createUseMapping", "getUseMapping",
             "patchUseMapping", {"archiveUseMapping", "restoreUseMapping"}, "UseMapping")

SourceOperations ==
    Each({"listSources"}, Listing) ++ Each({"getSource"}, Reading)
    ++ Each({"createSource"}, Creating) ++ Each({"reviseSource"}, Appending)

CaseSourceOperations ==
    Each({"listCaseSources"}, Reading) ++ Each({"getCaseSource"}, Reading)
    ++ Each({"linkCaseSource"}, AppendingTo("CaseRecord"))
    ++ Each({"setCaseSourceLinkState"}, Commanding("CaseSource"))

FactOperations ==
    Each({"listCaseFacts"}, Reading) ++ Each({"getCaseFact", "getCaseFactSources"}, Reading)
    ++ Each({"createCaseFact", "reviseCaseFact"}, AppendingTo("CaseRecord"))

CorrespondenceOperations ==
    (Each({"listCorrespondence"}, Listing) ++ Each({"getCorrespondence"}, Reading)
     ++ Each({"captureCorrespondence"}, Creating))
    ++ (Each({"listCaseCorrespondenceBindings"}, Reading)
        ++ Each({"bindCaseCorrespondence"}, AppendingTo("CaseRecord")))

ContextOperations == Each({"getProductionContext"}, Reading)

PromptOperations ==
    Each({"generatePrompt"}, Rechecking) ++ Each({"listCasePrompts"}, Reading)
    ++ Each({"getPrompt"}, Reading)

CandidateOperations ==
    Each({"importCandidate", "reviseCandidate"}, Appending)
    ++ Each({"supersedeCandidate"}, [Appending EXCEPT !.success = 200])
    ++ Each({"listCaseCandidates"}, Reading) ++ Each({"getCandidate"}, Reading)

ValidationOperations ==
    Each({"validateCandidate"}, Rechecking) ++ Each({"getValidationRun"}, Reading)
    ++ Each({"listValidationRuns", "listValidationIssues"}, Reading)

AssessmentOperations ==
    Each({"captureCandidateAssessment"}, Rechecking)
    ++ Each({"listCandidateAssessments"}, Reading)
    ++ Each({"getCandidateAssessmentSources"}, Reading)

ReadinessOperations ==
    Each({"getCandidateReadiness"}, Reading)
    ++ Each({"exportUnsignedCandidate"}, [Rechecking EXCEPT !.success = 200])

AuditOperations == Each({"listAuditEvents"}, Listing)

(* contractOperation(): the operation's metadata by its id.                *)
Operations ==
    (AgencyRecords ++ AgencyCommands) ++ (OwnerRecords ++ OwnerCommands)
    ++ (LegalSubjectRecords ++ LegalSubjectCommands) ++ (SignerRecords ++ SignerCommands)
    ++ OwnerSubjectOperations ++ SourceOperations ++ (RouteRecords ++ RouteCommands)
    ++ (MandateRecords ++ MandateCommands) ++ MandateVersionOperations ++ CoverageOperations
    ++ CoverageSignerOperations ++ AuthorityEventOperations ++ (CaseRecords ++ CaseCommands)
    ++ CaseSourceOperations ++ SelectionOperations ++ ContextOperations ++ PromptOperations
    ++ CandidateOperations ++ ValidationOperations ++ AssessmentOperations
    ++ ReadinessOperations ++ ReportedItemOperations ++ CaseWorkOperations
    ++ UseMappingOperations ++ FactOperations ++ CorrespondenceOperations
    ++ (AuditOperations ++ SystemOperations)
=============================================================================
