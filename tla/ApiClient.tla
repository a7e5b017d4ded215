----------------------------- MODULE ApiClient ------------------------------
(***************************************************************************)
(* The calls the web application makes:                                    *)
(*   apps/web/src/app/api/client.ts and directory.ts.                      *)
(*                                                                         *)
(* Of a call the model keeps whether it has a body, the CSRF token, an     *)
(* idempotency key, whose ETag it gives as If-Match, and whether it awaits *)
(* the ETag of the answer: versioned() makes an answer without one an      *)
(* error.  createApiClient().send() gives every call X-Requested-With and  *)
(* a body its content type; the browser adds the session's cookie.         *)
(***************************************************************************)
EXTENDS Contract

Fetched == [body |-> FALSE, csrf |-> FALSE, key |-> FALSE, ifMatch |-> None, awaits |-> FALSE]
Awaiting(sent) == [sent EXCEPT !.awaits = TRUE]
Written == [Fetched EXCEPT !.body = TRUE, !.csrf = TRUE, !.key = TRUE]
WrittenTo(t) == [Written EXCEPT !.ifMatch = t]
Removed(t) == [WrittenTo(t) EXCEPT !.body = FALSE]

SessionCalls ==
    Each({"getSession", "getHealth"}, Fetched)
    ++ Each({"login"}, [Fetched EXCEPT !.body = TRUE])
    ++ Each({"logout"}, [Fetched EXCEPT !.csrf = TRUE])

(* directoryRecord().                                                      *)
RecordCalls(list, create, get, patch, remove, t) ==
    Each({list}, Fetched) ++ Each({create}, Awaiting(Written))
    ++ Each({get}, Awaiting(Fetched)) ++ Each({patch}, Awaiting(WrittenTo(t)))
    ++ Each({remove}, Removed(t))

AgencyCalls ==
    RecordCalls("listAgencies", "createAgency", "getAgency",
                "patchAgency", "deleteUnusedAgency", "Agency")
    ++ Each({"archiveAgency", "restoreAgency", "bindCanonicalAgency", "setAgencyState"},
            Awaiting(WrittenTo("Agency")))
OwnerCalls ==
    RecordCalls("listOwners", "createOwner", "getOwner",
                "patchOwner", "deleteUnusedOwner", "Owner")
    ++ Each({"archiveOwner", "restoreOwner", "bindCanonicalOwner", "setOwnerState"},
            Awaiting(WrittenTo("Owner")))
LegalSubjectCalls ==
    RecordCalls("listLegalSubjects", "createLegalSubject", "getLegalSubject",
                "patchLegalSubject", "deleteUnusedLegalSubject", "LegalSubject")
    ++ Each({"archiveLegalSubject", "restoreLegalSubject", "bindCanonicalLegalSubject",
             "setLegalSubjectState"}, Awaiting(WrittenTo("LegalSubject")))
SignerCalls ==
    RecordCalls("listSigners", "createSigner", "getSigner",
                "patchSigner", "deleteUnusedSigner", "Signer")
    ++ Each({"archiveSigner", "restoreSigner", "bindCanonicalSigner", "setSignerState"},
            Awaiting(WrittenTo("Signer")))
OwnerSubjectCalls ==
    Each({"listOwnerSubjects"}, Fetched) ++ Each({"getOwnerSubject"}, Awaiting(Fetched))
    ++ Each({"linkOwnerSubject"}, Awaiting(WrittenTo("Owner")))
    ++ Each({"setOwnerSubjectLinkState"}, Awaiting(WrittenTo("OwnerSubject")))

SourceCalls ==
    Each({"listSources"}, Fetched) ++ Each({"getSource"}, Fetched)
    ++ Each({"createSource"}, Written) ++ Each({"reviseSource"}, Written)

RouteCalls ==
    RecordCalls("listRoutes", "createRoute", "getRoute",
                "patchRoute", "deleteUnusedRoute", "Route")
    ++ Each({"archiveRoute", "restoreRoute", "bindCanonicalRoute",
             "setRouteLinkState"}, Awaiting(WrittenTo("Route")))

MandateCalls ==
    RecordCalls("listMandates", "createMandate", "getMandate",
                "patchMandate", "deleteUnusedMandate", "Mandate")
    ++ Each({"archiveMandate", "restoreMandate",
             "bindCanonicalMandate"}, Awaiting(WrittenTo("Mandate")))
MandateVersionCalls ==
    (Each({"listMandateVersions"}, Fetched)
     ++ Each({"createMandateVersion"}, Awaiting(WrittenTo("Mandate"))))
    ++ (Each({"getMandateVersion"}, Awaiting(Fetched))
        ++ Each({"patchDraftMandateVersion"}, Awaiting(WrittenTo("MandateVersion")))
        ++ Each({"freezeMandateVersion"}, Awaiting(WrittenTo("MandateVersion"))))
CoverageCalls ==
    (Each({"listVersionCoverages"}, Fetched)
     ++ Each({"createCoverage"}, Awaiting(WrittenTo("MandateVersion"))))
    ++ (Each({"getCoverage"}, Awaiting(Fetched))
        ++ Each({"patchDraftCoverage"}, Awaiting(WrittenTo("MandateCoverage"))))
CoverageSignerCalls ==
    (Each({"listCoverageSigners"}, Fetched)
     ++ Each({"createCoverageSigner"}, Awaiting(WrittenTo("MandateCoverage"))))
    ++ (Each({"getCoverageSigner"}, Awaiting(Fetched))
        ++ Each({"deleteDraftCoverageSigner"}, Removed("CoverageSigner")))
AuthorityEventCalls ==
    Each({"recordAuthorityEvent"}, WrittenTo("Mandate"))
    ++ Each({"listAuthorityEvents"}, Fetched)

\* Fault: a child is created with the ETag of a record of its own type.
ChildCallsWithOwnEtag(list, create, get, patch, commands, t) ==
    Each({list}, Fetched) ++ Each({get}, Awaiting(Fetched))
    ++ Each({create, patch} \cup commands, Awaiting(WrittenTo(t)))

(* child(): created with the case's ETag, changed with the record's own.   *)
ChildCalls(list, create, get, patch, commands, t) ==
    Each({list}, Fetched) ++ Each({create}, Awaiting(WrittenTo("CaseRecord")))
    ++ Each({get}, Awaiting(Fetched)) ++ Each({patch}, Awaiting(WrittenTo(t)))
    ++ Each(commands, Awaiting(WrittenTo(t)))

CaseCalls ==
    RecordCalls("listCases", "createCase", "getCase",
                "patchCase", "deleteUnusedCase", "CaseRecord")
    ++ Each({"ArchiveCase", "RestoreCase", "WorkflowCase", "RouteBindingCase",
             "CanonicalBindingCase"}, Awaiting(WrittenTo("CaseRecord")))
CaseSourceCalls ==
    Each({"listCaseSources"}, Fetched) ++ Each({"getCaseSource"}, Awaiting(Fetched))
    ++ Each({"linkCaseSource"}, Awaiting(WrittenTo("CaseRecord")))
    ++ Each({"setCaseSourceLinkState"}, Awaiting(WrittenTo("CaseSource")))
SelectionCalls ==
    Each({"listCaseAuthoritySelections"}, Fetched)
    ++ Each({"getCaseAuthoritySelection"}, Fetched)
    ++ Each({"selectCaseAuthority"}, WrittenTo("CaseRecord"))
ContextCalls == Each({"getProductionContext"}, Fetched)
PromptCalls ==
    Each({"generatePrompt"}, Written) ++ Each({"listCasePrompts"}, Fetched)
    ++ Each({"getPrompt"}, Fetched)
CandidateCalls ==
    Each({"importCandidate", "reviseCandidate"}, Written)
    ++ Each({"supersedeCandidate"}, Written)
    ++ Each({"listCaseCandidates"}, Fetched) ++ Each({"getCandidate"}, Fetched)
ValidationCalls ==
    Each({"validateCandidate"}, Written) ++ Each({"getValidationRun"}, Fetched)
    ++ Each({"listValidationRuns", "listValidationIssues"}, Fetched)
AssessmentCalls ==
    Each({"captureCandidateAssessment"}, Written)
    ++ Each({"listCandidateAssessments"}, Fetched)
    ++ Each({"getCandidateAssessmentSources"}, Fetched)
ReadinessCalls ==
    Each({"getCandidateReadiness"}, Fetched) ++ Each({"exportUnsignedCandidate"}, Written)
ReportedItemCalls ==
    ChildCalls("listCaseReportedItems", "createReportedItem", "getReportedItem",
               "patchReportedItem", {"archiveReportedItem", "restoreReportedItem"},
               "ReportedItem")
CaseWorkCalls ==
    ChildCalls("listCaseCaseWorks", "createCaseWork", "getCaseWork",
               "patchCaseWork", {"archiveCaseWork", "restoreCaseWork"}, "CaseWork")
UseMappingCalls ==
    ChildCalls("listCaseUseMappings", "createUseMapping", "getUseMapping",
               "patchUseMapping", {"archiveUseMapping", "restoreUseMapping"}, "UseMapping")
FactCalls ==
    Each({"listCaseFacts"}, Fetched) ++ Each({"getCaseFact", "getCaseFactSources"}, Fetched)
    ++ Each({"createCaseFact", "reviseCaseFact"}, WrittenTo("CaseRecord"))

CorrespondenceCalls ==
    (Each({"listCorrespondence"}, Fetched) ++ Each({"getCorrespondence"}, Fetched)
     ++ Each({"captureCorrespondence"}, Written))
    ++ (Each({"listCaseCorrespondenceBindings"}, Fetched)
        ++ Each({"bindCaseCorrespondence"}, WrittenTo("CaseRecord")))

WebCalls ==
    AgencyCalls ++ OwnerCalls ++ LegalSubjectCalls ++ SignerCalls ++ OwnerSubjectCalls
    ++ SourceCalls ++ RouteCalls ++ MandateCalls ++ MandateVersionCalls ++ CoverageCalls
    ++ CoverageSignerCalls ++ AuthorityEventCalls ++ CaseCalls ++ CaseSourceCalls
    ++ SelectionCalls ++ ContextCalls ++ PromptCalls ++ CandidateCalls ++ ValidationCalls
    ++ AssessmentCalls ++ ReadinessCalls ++ ReportedItemCalls ++ CaseWorkCalls
    ++ UseMappingCalls ++ FactCalls ++ CorrespondenceCalls ++ SessionCalls
=============================================================================
