\* Two requests of any kind.
SPECIFICATION Spec
CONSTANTS
  Requests = {r1, r2}
  routeA = routeA
  routeB = routeB
  ownerA = ownerA
  ownerB = ownerB
  mandate = mandate
  signer = signer
  bound = bound
  unbound = unbound
  frozen = frozen
  draft = draft
  coverageA = coverageA
  coverageB = coverageB
  entryA = entryA
  entryB = entryB
  Routes = {routeA, routeB}
  Owners = {ownerA, ownerB}
  Signers = {signer}
  Mandates = {mandate}
  Cases = {bound, unbound}
  TheAgency = TheAgency
  None = None
  Sources = {1, 2}
  OwnerOf <- MCOwnerOf
  CaseSources <- MCCaseSources
  FirstVersions <- MCFirstVersions
  FirstCoverages <- MCFirstCoverages
  FirstEntries <- MCFirstEntries
  FirstBinding <- MCFirstBinding
  Kinds = {"archiveAgency", "restoreAgency", "endSigner", "reinstateSigner", "archiveRoute",
    "restoreRoute", "linkRoute", "pauseRoute", "bindCanonicalRoute", "patchRoute",
    "archiveMandate", "restoreMandate", "createVersion", "patchVersion", "freeze",
    "createCoverage", "patchCoverage", "createSigner", "deleteSigner", "recordEvent",
    "bindRoute", "select"}
SYMMETRY Alike
INVARIANTS ChecksStand SelectionsKeepTheirChain SourcesServeOneOwner OnlyRebindingsDeadlock
PROPERTY FrozenRecordsNeverChange
CHECK_DEADLOCK FALSE
