SPECIFICATION ValidationSpec
CONSTANTS
  None = None
  bare = bare
  ripe = ripe
  clear = clear
  other = other
  routeA = routeA
  routeB = routeB
  ownerA = ownerA
  ownerB = ownerB
  subjectA = subjectA
  subjectB = subjectB
  agency = agency
  narrow = narrow
  wide = wide
  request = request
  full = full
  sent = sent
  Cases = {bare, ripe, clear, other}
  Routes = {routeA, routeB}
  Owners = {ownerA, ownerB}
  Subjects = {subjectA, subjectB}
  Agencies = {agency}
  Sources = {narrow, wide}
  Messages = {request, full, sent}
  Videos = {1, 2}
  Occurrences = {1, 2}
  Roles = {"EVIDENCE"}
  Texts = {"first", "second"}
  Codes = {"code"}
  Workflows = {"INTAKE", "CLOSED"}
  Provenances = {"MISSING", "CONFLICT"}
  Canonical = {wide}
  Reviewed = {wide}
  Route <- MCRoute
  Scope <- MCScope
  Message <- MCMessage
  CaseAgency <- MCCaseAgency
  Firsts <- MCFirsts
  Reviewable = {ripe, clear}
  MaxChanges = 6
  MaxPrompts = 1
  Drafts <- MCDrafts
  Mailbox <- MCMailbox
  Signer <- MCSigner
  Hash <- MCHash
  Noticed = {clear}
  MaxCandidates = 1
  MaxRuns = 1
  Failing = {{}, {"MARKER.GATE_LABELS"}}
INVARIANTS SourcesFitTheCase ReadsStaySound PromptsShowWhatWasReviewed
  VerdictsStand PassesAreFaithful PagesMirrorTheRules
PROPERTY MaterialMovesRevision
CHECK_DEADLOCK FALSE
