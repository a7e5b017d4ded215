\* Two validations and three reviews of one gate race with every change of the
\* context that leaves the case's own rows alone, and one that does not; the
\* document plan names a listed source and an unlisted one.
SPECIFICATION Spec
CONSTANTS
  Gates = {"G2"}
  Reply = TRUE
  Sources = {support, planned}
  Listed = {support}
  SupportSource = support
  Plans = {{support, planned}}
  Authorities = {"undated"}
  FirstAuthority = "undated"
  Boundaries <- MCBoundaries
  Starts <- MCStarts
  Conflicted = {}
  ReviewTimes = {}
  RunIds = {1, 2}
  AssessmentIds = {a1, a2, a3}
  NoAssessment = NoAssessment
  Validators = {v1, v2}
  MaxTime = 0
  MaxRevision = 1
  MaxExports = 0
  MaxReplays = 0
SYMMETRY Alike
INVARIANTS PassIsUnanimous ChainsSound ReviewFormMirrorsTheRules
CHECK_DEADLOCK FALSE
