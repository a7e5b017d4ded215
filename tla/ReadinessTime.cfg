\* One dated authority, one G1 review chain, an export and its replay over
\* five instants: the boundaries are reached between any two steps.
SPECIFICATION Spec
CONSTANTS
  Gates = {"G1", "G6"}
  Reply = TRUE
  Sources = {support, cited}
  Listed = {support}
  SupportSource = support
  Plans = {{support}}
  Authorities = {"dated"}
  FirstAuthority = "dated"
  Boundaries <- MCBoundaries
  Starts <- MCStarts
  Conflicted = {}
  ReviewTimes = {0, 2, 3}
  RunIds = {1}
  AssessmentIds = {a1, a2}
  NoAssessment = NoAssessment
  Validators = {v1}
  MaxTime = 3
  MaxRevision = 0
  MaxExports = 1
  MaxReplays = 1
SYMMETRY Alike
PROPERTY ExportsAreSound
CHECK_DEADLOCK FALSE
