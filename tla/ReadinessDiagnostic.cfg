\* Two validations of one epoch, received in one order and recorded in the other.
SPECIFICATION Spec
CONSTANTS
  Gates = {}
  Reply = FALSE
  Sources = {support}
  Listed = {support}
  SupportSource = support
  Plans = {{support}}
  Authorities = {"undated"}
  FirstAuthority = "undated"
  Boundaries <- MCBoundaries
  Starts <- MCStarts
  Conflicted = {}
  ReviewTimes = {}
  RunIds = {1, 2}
  AssessmentIds = {}
  NoAssessment = NoAssessment
  Validators = {v1, v2}
  MaxTime = 1
  MaxRevision = 0
  MaxExports = 0
  MaxReplays = 0
PROPERTY LatestRecordedRunCounts
CHECK_DEADLOCK FALSE
