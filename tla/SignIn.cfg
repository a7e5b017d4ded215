SPECIFICATION PipelineSpec
CONSTANTS
    Logins = {l1, l2}
    Requests = {r1}
    Commands = {c1, c2}
    SessionTtl = 3
    IdleTimeout = 1
    LastSeenWriteInterval = 1
    MaxClock = 3
INVARIANTS EpochOutdatesSessions AnswersAreDeclared CallsAreUnderstood
PROPERTIES EndedSessionsStayOut AcceptedInTime
CHECK_DEADLOCK FALSE
SYMMETRY Interchangeable
