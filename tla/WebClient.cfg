\* Two tabs of one browser; two users sign in; one tab writes.
SPECIFICATION ClientSpec
CONSTANTS
  Tabs = {t1, t2}
  Writers = {t1}
  Focusing = {t1}
  Users = {ann, bob}
  MaxSessions = 2
  MaxChecks = 1
  MaxChanges = 1
  MaxKeys = 2
SYMMETRY Alike
INVARIANTS WritesShowTheirUser ChangesHappenOnce
CHECK_DEADLOCK FALSE
