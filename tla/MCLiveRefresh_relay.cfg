SPECIFICATION FairSpec
CONSTANTS
  Tabs = {t1, t2}
  Shown = {"comments"}
  Happening = {"commentCreated"}
  Cap = 1
  Overlap = FALSE
  MaxChanges = 2
  MaxFaults = 1
  MaxMounts = 2
INVARIANTS TypeOK ComesToKnow StatusFollows
PROPERTIES NoGaps Refreshed
CHECK_DEADLOCK FALSE
