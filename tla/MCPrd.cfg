SPECIFICATION Spec
CHECK_DEADLOCK FALSE
CONSTANTS
  Absent = Absent
  f1 = f1
  f2 = f2
  f3 = f3
  f4 = f4
  Names <- MCNames
  Alike <- MCAlike
  Lists <- MCLists
  Decisions <- MCDecisions
  Priorities = {"P0"}
  Kpis = 2
  Segments = 1
  Plain = {"techStack"}
  Signatures = {"a", "b"}
  Feedback <- MCFeedback
  Patches <- MCPatches
  MaxIncluded = 1
  MaxP0 = 2
  MaxTries = 2
  MaxRepairs = 1
INVARIANTS
  NothingIsMissing
  DecisionsHold
PROPERTIES
  GoodPrdStays
