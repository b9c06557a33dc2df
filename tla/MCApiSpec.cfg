SPECIFICATION Spec
CONSTANTS
  Features <- FeatureNames
  Routes <- AllRoutes
  Nobody = "nobody"
  Canned = "canned"
  Junk = "junk"
  FeatureRank <- Ranks
  RouteRank <- RouteRanks
  Shape <- ShapeOf
  Twin <- TwinOf
  Meaning <- MeaningOf
  Guess <- GuessOf
  TableClues <- Clues
  KeptBy <- Keepers
  Personal = {"stray"}
  OnTable <- TableRoutes
  Written <- WrittenAs
  UnsafeRoutes = {"other"}
  Registries <- Contracts
  Plans <- PlanSets
  Answers <- AnswerRoutes
  Targets <- Told
  Patches <- PatchSet
  MaxRepairs = 2
INVARIANTS
  DocumentIsTheContract
  SavedIsSettled
PROPERTIES
  RepairStaysInScope
CHECK_DEADLOCK FALSE
