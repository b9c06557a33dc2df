SPECIFICATION Spec
CONSTANTS
  c1 = c1  c2 = c2  c3 = c3  r1 = r1  v1 = v1  v2 = v2  l1 = l1  l2 = l2  w1 = w1
  a = a  b = b  d = d  x = x  y = y
  R1 = R1  R2 = R2  R3 = R3  Ra = Ra
  Absent = Absent  Intent = Intent
  Names <- MCNames
  Ids <- MCIds
  Routes <- MCRoutes
  Derived <- MCDerived
  Checks = {v1, v2}
  Accounts = {l1, l2}
  SignIn = {l1}
  AuthRoutes = {Ra}
  AuthIds = {y}
  Alike <- MCAlike
  Documents <- MCDocuments
  Plans <- MCPlans
  Planned <- MCPlanned
  Patches <- MCPatches
  MaxMvp = 4
  MaxP0 = 1
  MaxRepairs = 1
CHECK_DEADLOCK FALSE
INVARIANTS ReleaseIsComplete RequirementsSurvive
PROPERTIES IdsAgree ResyncStaysInScope
