SPECIFICATION Spec
CONSTANTS
  r1 = r1  r2 = r2  r3 = r3
  Requests = {r1, r2, r3}
  Methods = {"GET"}
  RoutePaths = {"/health", "/else"}
  MetricsPath = "/metrics"
  Statuses = {200, 404}
  MaxTime = 1
  None = none
SYMMETRY RequestSymmetry
INVARIANTS
  CountsExact
  ScrapeComplete
CHECK_DEADLOCK FALSE
