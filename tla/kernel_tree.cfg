SPECIFICATION ReportSpec
CONSTANTS
  a = a
  b = b
  c = c
  d = d
  r = r
  m = m
  pay = pay
  audit = audit
  other = other
  amount = amount
  vendor = vendor
  Checks = {a, b, c, d}
  Inner = {r, m}
  Requirements = {pay, audit}
  Required = {pay}
  NeedsPolicy = {pay}
  WitnessPath <- MCWitnessPath
  RootOf <- MCRootOf
  Facets <- MCFacets
  Paths <- MCPaths
  Composition <- MCComposition
  PlanSpace <- MCPlanSpace
  CaseRequirements <- MCCaseRequirements
  Cites <- MCCites
  Operands <- MCOperands
  FinalTotal = amount
  Differences = {d}
INVARIANTS
  VerdictIsForced
  FacetNotBypassed
  ReportIsEarned
  RenderedIsAccepted
PROPERTIES
  StaleDraftRefused
