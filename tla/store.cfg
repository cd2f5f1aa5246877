SPECIFICATION Spec
CONSTANTS
  Runs = {"r1", "r2"}
  Calls = {"m1", "m2"}
  RoleOf <- MCRoleOf
  Invalid = {"m2"}
  CallsOf <- MCCallsOf
  DecisionsOf <- MCDecisionsOf
  Findings <- MCFindings
  MaxOps = 5
  Children = {"k1"}
  ParentOf <- MCParentOf
  Checks = {"a", "b"}
  Downstream <- MCDownstream
  Corrections <- MCCorrections
  Admitted = {"src"}
  PageSize = 1
INVARIANTS
  EventIdsUnique
  CallsLogged
  PagesLossless
PROPERTIES
  CorrectionsStand
CHECK_DEADLOCK FALSE
