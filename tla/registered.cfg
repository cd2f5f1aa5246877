SPECIFICATION LaneSpec
CONSTANTS
  Orders = {"po"}
  Productions = {"mo"}
  Order = "po"
  Bills = {"b1"}
  Scenarios <- MCScenarios
  Proposals <- MCProposals
  Program <- MCProgram
  MaxChanges = 1
  MaxRuns = 2
  Catalog <- MCCatalog
  Shared <- MCShared
  Recipes <- MCRecipes
  Sealed <- MCSealed
  MaxReceipts = 5
INVARIANTS
  ProgramIsFollowed
  VerdictIsTrue
  SealedIsCancellable
  StageInOrder
  PostconditionsGuard
  StagesGoOn
CHECK_DEADLOCK FALSE
