SPECIFICATION CaseSpec
CONSTANTS
  Refs <- MCRefs
  Plain = {"fixed"}
  NameOf <- MCNameOf
  Screening <- MCScreening
  Owner <- MCOwner
  Premises <- MCPremises
  Groups <- MCGroups
  Default <- MCDefault
  Dynamic = {"supplier"}
  InvoiceFields = {"supplier"}
  RequiredFields = {"supplier"}
  ApLite = {"invoice", "po", "receipt"}
  Invoice = "invoice"
  CoreOf <- MCCoreOf
  Packets <- MCPackets
  Requests <- MCRequests
  Reviewed <- MCReviewed
  MaxVersion = 2
  MaxOps = 5
  MaxItems = 2
  Writable = {"bill"}
  Faults = {"crash"}
INVARIANTS
  ReadyIsCurrent
  RefreshStable
  CorrectionReplaces
  ExcludedTogether
PROPERTIES
  QuarantineHolds
CHECK_DEADLOCK FALSE
