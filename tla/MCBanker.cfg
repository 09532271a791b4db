SPECIFICATION Spec
CONSTANTS
  N = 5
  M = 3
  Systems <- Systems5
  Requests <- MainRequests
INVARIANTS
  TypeOK
  ResourcesConserved
  StaysSafe
  SafetyCheckExact
PROPERTIES
  AllOrNothing
