SPECIFICATION Spec
CONSTANTS
  N = 5
  M = 3
  Systems <- MainSystem
  Requests <- ReturningRequests
INVARIANTS
  AllocationIsACount
