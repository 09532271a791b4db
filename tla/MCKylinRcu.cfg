SPECIFICATION Spec
CONSTANTS
  Node = {n1, n2, n3, n4}
  Students = {s1, s2}
  Managers = {m1}
  Loader = loader
  Thread = {s1, s2, m1, loader}
  HEAD = HEAD
  POISON = POISON
  NoThread = NoThread
  BookCount = 2
SYMMETRY Symmetry
INVARIANTS
  TypeOK
  NoUseAfterFree
  StaleOnlyInOldSections
  LookupNeverMisses
  ListOfBooks
  SingleBorrower
  BorrowFlagAccounted
  ReturnNeverRefused
  NothingLeaks
PROPERTIES
  LendsBooks
