SPECIFICATION Spec
CONSTANTS
  Node = {n1, n2, n3}
  Students = {s1, s2}
  Managers = {m1}
  Loader = loader
  Thread = {s1, s2, m1, loader}
  HEAD = HEAD
  POISON = POISON
  NoThread = NoThread
  BookCount = 1
SYMMETRY Symmetry
INVARIANTS
  CallbackBeforeUnload
