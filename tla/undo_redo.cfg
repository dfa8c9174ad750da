\* An empty document, four items to allocate, three commands to undo and redo.
CONSTANTS
  Node = {root, a, b, c, d}
  Root = root
  Nil = nil
  Text = {t0}
  EmptyText = t0
  MaxActions = 3
  InitialTrees <- NewDocument
SPECIFICATION Spec
SYMMETRY ItemSymmetry
INVARIANT IndInv
INVARIANT LinksConsistent
INVARIANT PlaceKept
INVARIANT TreeWellFormed
\* Every item may be allocated and every list full: nothing is left to do.
CHECK_DEADLOCK FALSE
