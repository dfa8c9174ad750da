\* Commands to undo and redo, two from one item and one from three, among folds
\* and searches.
CONSTANTS
  Node = {root, a, b, c, d}
  Root = root
  Nil = nil
  a = a
  b = b
  c = c
  Text = {t0}
  EmptyText = t0
  MaxActions = 2
  MaxSize = 4
  PageStep = 2
  MaxFolded = 2
  InitialTrees <- Documents
SPECIFICATION ViewSpec
INVARIANT WalksMeetUnfolded
INVARIANT FoldHides
CHECK_DEADLOCK FALSE
