\* Loaded documents of three items, two new ones, texts that can change.
CONSTANTS
  Node = {root, a, b, c, d}
  Root = root
  Nil = nil
  a = a
  b = b
  c = c
  Text = {t0, t1}
  EmptyText = t0
  MaxActions = 2
  InitialTrees <- LoadedDocuments
SPECIFICATION HSpec
INVARIANT ScreenIsDocument
PROPERTY ImplementsEditHistory
CHECK_DEADLOCK FALSE
