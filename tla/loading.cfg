CONSTANTS
  Node = {root, a, b, c}
  Root = root
  Nil = nil
  a = a
  b = b
  c = c
  Text = {t0, t1}
  EmptyText = t0
  MaxActions = 0
  MaxInFlight = 2
  MaxExtras = 1
  MaxLosses = 1
  FirstId = 2
  InitialTrees <- NotLoaded
  ServerCopies <- LargeCopies
SPECIFICATION FairSpec
INVARIANT Mirror
PROPERTY LoadingReadOnly
PROPERTY LoadingEnds
CHECK_DEADLOCK FALSE
