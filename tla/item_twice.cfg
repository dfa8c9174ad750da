CONSTANTS
  Node = {root, a, b, c}
  Root = root
  Nil = nil
  a = a
  b = b
  c = c
  Text = {t0, t1}
  EmptyText = t0
  MaxActions = 1
  MaxInFlight = 3
  MaxExtras = 0
  MaxLosses = 0
  FirstId = 2
  InitialTrees <- NotLoaded
  ServerCopies <- SmallCopies
SPECIFICATION SyncSpec
PROPERTY NoItemTwice
CHECK_DEADLOCK FALSE
