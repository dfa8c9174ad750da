CONSTANTS
  Node = {root, a, b, c}
  Root = root
  Nil = nil
  a = a
  b = b
  c = c
  Text = {t0, t1}
  EmptyText = t0
  MaxActions = 2
  MaxInFlight = 2
  MaxExtras = 0
  MaxLosses = 0
  FirstId = 2
  InitialTrees <- NotLoaded
  ServerCopies <- SmallCopies
SPECIFICATION SyncSpec
INVARIANT RequestsMatched
INVARIANT IdsUnique
INVARIANT Mirror
CHECK_DEADLOCK FALSE
