CONSTANTS
  Node = {root, a, b, c}
  Root = root
  Nil = nil
  a = a
  b = b
  c = c
  Text = {t0, t1}
  EmptyText = t0
  MaxActions = 1
  MaxInFlight = 2
  MaxExtras = 2
  MaxLosses = 1
  FirstId = 2
  InitialTrees <- NotLoaded
  ServerCopies <- SmallCopies
SPECIFICATION MCSpec
CHECK_DEADLOCK FALSE
INVARIANT Mirror
INVARIANT ModifiedTells
PROPERTY RestartHarmless
