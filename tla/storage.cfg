CONSTANTS
  Node = {root, a, b, c}
  Root = root
  Nil = nil
  Text = {t0, t1}
  EmptyText = t0
  Ids = {2, 20}
  MaxChanges = 1
  MaxLabels = 1
SPECIFICATION Spec
PROPERTY SavedComesBack
PROPERTY PartComesBack
INVARIANT CopyWellFormed
INVARIANT StartsAgain
