CONSTANTS
  a = a
  b = b
  c = c
  Doc <- ThreeDocs
  NoDoc = 0
  Item = {a, b, c}
  NoItem = NoItem
  DocOf <- Owners
  ParentOf <- Parents
  MaxPages = 4
SPECIFICATION GuiSpec
CHECK_DEADLOCK FALSE
INVARIANT TabsMatch
INVARIANT ShownComplete
PROPERTY SelectShows
