CONSTANTS
  a = a
  b = b
  Doc <- TwoDocs
  NoDoc = 0
  Item = {a, b}
  NoItem = NoItem
  DocOf <- Owners
  ParentOf <- Parents
  IdOf <- SameIds
  MaxPages = 2
  MaxKeys = 2
  EditTrashold = 2
SPECIFICATION Spec
CHECK_DEADLOCK FALSE
INVARIANT EntryType
INVARIANT FieldSettles
INVARIANT EditsChain
INVARIANT ServerHasText
PROPERTY TypedArrives
