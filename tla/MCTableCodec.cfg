SPECIFICATION CodecSpec
CONSTANTS
  NRows = 2
  NCols = 2
  Scalar = {x}
  Hook = Hook
  Wild = Wild
  MaxTables = 5
  MaxWrites = 2
INVARIANTS
  RowsAsTheyWere
  HoldersCounted
  RowsComeBack
  CellsReleasedOnce
  KeysBalance
PROPERTIES
  TableEnds
CHECK_DEADLOCK FALSE
