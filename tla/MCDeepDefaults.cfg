SPECIFICATION Spec
CONSTANTS
  MaxDepth = 2
  MapOrder <- MCMapOrder
  Parses <- MCParses
  References <- MCReferences
  Execute <- MCExecute
  ReservedWords <- MCReservedWords
  ParsesAs <- MCParsesAs
  MaxNesting = 4
  RawCall <- MCDeepCall
INVARIANT SameVerdict
CHECK_DEADLOCK FALSE
