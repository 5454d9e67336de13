SPECIFICATION Spec
CONSTANTS
  MaxDepth = 2
  MapOrder <- MCMapOrder
  Parses <- MCParses
  References <- MCReferences
  Execute <- MCExecute
  ReservedWords <- MCReservedWords
  ParsesAs <- MCParsesAs
  MaxNesting = 4
  Call <- MCNestedCall
  Frame <- MCFrame
  Result <- MCResult
  RootFrame <- RawRootFrame
  Results <- RawResults
  Children <- RawChildren
  Convert <- JsonToCelWithSchema
  Path <- MCPath
INVARIANT NoDefaultMissing
CHECK_DEADLOCK FALSE
