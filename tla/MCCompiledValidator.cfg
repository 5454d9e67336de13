SPECIFICATION Spec
CONSTANTS
  MaxDepth = 2
  MapOrder <- MCMapOrder
  Parses <- MCParses
  References <- MCReferences
  Execute <- MCExecute
  ReservedWords <- MCReservedWords
  ParsesAs <- MCParsesAs
  MaxNesting = 4
  Call <- MCCall
  Frame <- MCFrame
  Result <- MCResult
  RootFrame <- CompiledRootFrame
  Results <- CompiledResults
  Children <- CompiledChildren
  Convert <- JsonToCelWithCompiled
  Path <- MCPath
INVARIANTS
  FailClosed
  ReportedForCause
  OldOfTheSamePosition
CHECK_DEADLOCK FALSE
