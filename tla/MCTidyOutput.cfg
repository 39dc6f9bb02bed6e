SPECIFICATION Spec
CONSTANTS
  Paths <- MCPaths
  Numbers <- MCNumbers
  TextWords <- MCTextWords
  Messages <- MCMessages
  CodeTexts <- MCCodeTexts
  Outputs <- MCOutputs
INVARIANTS
  TypeOK
  PlainDiagnosticsRead
  DetailsComplete
CHECK_DEADLOCK FALSE
