SPECIFICATION Spec
CONSTANTS
  Paths <- MCPaths
  Numbers <- MCNumbers
  TextWords <- MCTextWords
  Messages <- MCMessages
  CodeTexts <- MCCodeTexts
  Outputs <- MCOutputs
INVARIANT
  AllDiagnosticsRead
CHECK_DEADLOCK FALSE
