SPECIFICATION Spec
CONSTANTS
  Scripts <- MCScripts
  BufferSize = 22
INVARIANTS ParsedAsWritten RunsAsWritten
PROPERTIES ConstantsKeep
CHECK_DEADLOCK FALSE
