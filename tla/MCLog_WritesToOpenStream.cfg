CONSTANTS
  NONE = 0
  FATAL = 1
  ERROR = 2
  WARN = 3
  INFO = 4
  DEBUG = 5
  TRACE = 6
  CallLevels <- MCCallLevels
  Names <- MCNames
  MaxHandles = 6
  ErrInitStatus = "UNKNOWN_ERROR"
  NULL = NULL
SPECIFICATION Spec
INVARIANT WritesToOpenStream
