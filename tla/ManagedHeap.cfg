SPECIFICATION HeapSpec
CONSTANTS
  Constants <- MCConstants
  Builtins <- MCBuiltins
  Arities <- MCArities
  MaxRegisters = 4
  MaxDepth = 2
  MaxAllocations = 8
  Interval = 6

PROPERTIES ImplementsGraph NothingDeadIsKept
CHECK_DEADLOCK FALSE
