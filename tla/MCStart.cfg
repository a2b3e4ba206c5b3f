SPECIFICATION Spec
CONSTANTS
  Arguments <- MCArguments
  MaxArguments = 3
  NumberOf <- MCNumberOf
INVARIANTS
  LogsInAsTold
  PlainNeverFaults
  EveryHandlerHeard
CHECK_DEADLOCK FALSE
