\* A call that follows a NULL pointer.
\* After a crash or on freed nodes nothing more is done: no deadlock check.
CONSTANTS
    MaxKeys = 12
    MaxSpoilt = 12
SPECIFICATION Spec
INVARIANTS OperationsComplete
CHECK_DEADLOCK FALSE
