\* Every tree of at most 12 keys, and what is made of those a removal spoils.
\* After a crash or on freed nodes nothing more is done: no deadlock check.
CONSTANTS
    MaxKeys = 12
    MaxSpoilt = 6
SPECIFICATION Spec
INVARIANTS HoldsItsKeys
PROPERTIES SpoiltOnlyByLargeRemoval
CHECK_DEADLOCK FALSE
