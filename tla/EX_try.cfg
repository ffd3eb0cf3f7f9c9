\* Every program of three try statements within each other.
\* A program that ended does no more: no deadlock check.
CONSTANTS
    Contexts = {c1, c2, c3}
    Null = null
    error = error
    control = control
    Exceptions <- BothExceptions
    ANY = any
    Clauses <- ThreeKinds
    Interrupts <- OneInterrupt
    MaxDepth = 3
SPECIFICATION Spec
SYMMETRY AnyContext
INVARIANTS TypeOK StackMatchesFrames
PROPERTIES JumpsFindTheirTry FinallyAlwaysBegins
CHECK_DEADLOCK FALSE
