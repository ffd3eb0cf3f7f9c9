\* A getter whose reply is printed without the lock.
\* The program may stop calling and the user stop acting: no deadlock check.
CONSTANTS
    Windows = {w1}
    Timers = {tm}
    Nobody = Nobody
    Free = Free
    ToCap = 2
    FromCap = 3
    Calls = {"create", "waitForEvent", "getText"}
    CallMasks <- MouseOnly
    MaxCalls = 4
    Inputs = {"mouseMoved"}
    MaxInputs = 2
SPECIFICATION FairSpec
PROPERTIES OperationReturns
CHECK_DEADLOCK FALSE
