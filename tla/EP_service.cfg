\* The protocol implements EventService, and its operations return.
\* The program may stop calling and the user stop acting: no deadlock check.
CONSTANTS
    Windows = {w1}
    Timers = {tm}
    Nobody = Nobody
    Free = Free
    ToCap = 2
    FromCap = 3
    Calls = {"create", "getNextEvent", "waitForEvent", "close", "shape"}
    CallMasks <- WithAndWithoutWindow
    MaxCalls = 4
    Inputs = {"mouseMoved", "windowClosed"}
    MaxInputs = 2
SPECIFICATION FairSpec
PROPERTIES ImplementsService OperationReturns WaitServed
CHECK_DEADLOCK FALSE
