\* An event asked for with one mask and returned to a call with another.
\* The program may stop calling and the user stop acting: no deadlock check.
CONSTANTS
    Windows = {w1}
    Timers = {tm}
    Nobody = Nobody
    Free = Free
    ToCap = 2
    FromCap = 3
    Calls = {"create", "getNextEvent", "waitForEvent"}
    CallMasks <- MouseOrTimer
    MaxCalls = 4
    Inputs = {"mouseMoved"}
    MaxInputs = 3
SPECIFICATION Spec
INVARIANTS ReturnsWhatWasAskedFor
CHECK_DEADLOCK FALSE
