\* Two windows and a timer: replies, wakeups, sources, the window count, and waiting for room in pipes of the least capacity.
\* The program may stop calling and the user stop acting: no deadlock check.
CONSTANTS
    Windows = {w1, w2}
    Timers = {tm}
    Nobody = Nobody
    Free = Free
    ToCap = 1
    FromCap = 2
    Calls = {"create", "createReal", "pause", "getText", "getNextEvent", "waitForEvent", "close", "createTimer", "startTimer", "stopTimer", "deleteTimer"}
    CallMasks <- MouseAndTimer
    MaxCalls = 5
    Inputs = {"mouseMoved", "windowClosed", "timerTicked"}
    MaxInputs = 2
SPECIFICATION Spec
INVARIANTS TypeOK OneOutstanding NoLostWakeup CircularWaitOnlyInClosing ExitsWithLastWindow EventsHaveSources
SYMMETRY AnyWindow
CHECK_DEADLOCK FALSE
