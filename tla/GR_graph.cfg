\* Graphs of two nodes and three or four arcs, built and taken down while loops run.
\* A program that has reached freed memory does nothing more: no deadlock check.
CONSTANTS
    Names = {1, 2}
    Costs = {0, 1}
    MaxNodes = 2
    MaxArcs = 4
    Programs <- MCPrograms
SPECIFICATION Spec
INVARIANTS TypeOK Consistent EachOnce FreedOnlyByUpset NeighborsConnected
CHECK_DEADLOCK FALSE
