\* Twenty-four programs with at most three objects.
\* A program that has crashed does nothing more: no deadlock check.
CONSTANTS
    Ids = {o1, o2, o3}
    MaxAhead = 1
    Points <- MCPoints
    Sizes <- MCSizes
    Angles <- MCAngles
    Colors = {"RED"}
    Strings = {"a", "b"}
    Programs <- MCPrograms
    MaxParts = 2
    MaxDrawn = 2
    Metrics <- MCMetrics
    Ascent <- MCAscent
    Descent <- MCDescent
    ImageFiles = {"a"}
    ImageSize <- MCImageSize
SPECIFICATION Spec
INVARIANTS TypeOK Mirror ContentsMirror HitIsTopmost ImageMirror Answered
SYMMETRY AnyAddress
CHECK_DEADLOCK FALSE
