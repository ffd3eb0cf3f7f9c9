------------------------------- MODULE Geometry -------------------------------
(***************************************************************************)
(* Where graphical objects are: the bounds of an object and the points it  *)
(* contains (gobjects.c), and the points and rectangles of gtypes.c.       *)
(*                                                                         *)
(* Lengths are integers.  Divisions are multiplied out, with twice the     *)
(* distances from a centre, so that they are exact.  Angles are multiples  *)
(* of 45 degrees, those of arcs whose bounds are asked for of 90.          *)
(***************************************************************************)
EXTENDS Integers, Sequences

CONSTANT ArcTolerance       \* ARC_TOLERANCE in the unit of length

------------------------------------------------------------------------------
(* gtypes.c *)
createGPoint(x, y) == [x |-> x, y |-> y]
createGDimension(width, height) == [width |-> width, height |-> height]
createGRectangle(x, y, width, height) == [x |-> x, y |-> y, width |-> width, height |-> height]
isEmptyGRectangle(r) == r.width <= 0 \/ r.height <= 0
containsGRectangle(r, pt) ==
    /\ r.x <= pt.x /\ pt.x < r.x + r.width
    /\ r.y <= pt.y /\ pt.y < r.y + r.height

------------------------------------------------------------------------------
(* gmath.c, on multiples of 90 degrees. *)
sinDegrees(angle) ==
    CASE angle % 360 = 90 -> 1 [] angle % 360 = 270 -> -1 [] angle % 180 = 0 -> 0
cosDegrees(angle) == sinDegrees(angle + 90)

\* atan2(-dy, dx) * 180 / PI, on and between the axes and diagonals.
DegreesOf(dx, dy) ==
    CASE dx = 0 /\ dy = 0 -> 0
      [] dx > 0 /\ dy = 0 -> 0
      [] dx > 0 /\ dy < 0 -> 45
      [] dx = 0 /\ dy < 0 -> 90
      [] dx < 0 /\ dy < 0 -> 135
      [] dx < 0 /\ dy = 0 -> 180
      [] dx < 0 /\ dy > 0 -> -135
      [] dx = 0 /\ dy > 0 -> -90
      [] dx > 0 /\ dy > 0 -> -45

------------------------------------------------------------------------------
(* gobjects.c *)
fmin(a, b) == IF a <= b THEN a ELSE b
fmax(a, b) == IF a >= b THEN a ELSE b
fabs(a) == IF a < 0 THEN -a ELSE a

\* An angle from 0 to 360.
Reduced(angle) == IF angle < 0 THEN 360 - ((-angle) % 360) ELSE angle % 360
containsAngle(arc, theta) ==
    LET sweep == fabs(arc.sweep)
        start == Reduced(fmin(arc.start, arc.start + arc.sweep))
        angle == Reduced(theta)
    IN \/ sweep >= 360
       \/ start + sweep > 360 /\ (angle >= start \/ angle <= start + sweep - 360)
       \/ start + sweep <= 360 /\ angle >= start /\ angle <= start + sweep

\* With twice the distances, r = Square / Unit.
Square(o, dx, dy) == dx * dx * o.height * o.height + dy * dy * o.width * o.width
Unit(o) == o.width * o.width * o.height * o.height
containsGOval(o, x, y) ==
    LET dx == 2 * x - (2 * o.x + o.width)
        dy == 2 * y - (2 * o.y + o.height)
    IN o.width # 0 /\ o.height # 0 /\ Square(o, dx, dy) <= Unit(o)
containsGArc(arc, x, y) ==
    LET dx == 2 * x - (2 * arc.x + arc.width)
        dy == 2 * y - (2 * arc.y + arc.height)
    IN /\ arc.width # 0 /\ arc.height # 0
       /\ IF arc.filled THEN Square(arc, dx, dy) <= Unit(arc)
          ELSE fabs(Unit(arc) - Square(arc, dx, dy)) * (arc.width + arc.height)
               <= 4 * ArcTolerance * Unit(arc)
       /\ containsAngle(arc, DegreesOf(dx, dy))

\* The edges from one vertex to the next, and from the last to the first unless
\* they are the same.
Edges(vertices) ==
    LET n == IF vertices[1] = vertices[Len(vertices)] THEN Len(vertices) - 1 ELSE Len(vertices)
    IN [i \in 1..n |-> <<vertices[i], vertices[(i % n) + 1]>>]
Crosses(edge, x, y) ==
    LET x0 == edge[1].x  y0 == edge[1].y  x1 == edge[2].x  y1 == edge[2].y
        ahead == (x - x0) * (y1 - y0) - (x1 - x0) * (y - y0)
    IN (y0 > y) # (y1 > y) /\ IF y1 > y0 THEN ahead < 0 ELSE ahead > 0
containsGPolygon(poly, x, y) ==
    /\ Len(poly.vertices) >= 2
    /\ Len(SelectSeq(Edges(poly.vertices), LAMBDA edge : Crosses(edge, x, y))) % 2 = 1

containsGObject(o, x, y) ==
    CASE o.type = "GOval" -> containsGOval(o, x, y)
      [] o.type = "GArc" -> containsGArc(o, x, y)
      [] o.type = "GPolygon" -> containsGPolygon(o, x, y)
      [] OTHER -> x >= o.x /\ y >= o.y /\ x <= o.x + o.width /\ y <= o.y + o.height

\* y is taken from x.
getBoundsGLine(line) ==
    createGRectangle(fmin(line.x, line.x + line.width), fmin(line.x, line.x + line.width),
                     fabs(line.width), fabs(line.height))

\* All lengths are doubled.
ArcX(arc, angle) == 2 * arc.x + arc.width + cosDegrees(angle) * arc.width
ArcY(arc, angle) == 2 * arc.y + arc.height - sinDegrees(angle) * arc.height
getBoundsGArc(arc) ==
    LET cx == 2 * arc.x + arc.width
        cy == 2 * arc.y + arc.height
        end == arc.start + arc.sweep
        xMin == IF containsAngle(arc, 180) THEN cx - arc.width
                ELSE fmin(ArcX(arc, arc.start), ArcX(arc, end))
        xMax == IF containsAngle(arc, 0) THEN cx + arc.width
                ELSE fmax(ArcX(arc, arc.start), ArcX(arc, end))
        yMin == IF containsAngle(arc, 90) THEN cy - arc.height
                ELSE fmin(ArcY(arc, arc.start), ArcY(arc, end))
        yMax == IF containsAngle(arc, 270) THEN cy + arc.height
                ELSE fmax(ArcY(arc, arc.start), ArcY(arc, end))
        left == IF arc.filled THEN fmin(xMin, cx) ELSE xMin
        right == IF arc.filled THEN fmax(xMax, cx) ELSE xMax
        top == IF arc.filled THEN fmin(yMin, cy) ELSE yMin
        bottom == IF arc.filled THEN fmax(yMax, cy) ELSE yMax
    IN createGRectangle(left, top, right - left, bottom - top)

getBoundsGLabel(label) ==
    createGRectangle(label.x, label.y - label.ascent, label.width, label.height)

\* One pass of the loop of getBoundsGPolygon, with the least and greatest so far.
Stretch(box, pt) ==
    [xMin |-> fmin(box.xMin, pt.x), yMin |-> fmin(box.yMin, pt.y),
     xMax |-> fmax(box.xMax, pt.x), yMax |-> fmax(box.yMax, pt.y)]
BoxUpTo(vertices) ==
    LET box[i \in 1..Len(vertices)] ==
            IF i = 1 THEN [xMin |-> vertices[1].x, yMin |-> vertices[1].y,
                           xMax |-> vertices[1].x, yMax |-> vertices[1].y]
            ELSE Stretch(box[i - 1], vertices[i])
    IN box[Len(vertices)]
getBoundsGPolygon(poly) ==
    IF poly.vertices = <<>> THEN createGRectangle(0, 0, 0, 0)
    ELSE LET box == BoxUpTo(poly.vertices)
         IN createGRectangle(box.xMin, box.yMin, box.xMax - box.xMin, box.yMax - box.yMin)

\* In twice the unit of length for arcs.
getBounds(o) ==
    CASE o.type = "GArc" -> getBoundsGArc(o)
      [] o.type = "GLine" -> getBoundsGLine(o)
      [] o.type = "GLabel" -> getBoundsGLabel(o)
      [] o.type = "GPolygon" -> getBoundsGPolygon(o)
      [] OTHER -> createGRectangle(o.x, o.y, o.width, o.height)

\* The test is inverted: a line is the type refused.
getStartPoint(o) == IF o.type # "GLine" THEN createGPoint(o.x, o.y) ELSE "error"
getEndPoint(o) ==
    IF o.type # "GLine" THEN createGPoint(o.x + o.width, o.y + o.height) ELSE "error"
===============================================================================
