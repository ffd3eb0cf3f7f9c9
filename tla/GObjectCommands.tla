-------------------------- MODULE GObjectCommands ---------------------------
(***************************************************************************)
(* The commands about graphical objects that platform.c writes to the pipe *)
(* of the back end, and the pipe.  A command has a name, the address of    *)
(* the object as its id, and at most one further argument here: points,    *)
(* sizes and angles go together.                                           *)
(*                                                                         *)
(* Numbers are written with %g and texts quoted.  %g writes a whole number *)
(* of at most six digits as it is, and the coordinates are such numbers.   *)
(***************************************************************************)
EXTENDS Integers, Sequences, FiniteSets

CONSTANTS
    Ids,            \* addresses that blocks for objects may have
    MaxAhead        \* bound: commands not yet read when an operation starts

ASSUME MaxAheadAssumption == MaxAhead \in Nat
ASSUME IdsAssumption == "NULL" \notin Ids

VARIABLES
    pipe,           \* commands on their way to the back end
    replies,        \* result lines on their way to the front end
    awaiting        \* whether the front end is in getResult

Null == "NULL"
WindowId == "gw"

Pair == [x: Int, y: Int]        \* a point; a dimension; the two angles of an arc
Point(x, y) == [x |-> x, y |-> y]

InteractorType == {"GButton", "GCheckBox", "GSlider", "GTextField", "GChooser"}
FillableType == {"GRect", "GRoundRect", "G3DRect", "GOval", "GArc", "GPolygon"}

\* A record with these fields and, for others, those of r; a table with o at id.
\* (The @@ of module TLC is not defined for the provers.)
fields ++ r == [f \in DOMAIN fields \cup DOMAIN r |->
                   IF f \in DOMAIN fields THEN fields[f] ELSE r[f]]
With(table, id, o) == [h \in DOMAIN table \cup {id} |-> IF h = id THEN o ELSE table[h]]

\* The only place of g in a list, and the list without it.
PlaceOf(s, g) == CHOOSE i \in 1..Len(s) : s[i] = g
Without(s, g) == SubSeq(s, 1, PlaceOf(s, g) - 1) \o SubSeq(s, PlaceOf(s, g) + 1, Len(s))

Command(op, id, arg) == [op |-> op, id |-> id, arg |-> arg]

\* putPipe: the commands, in the order written.
putPipe(commands) == Len(pipe) <= MaxAhead /\ pipe' = pipe \o commands

-----------------------------------------------------------------------------
\* GObject operations
setVisibleGObjectOp(g, flag) == Command("GObject.setVisible", g, flag)
setColorOp(g, color) == Command("GObject.setColor", g, color)
setLocationOp(g, pt) == Command("GObject.setLocation", g, pt)
drawOp(g) == Command("GWindow.draw", g, WindowId)
setSizeOp(g, size) == Command("GObject.setSize", g, size)
setFrameRectangleOp(g, pt, size) == Command("GArc.setFrameRectangle", g, <<pt, size>>)
setFilledOp(g, flag) == Command("GObject.setFilled", g, flag)
setFillColorOp(g, color) == Command("GObject.setFillColor", g, color)

createGRectOp(g, size) == Command("GRect.create", g, size)
createGRoundRectOp(g, size) == Command("GRoundRect.create", g, size)
createG3DRectOp(g, size, raised) == Command("G3DRect.create", g, <<size, raised>>)
setRaisedOp(g, raised) == Command("G3DRect.setRaised", g, raised)
createGOvalOp(g, size) == Command("GOval.create", g, size)

createGLineOp(g, pt0, pt1) == Command("GLine.create", g, <<pt0, pt1>>)
setStartPointOp(g, pt) == Command("GLine.setStartPoint", g, pt)
setEndPointOp(g, pt) == Command("GLine.setEndPoint", g, pt)

createGArcOp(g, size, angles) == Command("GArc.create", g, <<size, angles>>)
setStartAngleOp(g, angle) == Command("GArc.setStartAngle", g, angle)
setSweepAngleOp(g, angle) == Command("GArc.setSweepAngle", g, angle)

createGLabelOp(g, str) == Command("GLabel.create", g, str)
setFontOp(g, font) == Command("GLabel.setFont", g, font)
setLabelOp(g, str) == Command("GLabel.setLabel", g, str)
getFontAscentOp(g) == Command("GLabel.getFontAscent", g, Null)
getFontDescentOp(g) == Command("GLabel.getFontDescent", g, Null)
getGLabelSizeOp(g) == Command("GLabel.getGLabelSize", g, Null)

createGImageOp(g, filename) == Command("GImage.create", g, filename)
createGPolygonOp(g) == Command("GPolygon.create", g, Null)
addVertexOp(g, pt) == Command("GPolygon.addVertex", g, pt)

createGCompoundOp(g) == Command("GCompound.create", g, Null)
addOp(compound, g) == Command("GCompound.add", compound, g)
removeOp(g) == Command("GObject.remove", g, Null)
sendForwardOp(g) == Command("GObject.sendForward", g, Null)
sendToFrontOp(g) == Command("GObject.sendToFront", g, Null)
sendBackwardOp(g) == Command("GObject.sendBackward", g, Null)
sendToBackOp(g) == Command("GObject.sendToBack", g, Null)

-----------------------------------------------------------------------------
\* GInteractor operations.  setSelected and setText are sent under the names of
\* the queries, with one argument more than those take.
setActionCommandOp(g, cmd) == Command("GInteractor.setActionCommand", g, cmd)
getSizeOp(g) == Command("GInteractor.getSize", g, Null)
createGButtonOp(g, label) == Command("GButton.create", g, label)
createGCheckBoxOp(g) == Command("GCheckBox.create", g, FALSE)
isSelectedOp(g) == Command("GCheckBox.isSelected", g, <<>>)
setSelectedOp(g, state) == Command("GCheckBox.isSelected", g, <<state>>)
createGSliderOp(g, value) == Command("GSlider.create", g, value)
getValueOp(g) == Command("GSlider.getValue", g, Null)
setValueOp(g, value) == Command("GSlider.setValue", g, value)
createGTextFieldOp(g) == Command("GTextField.create", g, Null)
getTextOp(g) == Command("GTextField.getText", g, <<>>)
setTextOp(g, str) == Command("GTextField.getText", g, <<str>>)
createGChooserOp(g) == Command("GChooser.create", g, Null)
addItemOp(g, item) == Command("GChooser.addItem", g, item)
getSelectedItemOp(g) == Command("GChooser.getSelectedItem", g, Null)
setSelectedItemOp(g, item) == Command("GChooser.setSelectedItem", g, item)

\* GWindow operations
createGWindowOp(top) == Command("GWindow.create", WindowId, top)
clearOp == Command("GWindow.clear", WindowId, Null)
=============================================================================
