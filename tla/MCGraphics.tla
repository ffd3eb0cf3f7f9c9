----------------------------- MODULE MCGraphics ------------------------------
(***************************************************************************)
(* A small instance of GraphicsMirror.  A program uses one group of        *)
(* operations, so that the states are the sum and not the product of what  *)
(* the groups can do.                                                      *)
(***************************************************************************)
EXTENDS GraphicsMirror, TLC

MCPoints == {[x |-> 0, y |-> 0], [x |-> 2, y |-> 1]}
MCSizes == {[x |-> 2, y |-> 2], [x |-> 3, y |-> 1]}
MCAngles == {0, 90}

\* A text is as wide as its font makes it; one file holds no image.
MCMetrics(str, font) == [x |-> IF str = "a" THEN 7 ELSE 9, y |-> IF font = "a" THEN 8 ELSE 12]
MCAscent(font) == IF font = "a" THEN 55 ELSE 100
MCDescent(font) == IF font = "a" THEN 12 ELSE 30
MCImageSize(filename) == [x |-> 4, y |-> 3]

Calling(n, calls) == [calls |-> calls, objects |-> n]

MCPrograms ==
    {  Calling(2, {"newGRect", "setLocation", "setBounds", "setSize"}),
       Calling(1, {"newGOval", "setColor", "setVisible"}),
       Calling(1, {"newG3DRect", "setRaised"}),
       Calling(1, {"newGRoundRect", "setFilled", "setFillColor", "move"}),
       Calling(2, {"newGLine", "setStartPoint", "setEndPoint"}),
       Calling(2, {"newGRect", "newGArc", "setStartAngle", "setSweepAngle", "setFrameRectangle"}),
       Calling(2, {"newGLine", "newGPolygon", "addVertex", "addEdge", "setFilled"}),
       Calling(2, {"newGCompound", "newGLabel", "setFont", "setLabel", "free"}),
       Calling(2, {"newGCompound", "newGImage", "setSize", "free"}),
       Calling(3, {"newGCompound", "newGImage", "newGPolygon", "add", "remove", "free"}),
       Calling(3, {"newGCompound", "newGRect", "add", "setVisible"}),
       Calling(3, {"newGWindow", "newGOval", "addAt", "remove", "setLocation"}),
       Calling(3, {"newGCompound", "newGOval", "add", "remove", "free"}),
       Calling(3, {"newGCompound", "newGRect", "add", "sendToFront", "sendBackward"}),
       Calling(3, {"newGCompound", "newGLine", "add", "sendForward", "sendToBack"}),
       Calling(3, {"newGCompound", "newGButton", "newGLine", "setActionCommand", "add", "remove"}),
       Calling(2, {"newGCompound", "newGSlider", "setValue", "getValue"}),
       Calling(2, {"newGCompound", "newGCheckBox", "isSelected", "setSelected", "getSize", "setSize"}),
       Calling(2, {"newGCompound", "newGTextField", "getText", "setText", "setActionCommand"}),
       Calling(2, {"newGCompound", "newGChooser", "addItem", "setSelectedItem", "getSelectedItem"}),
       Calling(2, {"newGWindow", "fillRect", "clear", "setColorGWindow"}),
       Calling(2, {"newGWindow", "fillOval", "drawLine"}),
       Calling(2, {"newGWindow", "drawOval", "drawRect"}),
       Calling(2, {"newGWindow", "newGRect", "draw", "setVisible", "setColor"}) }

\* No action tells one address from another.
AnyAddress == Permutations(Ids)
=============================================================================
