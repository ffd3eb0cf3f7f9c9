-------------------------- MODULE GObjectsBackEnd ---------------------------
(***************************************************************************)
(* The back end's side of the graphical objects: the command loop, one     *)
(* command after another, with the handlers of JBECommand.java on the      *)
(* table of objects, and as much of the library acm.graphics as they use.  *)
(* A handler takes the back end b, as it is, to the back end as it leaves  *)
(* it.  A command about an id that is not in the table does nothing.       *)
(***************************************************************************)
EXTENDS GObjectCommands

CONSTANTS
    Metrics(_, _),  \* the size of a text in a font, and ...
    Ascent(_), Descent(_),  \* ... what a font rises and falls, in tenths
    ImageFiles,     \* files that hold an image, and ...
    ImageSize(_)    \* ... its size

ASSUME ImageAssumption == \A filename \in ImageFiles : ImageSize(filename) \in Pair

VARIABLES
    gobjTable,      \* the objects, by id
    canvas,         \* the window's canvas: its top compound, or Null
    image           \* the objects painted on the off-screen image, in order

backEndVars == <<gobjTable, canvas, image>>

\* What the handlers work on; replies are the results they print.
backEnd == [table |-> gobjTable, canvas |-> canvas, image |-> image, replies |-> replies]

\* An object of acm.graphics as its constructor leaves it.  parent is what
\* getParent returns.
NewGObject(t) ==
    [type |-> t, x |-> 0, y |-> 0, color |-> "BLACK", visible |-> TRUE, parent |-> Null]
NotFilled == [filled |-> FALSE, fillColor |-> Null]
OfSize(size) == [width |-> size.x, height |-> size.y]
OfLine(pt0, pt1) == [x |-> pt0.x, y |-> pt0.y,
                     width |-> pt1.x - pt0.x, height |-> pt1.y - pt0.y]

defineGObject(b, id, o) == [b EXCEPT !.table = With(@, id, o)]
Known(b, id) == id \in DOMAIN b.table
SetFields(b, id, fields) == [b EXCEPT !.table[id] = fields ++ @]

\* The object is updated, if the table has it and the cast of the handler holds.
Update(b, id, types, fields) ==
    IF Known(b, id) /\ b.table[id].type \in types THEN SetFields(b, id, fields) ELSE b

\* A reply is an answer, or the text of an exception.
Reply(b, answer) == [b EXCEPT !.replies = Append(@, <<"ok", answer>>)]
ReplyError(b, text) == [b EXCEPT !.replies = Append(@, <<"error", text>>)]

AnyType == FillableType \cup InteractorType \cup {"GLine", "GLabel", "GImage", "GCompound"}
ResizableType == {"GRect", "GRoundRect", "G3DRect", "GOval", "GImage"} \cup InteractorType

-----------------------------------------------------------------------------
GRect_create(b, id, size) ==
    defineGObject(b, id, NotFilled ++ OfSize(size) ++ NewGObject("GRect"))
GRoundRect_create(b, id, size) ==
    defineGObject(b, id, NotFilled ++ OfSize(size) ++ NewGObject("GRoundRect"))
G3DRect_create(b, id, size, raised) ==
    defineGObject(b, id, [raised |-> raised] ++ NotFilled ++ OfSize(size)
                         ++ NewGObject("G3DRect"))
G3DRect_setRaised(b, id, raised) == Update(b, id, {"G3DRect"}, [raised |-> raised])
GOval_create(b, id, size) ==
    defineGObject(b, id, NotFilled ++ OfSize(size) ++ NewGObject("GOval"))

GLine_create(b, id, pt0, pt1) ==
    defineGObject(b, id, OfLine(pt0, pt1) ++ NewGObject("GLine"))
GLine_setStartPoint(b, id, pt) ==
    LET o == b.table[id]
    IN Update(b, id, {"GLine"}, OfLine(pt, Point(o.x + o.width, o.y + o.height)))
GLine_setEndPoint(b, id, pt) == Update(b, id, {"GLine"}, OfLine(b.table[id], pt))

GArc_create(b, id, size, angles) ==
    defineGObject(b, id, [start |-> angles.x, sweep |-> angles.y] ++ NotFilled
                         ++ OfSize(size) ++ NewGObject("GArc"))
GArc_setStartAngle(b, id, angle) == Update(b, id, {"GArc"}, [start |-> angle])
GArc_setSweepAngle(b, id, angle) == Update(b, id, {"GArc"}, [sweep |-> angle])
GArc_setFrameRectangle(b, id, pt, size) ==
    Update(b, id, {"GArc"}, [x |-> pt.x, y |-> pt.y] ++ OfSize(size))

GPolygon_create(b, id) ==
    defineGObject(b, id, [vertices |-> <<>>] ++ NotFilled ++ NewGObject("GPolygon"))
GPolygon_addVertex(b, id, pt) ==
    Update(b, id, {"GPolygon"}, [vertices |-> Append(b.table[id].vertices, pt)])

NewGImage(filename) ==
    [filename |-> filename] ++ OfSize(ImageSize(filename)) ++ NewGObject("GImage")

\* Mutant: after the text of the exception comes the size.
GImage_answeredTwice(b, id, filename) ==
    IF filename \in ImageFiles
    THEN Reply(defineGObject(b, id, NewGImage(filename)), ImageSize(filename))
    ELSE Reply(ReplyError(b, "no image"), Point(0, 0))

\* Mutant: an image that cannot be read is passed over.
GImage_unanswered(b, id, filename) ==
    IF filename \in ImageFiles
    THEN Reply(defineGObject(b, id, NewGImage(filename)), ImageSize(filename))
    ELSE b

\* The object is made if the file holds an image; the reply is its size or else
\* the text of an exception.
GImage_create(b, id, filename) ==
    IF filename \in ImageFiles
    THEN Reply(defineGObject(b, id, NewGImage(filename)), ImageSize(filename))
    ELSE ReplyError(b, "no image")

-----------------------------------------------------------------------------
GLabel_create(b, id, str) ==
    defineGObject(b, id, [str |-> str, font |-> Null] ++ NewGObject("GLabel"))
GLabel_setFont(b, id, font) == Update(b, id, {"GLabel"}, [font |-> font])
GLabel_setLabel(b, id, str) == Update(b, id, {"GLabel"}, [str |-> str])

\* The queries do not ask whether the label is there: without it an exception
\* ends the command and nothing is answered.
GLabel_getFontAscent(b, id) ==
    IF Known(b, id) THEN Reply(b, Ascent(b.table[id].font)) ELSE b
GLabel_getFontDescent(b, id) ==
    IF Known(b, id) THEN Reply(b, Descent(b.table[id].font)) ELSE b
GLabel_getGLabelSize(b, id) ==
    IF Known(b, id) THEN Reply(b, Metrics(b.table[id].str, b.table[id].font)) ELSE b

-----------------------------------------------------------------------------
GObject_setLocation(b, id, pt) == Update(b, id, AnyType, [x |-> pt.x, y |-> pt.y])
GObject_setColor(b, id, color) == Update(b, id, AnyType, [color |-> color])
GObject_setVisible(b, id, flag) == Update(b, id, AnyType, [visible |-> flag])
GObject_setSize(b, id, size) == Update(b, id, ResizableType, OfSize(size))
GObject_setFilled(b, id, flag) == Update(b, id, FillableType, [filled |-> flag])
GObject_setFillColor(b, id, color) == Update(b, id, FillableType, [fillColor |-> color])

\* An object's appearance, which paint puts on the image if it is visible.
Appearance(o) == [f \in DOMAIN o \ {"parent", "children"} |-> o[f]]
GWindow_draw(b, id) ==
    IF b.canvas # Null /\ Known(b, id) /\ b.table[id].visible
    THEN [b EXCEPT !.image = Append(@, Appearance(b.table[id]))] ELSE b
GWindow_clear(b) == IF b.canvas # Null THEN [b EXCEPT !.image = <<>>] ELSE b
GWindow_create(b, top) == Reply([b EXCEPT !.canvas = top], "ok")

-----------------------------------------------------------------------------
GCompound_create(b, id) ==
    defineGObject(b, id, [children |-> <<>>] ++ NewGObject("GCompound"))

HasParent(b, id) == Known(b, id) /\ b.table[id].parent # Null
Siblings(b, id) == b.table[b.table[id].parent].children

\* What a command makes of the children of the object's parent, if it has one.
InParent(b, id, children) ==
    IF HasParent(b, id) THEN SetFields(b, b.table[id].parent, [children |-> children])
    ELSE b

Detached(b, id) == InParent(b, id, Without(Siblings(b, id), id))

\* An object moves from the compound that is its parent to the other.  An
\* interactor does not keep its parent (GInteractor.setParent).
GCompound_add(b, id, child) ==
    IF Known(b, id) /\ Known(b, child)
    THEN LET left == Detached(b, child)
             put == SetFields(left, id,
                              [children |-> Append(left.table[id].children, child)])
         IN SetFields(put, child, [parent |-> IF b.table[child].type \in InteractorType
                                              THEN Null ELSE id])
    ELSE b

GObject_remove(b, id) ==
    IF HasParent(b, id) THEN SetFields(Detached(b, id), id, [parent |-> Null]) ELSE b

Swapped(s, i, j) == [s EXCEPT ![i] = s[j], ![j] = s[i]]
Forward(s, id) == IF PlaceOf(s, id) = Len(s) THEN s
                  ELSE Swapped(s, PlaceOf(s, id), PlaceOf(s, id) + 1)
Backward(s, id) == IF PlaceOf(s, id) = 1 THEN s
                   ELSE Swapped(s, PlaceOf(s, id), PlaceOf(s, id) - 1)

GObject_sendForward(b, id) == InParent(b, id, Forward(Siblings(b, id), id))
GObject_sendToFront(b, id) == InParent(b, id, Append(Without(Siblings(b, id), id), id))
GObject_sendBackward(b, id) == InParent(b, id, Backward(Siblings(b, id), id))
GObject_sendToBack(b, id) == InParent(b, id, <<id>> \o Without(Siblings(b, id), id))

-----------------------------------------------------------------------------
\* The interactors; the size of one is asked for, its preferred size until set.
Interactor(t) == [actionCommand |-> ""] ++ NewGObject(t)

GButton_create(b, id, label) ==
    defineGObject(b, id, [actionCommand |-> label] ++ Interactor("GButton"))
GCheckBox_create(b, id) ==
    defineGObject(b, id, [selected |-> FALSE] ++ Interactor("GCheckBox"))
GSlider_create(b, id, value) ==
    defineGObject(b, id, [value |-> value] ++ Interactor("GSlider"))
GTextField_create(b, id) ==
    defineGObject(b, id, [text |-> ""] ++ Interactor("GTextField"))
GChooser_create(b, id) ==
    defineGObject(b, id, [items |-> {}, selected |-> "null"] ++ Interactor("GChooser"))

GInteractor_setActionCommand(b, id, cmd) ==
    Update(b, id, InteractorType, [actionCommand |-> cmd])
GInteractor_getSize(b, id) == Reply(b, "size")
GSlider_setValue(b, id, value) == Update(b, id, {"GSlider"}, [value |-> value])
GSlider_getValue(b, id) == Reply(b, IF Known(b, id) THEN b.table[id].value ELSE 0)

\* The first item is selected as it comes; only an item can be selected.
GChooser_addItem(b, id, item) ==
    LET o == b.table[id]
    IN Update(b, id, {"GChooser"},
              [items |-> o.items \cup {item},
               selected |-> IF o.items = {} THEN item ELSE o.selected])
GChooser_setSelectedItem(b, id, item) ==
    IF Known(b, id) /\ item \in b.table[id].items
    THEN Update(b, id, {"GChooser"}, [selected |-> item]) ELSE b
GChooser_getSelectedItem(b, id) ==
    Reply(b, IF Known(b, id) THEN b.table[id].selected ELSE "")

\* With one argument too many, verifyToken(")") ends the command by an exception:
\* neither is anything set nor is there a reply.
GCheckBox_isSelected(b, id, surplus) ==
    IF surplus # <<>> THEN b
    ELSE Reply(b, IF Known(b, id) THEN b.table[id].selected ELSE FALSE)
GTextField_getText(b, id, surplus) ==
    IF surplus # <<>> THEN b
    ELSE Reply(b, IF Known(b, id) THEN b.table[id].text ELSE "")

-----------------------------------------------------------------------------
BackEndInit == gobjTable = <<>> /\ canvas = Null /\ image = <<>>

\* The handler that the command's name is registered for.
Handle(b, c) ==
    CASE c.op = "GRect.create" -> GRect_create(b, c.id, c.arg)
      [] c.op = "GRoundRect.create" -> GRoundRect_create(b, c.id, c.arg)
      [] c.op = "G3DRect.create" -> G3DRect_create(b, c.id, c.arg[1], c.arg[2])
      [] c.op = "G3DRect.setRaised" -> G3DRect_setRaised(b, c.id, c.arg)
      [] c.op = "GOval.create" -> GOval_create(b, c.id, c.arg)
      [] c.op = "GLine.create" -> GLine_create(b, c.id, c.arg[1], c.arg[2])
      [] c.op = "GLine.setStartPoint" -> GLine_setStartPoint(b, c.id, c.arg)
      [] c.op = "GLine.setEndPoint" -> GLine_setEndPoint(b, c.id, c.arg)
      [] c.op = "GArc.create" -> GArc_create(b, c.id, c.arg[1], c.arg[2])
      [] c.op = "GArc.setStartAngle" -> GArc_setStartAngle(b, c.id, c.arg)
      [] c.op = "GArc.setSweepAngle" -> GArc_setSweepAngle(b, c.id, c.arg)
      [] c.op = "GArc.setFrameRectangle" -> GArc_setFrameRectangle(b, c.id, c.arg[1], c.arg[2])
      [] c.op = "GPolygon.create" -> GPolygon_create(b, c.id)
      [] c.op = "GPolygon.addVertex" -> GPolygon_addVertex(b, c.id, c.arg)
      [] c.op = "GImage.create" -> GImage_create(b, c.id, c.arg)
      [] c.op = "GLabel.create" -> GLabel_create(b, c.id, c.arg)
      [] c.op = "GLabel.setFont" -> GLabel_setFont(b, c.id, c.arg)
      [] c.op = "GLabel.setLabel" -> GLabel_setLabel(b, c.id, c.arg)
      [] c.op = "GLabel.getFontAscent" -> GLabel_getFontAscent(b, c.id)
      [] c.op = "GLabel.getFontDescent" -> GLabel_getFontDescent(b, c.id)
      [] c.op = "GLabel.getGLabelSize" -> GLabel_getGLabelSize(b, c.id)
      [] c.op = "GObject.setLocation" -> GObject_setLocation(b, c.id, c.arg)
      [] c.op = "GObject.setColor" -> GObject_setColor(b, c.id, c.arg)
      [] c.op = "GObject.setVisible" -> GObject_setVisible(b, c.id, c.arg)
      [] c.op = "GObject.setSize" -> GObject_setSize(b, c.id, c.arg)
      [] c.op = "GObject.setFilled" -> GObject_setFilled(b, c.id, c.arg)
      [] c.op = "GObject.setFillColor" -> GObject_setFillColor(b, c.id, c.arg)
      [] c.op = "GObject.remove" -> GObject_remove(b, c.id)
      [] c.op = "GObject.sendForward" -> GObject_sendForward(b, c.id)
      [] c.op = "GObject.sendToFront" -> GObject_sendToFront(b, c.id)
      [] c.op = "GObject.sendBackward" -> GObject_sendBackward(b, c.id)
      [] c.op = "GObject.sendToBack" -> GObject_sendToBack(b, c.id)
      [] c.op = "GCompound.create" -> GCompound_create(b, c.id)
      [] c.op = "GCompound.add" -> GCompound_add(b, c.id, c.arg)
      [] c.op = "GWindow.create" -> GWindow_create(b, c.arg)
      [] c.op = "GWindow.draw" -> GWindow_draw(b, c.id)
      [] c.op = "GWindow.clear" -> GWindow_clear(b)
      [] c.op = "GButton.create" -> GButton_create(b, c.id, c.arg)
      [] c.op = "GCheckBox.create" -> GCheckBox_create(b, c.id)
      [] c.op = "GSlider.create" -> GSlider_create(b, c.id, c.arg)
      [] c.op = "GTextField.create" -> GTextField_create(b, c.id)
      [] c.op = "GChooser.create" -> GChooser_create(b, c.id)
      [] c.op = "GInteractor.setActionCommand" -> GInteractor_setActionCommand(b, c.id, c.arg)
      [] c.op = "GInteractor.getSize" -> GInteractor_getSize(b, c.id)
      [] c.op = "GSlider.setValue" -> GSlider_setValue(b, c.id, c.arg)
      [] c.op = "GSlider.getValue" -> GSlider_getValue(b, c.id)
      [] c.op = "GCheckBox.isSelected" -> GCheckBox_isSelected(b, c.id, c.arg)
      [] c.op = "GTextField.getText" -> GTextField_getText(b, c.id, c.arg)
      [] c.op = "GChooser.addItem" -> GChooser_addItem(b, c.id, c.arg)
      [] c.op = "GChooser.setSelectedItem" -> GChooser_setSelectedItem(b, c.id, c.arg)
      [] c.op = "GChooser.getSelectedItem" -> GChooser_getSelectedItem(b, c.id)

\* commandLoop: the next line is executed.
Execute ==
    /\ pipe # <<>>
    /\ LET b == Handle(backEnd, Head(pipe))
       IN /\ gobjTable' = b.table /\ canvas' = b.canvas
          /\ image' = b.image /\ replies' = b.replies
    /\ pipe' = Tail(pipe)
    /\ UNCHANGED awaiting
=============================================================================
