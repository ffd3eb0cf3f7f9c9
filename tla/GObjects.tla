------------------------------ MODULE GObjects -------------------------------
(***************************************************************************)
(* The graphical objects of a program (gobjects.c, gwindow.c): the fields  *)
(* a GObject has in C, and the commands that each operation sends to have  *)
(* the back end's object follow.  The operations that ask the back end     *)
(* wait for its answer.                                                    *)
(*                                                                         *)
(* Client discipline, which the code leaves to the program: an object is   *)
(* used until it is freed, is in one compound at most, is removed from the *)
(* compound it is in, and is freed when it is in none; an interactor stays *)
(* where it is, because the back end does not take it out again.           *)
(***************************************************************************)
EXTENDS GObjectCommands

CONSTANTS
    Points, Sizes, Angles, Colors, Strings, \* what the program passes
    Programs,       \* programs: the operations one calls, and how many objects
                    \* it has at a time
    MaxParts,       \* bound: vertices of a polygon, objects in a compound
    MaxDrawn        \* bound: objects drawn before the window is cleared

\* %g writes the coordinates exactly, those of displacements too.
Coordinate == -99999..99999
ASSUME PointsAssumption ==
    /\ Points \subseteq Pair /\ Sizes \subseteq Pair
    /\ \A p \in Points \cup Sizes : p.x \in Coordinate /\ p.y \in Coordinate
ASSUME BoundsAssumption == MaxDrawn \in Nat

VARIABLES
    program,        \* the program that runs, one of Programs
    status,         \* "ok"; "crashed" on a table or pipe that does not exist
    initialized,    \* whether initPlatform has been called
    gw,             \* the window [top, color]; top is Null before it is made
    objects,        \* the live objects, by address
    todo,           \* what the operation in progress has still to ask
    drawn,          \* history: objects as they were drawn since the last clear
    restacked       \* history: compounds whose objects were sent forward or back

clientVars == <<program, status, initialized, gw, objects, todo, drawn, restacked>>
sentVars == <<awaiting, replies>>

NoFont == "Dialog-13"
Unset == "unset"

newGObject(t) ==
    [type |-> t, x |-> 0, y |-> 0, width |-> 0, height |-> 0, color |-> "BLACK",
     fillColor |-> Null, filled |-> FALSE, visible |-> TRUE]

At(pt) == [x |-> pt.x, y |-> pt.y]
Sized(size) == [width |-> size.x, height |-> size.y]

InCompound(g) ==
    \E c \in DOMAIN objects : /\ objects[c].type = "GCompound"
                              /\ \E i \in 1..Len(objects[c].contents) :
                                     objects[c].contents[i] = g

\* The program may call op now.
May(op) == /\ status = "ok" /\ todo = <<>> /\ ~awaiting
           /\ op \in program.calls
Of(g, types) == g \in DOMAIN objects /\ objects[g].type \in types

\* The addresses a new object may get.
Free == IF Cardinality(DOMAIN objects) < program.objects
        THEN Ids \ DOMAIN objects ELSE {}

\* The rest of an operation that does not draw, restack or ask.
Quietly == UNCHANGED <<program, gw, drawn, restacked, sentVars>>

\* An operation that sets fields of g, sends the commands, and asks the queries.
Ask(g, fields, commands, queries) ==
    /\ objects' = [objects EXCEPT ![g] = fields ++ @]
    /\ putPipe(commands) /\ todo' = queries
    /\ UNCHANGED <<status, initialized>> /\ Quietly

Change(g, fields, commands) == Ask(g, fields, commands, <<>>)

\* An operation that makes an object g with the fields, at a free address, and
\* sends the commands; then it asks, for each query, for the fields it sets.
\* first: whether initPlatform is called before; without it there may be no pipe.
Make(g, t, fields, first, commands, queries) ==
    /\ initialized' = (initialized \/ first)
    /\ IF initialized \/ first
       THEN /\ objects' = With(objects, g, fields ++ newGObject(t))
            /\ putPipe(commands) /\ todo' = queries
            /\ UNCHANGED status
       ELSE status' = "crashed" /\ UNCHANGED <<objects, pipe, todo>>
    /\ Quietly

-----------------------------------------------------------------------------
\* What every object can do.
freeGObject(g) ==
    /\ May("free") /\ g \in DOMAIN objects /\ ~InCompound(g) /\ ~Of(g, InteractorType)
    /\ g # gw.top
    /\ Of(g, {"GCompound"}) => objects[g].contents = <<>>
    /\ objects' = [h \in DOMAIN objects \ {g} |-> objects[h]]
    /\ UNCHANGED <<status, initialized, pipe, todo>> /\ Quietly

setLocation(g, pt) ==
    /\ May("setLocation") /\ g \in DOMAIN objects
    /\ Change(g, At(pt), <<setLocationOp(g, pt)>>)

move(g, d) ==
    LET to == Point(objects[g].x + d.x, objects[g].y + d.y)
    IN /\ May("move") /\ g \in DOMAIN objects /\ to \in Points
       /\ Change(g, At(to), <<setLocationOp(g, to)>>)

setColor(g, color) ==
    /\ May("setColor") /\ g \in DOMAIN objects
    /\ Change(g, [color |-> color], <<setColorOp(g, color)>>)

setVisible(g, flag) ==
    /\ May("setVisible") /\ g \in DOMAIN objects
    /\ Change(g, [visible |-> flag], <<setVisibleGObjectOp(g, flag)>>)

\* The size of others is an error of the program.
setSize(g, size) ==
    /\ May("setSize") /\ Of(g, {"GRect", "GOval", "GImage"} \cup InteractorType)
    /\ Change(g, Sized(size), <<setSizeOp(g, size)>>)

setBounds(g, pt, size) ==
    /\ May("setBounds") /\ Of(g, {"GRect", "GOval", "GImage"} \cup InteractorType)
    /\ Change(g, Sized(size) ++ At(pt), <<setSizeOp(g, size), setLocationOp(g, pt)>>)

setFilled(g, flag) ==
    /\ May("setFilled") /\ Of(g, FillableType)
    /\ Change(g, [filled |-> flag], <<setFilledOp(g, flag)>>)

\* No type is checked: a label gets a fill color that only C knows of.
setFillColor(g, color) ==
    /\ May("setFillColor") /\ g \in DOMAIN objects
    /\ Change(g, [fillColor |-> color], <<setFillColorOp(g, color)>>)

\* The four stacking operations leave the contents in C as they are.
Restack(name, g, command) ==
    /\ May(name) /\ g \in DOMAIN objects
    /\ putPipe(<<command>>)
    /\ restacked' = restacked \cup {c \in DOMAIN objects :
           objects[c].type = "GCompound" /\ g \in {objects[c].contents[i] :
                                                   i \in 1..Len(objects[c].contents)}}
    /\ UNCHANGED <<program, status, initialized, gw, objects, todo, drawn, sentVars>>

sendForward(g) == Restack("sendForward", g, sendForwardOp(g))
sendToFront(g) == Restack("sendToFront", g, sendToFrontOp(g))
sendBackward(g) == Restack("sendBackward", g, sendBackwardOp(g))
sendToBack(g) == Restack("sendToBack", g, sendToBackOp(g))

-----------------------------------------------------------------------------
newGRect(pt, size) ==
    /\ May("newGRect")
    /\ \E g \in Free :
           Make(g, "GRect", At(pt) ++ Sized(size), TRUE,
                <<createGRectOp(g, size), setLocationOp(g, pt)>>, <<>>)

newGRoundRect(pt, size) ==
    /\ May("newGRoundRect")
    /\ \E g \in Free :
           Make(g, "GRoundRect", At(pt) ++ Sized(size), TRUE,
                <<createGRoundRectOp(g, size), setLocationOp(g, pt)>>, <<>>)

newG3DRect(pt, size, raised) ==
    /\ May("newG3DRect")
    /\ \E g \in Free :
           Make(g, "G3DRect", [raised |-> raised] ++ At(pt) ++ Sized(size), TRUE,
                <<createG3DRectOp(g, size, raised), setLocationOp(g, pt)>>, <<>>)

setRaised(g, raised) ==
    /\ May("setRaised") /\ Of(g, {"G3DRect"})
    /\ Change(g, [raised |-> raised], <<setRaisedOp(g, raised)>>)

newGOval(pt, size) ==
    /\ May("newGOval")
    /\ \E g \in Free :
           Make(g, "GOval", At(pt) ++ Sized(size), TRUE,
                <<createGOvalOp(g, size), setLocationOp(g, pt)>>, <<>>)

\* A line has its start point and the displacement to its end.
LineFields(pt0, pt1) ==
    At(pt0) ++ Sized(Point(pt1.x - pt0.x, pt1.y - pt0.y))

newGLine(pt0, pt1) ==
    /\ May("newGLine")
    /\ \E g \in Free :
           Make(g, "GLine", LineFields(pt0, pt1), TRUE,
                <<createGLineOp(g, pt0, pt1)>>, <<>>)

EndOf(line) == Point(line.x + line.width, line.y + line.height)

\* Mutant: the end point moves with the start point.
setStartPointOnly(g, pt) ==
    /\ May("setStartPoint") /\ Of(g, {"GLine"})
    /\ Change(g, At(pt), <<setStartPointOp(g, pt)>>)

setStartPoint(g, pt) ==
    /\ May("setStartPoint") /\ Of(g, {"GLine"})
    /\ Change(g, LineFields(pt, EndOf(objects[g])), <<setStartPointOp(g, pt)>>)

setEndPoint(g, pt) ==
    /\ May("setEndPoint") /\ Of(g, {"GLine"})
    /\ Change(g, LineFields(objects[g], pt), <<setEndPointOp(g, pt)>>)

newGArc(pt, size, angles) ==
    /\ May("newGArc")
    /\ \E g \in Free :
           Make(g, "GArc", [start |-> angles.x, sweep |-> angles.y] ++ At(pt) ++ Sized(size),
                FALSE,
                <<createGArcOp(g, size, angles), setLocationOp(g, pt)>>, <<>>)

setStartAngle(g, angle) ==
    /\ May("setStartAngle") /\ Of(g, {"GArc"})
    /\ Change(g, [start |-> angle], <<setStartAngleOp(g, angle)>>)

setSweepAngle(g, angle) ==
    /\ May("setSweepAngle") /\ Of(g, {"GArc"})
    /\ Change(g, [sweep |-> angle], <<setSweepAngleOp(g, angle)>>)

setFrameRectangle(g, pt, size) ==
    /\ May("setFrameRectangle") /\ Of(g, {"GArc"})
    /\ Change(g, At(pt) ++ Sized(size), <<setFrameRectangleOp(g, pt, size)>>)

newGPolygon ==
    /\ May("newGPolygon")
    /\ \E g \in Free :
           Make(g, "GPolygon", [vertices |-> <<>>], FALSE,
                <<createGPolygonOp(g)>>, <<>>)

\* addVertex, and addEdge from the last vertex, the current point.
addVertex(g, pt) ==
    /\ May("addVertex") /\ Of(g, {"GPolygon"})
    /\ Len(objects[g].vertices) < MaxParts
    /\ Change(g, [vertices |-> Append(objects[g].vertices, pt)], <<addVertexOp(g, pt)>>)

CurrentPoint(poly) == IF poly.vertices = <<>> THEN Point(0, 0)
                      ELSE poly.vertices[Len(poly.vertices)]
addEdge(g, d) ==
    LET from == CurrentPoint(objects[g])
        to == Point(from.x + d.x, from.y + d.y)
    IN /\ May("addEdge") /\ Of(g, {"GPolygon"}) /\ to \in Points
       /\ Len(objects[g].vertices) < MaxParts
       /\ Change(g, [vertices |-> Append(objects[g].vertices, to)], <<addVertexOp(g, to)>>)

-----------------------------------------------------------------------------
\* Operations that ask.  A query names the fields its answer is stored in, or is
\* the program's own question.
Query(command, field) == [command |-> command, field |-> field]

SizeQuery(g) == <<Query(getGLabelSizeOp(g), "size")>>
DescentQueries(g) == <<Query(getFontDescentOp(g), "descent")>> \o SizeQuery(g)
FontQueries(g) == <<Query(getFontAscentOp(g), "ascent")>> \o DescentQueries(g)

\* createGLabelOp and setFont with the default font.
newGLabel(str) ==
    /\ May("newGLabel")
    /\ \E g \in Free :
           Make(g, "GLabel", [str |-> str, font |-> NoFont, ascent |-> 0, descent |-> 0], FALSE,
                <<createGLabelOp(g, str), setFontOp(g, NoFont)>>, FontQueries(g))

setFont(g, font) ==
    /\ May("setFont") /\ Of(g, {"GLabel"})
    /\ Ask(g, [font |-> font], <<setFontOp(g, font)>>, FontQueries(g))

setLabel(g, str) ==
    /\ May("setLabel") /\ Of(g, {"GLabel"})
    /\ Ask(g, [str |-> str], <<setLabelOp(g, str)>>, SizeQuery(g))

newGImage(filename) ==
    /\ May("newGImage")
    /\ \E g \in Free :
           Make(g, "GImage", [filename |-> filename], FALSE, <<>>,
                <<Query(createGImageOp(g, filename), "size")>>)

\* getSize, isSelected, getValue, getText, getSelectedItem of an interactor.
AskInteractor(g, types, command) ==
    /\ Of(g, types)
    /\ Ask(g, <<>>, <<>>, <<Query(command, "none")>>)

getSize(g) == May("getSize") /\ AskInteractor(g, InteractorType, getSizeOp(g))
isSelected(g) == May("isSelected") /\ AskInteractor(g, {"GCheckBox"}, isSelectedOp(g))
getValue(g) == May("getValue") /\ AskInteractor(g, {"GSlider"}, getValueOp(g))
getText(g) == May("getText") /\ AskInteractor(g, {"GTextField"}, getTextOp(g))
getSelectedItem(g) ==
    May("getSelectedItem") /\ AskInteractor(g, {"GChooser"}, getSelectedItemOp(g))

\* The next question goes out, and getResult waits.
SendQuery ==
    /\ todo # <<>> /\ ~awaiting
    /\ putPipe(<<Head(todo).command>>) /\ awaiting' = TRUE
    /\ UNCHANGED <<clientVars, replies>>

\* getGDimension does not ask whether sscanf found a dimension: of the text of an
\* exception it makes whatever its two variables hold, here any of Sizes.
getGDimension(reply) == IF reply[1] = "ok" THEN {reply[2]} ELSE Sizes

\* getDouble returns an int: what the number is in whole pixels, all in tenths.
Whole(tenths) == 10 * (tenths \div 10)
getDouble(reply) == Whole(reply[2])

\* The answer is stored.  The object of an image that could not be read lives on
\* as the others do.
GetResult ==
    LET g == Head(todo).command.id
        field == Head(todo).field
        reply == Head(replies)
        Stored(fields) == [objects EXCEPT ![g] = fields ++ @]
    IN /\ awaiting /\ replies # <<>>
       /\ replies' = Tail(replies) /\ awaiting' = FALSE /\ todo' = Tail(todo)
       /\ objects' \in CASE field = "size" -> {Stored(Sized(size)) : size \in getGDimension(reply)}
                        [] field = "ascent" -> {Stored([ascent |-> getDouble(reply)])}
                        [] field = "descent" -> {Stored([descent |-> getDouble(reply)])}
                        [] OTHER -> {objects}
       /\ UNCHANGED <<program, status, initialized, gw, drawn, restacked, pipe>>

-----------------------------------------------------------------------------
\* Compounds.  Nothing sets the parent of an object in C.
newGCompound ==
    /\ May("newGCompound")
    /\ \E g \in Free :
           Make(g, "GCompound", [contents |-> <<>>], TRUE,
                <<createGCompoundOp(g)>>, <<>>)

\* An object is not put into itself or into one of its own parts.
MayContain(c, g) == Of(g, {"GCompound"}) => g # c /\ objects[g].contents = <<>>

\* Mutant: the object is put in front of the others in the vector.
AddFirst(c, g) ==
    /\ May("add") /\ Of(c, {"GCompound"}) /\ g \in DOMAIN objects
    /\ MayContain(c, g) /\ ~InCompound(g) /\ g # gw.top
    /\ Len(objects[c].contents) < MaxParts
    /\ Change(c, [contents |-> <<g>> \o objects[c].contents], <<addOp(c, g)>>)

addGCompound(c, g) ==
    /\ May("add") /\ Of(c, {"GCompound"}) /\ g \in DOMAIN objects
    /\ MayContain(c, g) /\ ~InCompound(g) /\ g # gw.top
    /\ Len(objects[c].contents) < MaxParts
    /\ Change(c, [contents |-> Append(objects[c].contents, g)], <<addOp(c, g)>>)

\* addAt: the object is moved first.
addAt(c, g, pt) ==
    /\ May("addAt") /\ c = gw.top /\ g \in DOMAIN objects \ {c}
    /\ MayContain(c, g) /\ ~InCompound(g) /\ Len(objects[c].contents) < MaxParts
    /\ objects' = [objects EXCEPT ![g] = At(pt) ++ @, ![c].contents = Append(@, g)]
    /\ putPipe(<<setLocationOp(g, pt), addOp(c, g)>>)
    /\ UNCHANGED <<status, initialized, todo>> /\ Quietly

removeGCompound(c, g) ==
    /\ May("remove") /\ Of(c, {"GCompound"})
    /\ g \in DOMAIN objects /\ ~Of(g, InteractorType)
    /\ g \in {objects[c].contents[i] : i \in 1..Len(objects[c].contents)}
    /\ Change(c, [contents |-> Without(objects[c].contents, g)], <<removeOp(g)>>)

\* containsGObject, for objects that are neither arcs nor polygons: an ellipse
\* for an oval, for all others the rectangle (a line's too).
Contains(o, pt) ==
    LET w == o.width
        h == o.height
        dx == 2 * (pt.x - o.x) - w
        dy == 2 * (pt.y - o.y) - h
    IN IF o.type = "GOval"
       THEN w # 0 /\ h # 0 /\ dx * dx * h * h + dy * dy * w * w <= w * w * h * h
       ELSE pt.x >= o.x /\ pt.y >= o.y /\ pt.x <= o.x + w /\ pt.y <= o.y + h

\* Mutant: the vector is searched from its beginning.
HitFromBack(c, pt) ==
    LET contents == objects[c].contents
        hits == {i \in 1..Len(contents) : Contains(objects[contents[i]], pt)}
    IN IF hits = {} THEN Null ELSE contents[CHOOSE i \in hits : \A j \in hits : i <= j]

getGObjectCompound(c, pt) ==
    LET contents == objects[c].contents
        hits == {i \in 1..Len(contents) : Contains(objects[contents[i]], pt)}
    IN IF hits = {} THEN Null ELSE contents[CHOOSE i \in hits : \A j \in hits : i >= j]

-----------------------------------------------------------------------------
setActionCommand(g, cmd) ==
    /\ May("setActionCommand") /\ Of(g, InteractorType)
    /\ Change(g, [actionCommand |-> cmd], <<setActionCommandOp(g, cmd)>>)

\* The interactors are made without initPlatform.  value is what the program
\* last set the value of a slider to: C does not keep it.
newGButton(label) ==
    /\ May("newGButton")
    /\ \E g \in Free :
           Make(g, "GButton", [actionCommand |-> label], FALSE,
                <<createGButtonOp(g, label), setActionCommandOp(g, label)>>, <<>>)

newGCheckBox ==
    /\ May("newGCheckBox")
    /\ \E g \in Free :
           Make(g, "GCheckBox", [actionCommand |-> Unset], FALSE,
                <<createGCheckBoxOp(g)>>, <<>>)

setSelected(g, state) ==
    /\ May("setSelected") /\ Of(g, {"GCheckBox"})
    /\ Change(g, <<>>, <<setSelectedOp(g, state)>>)

newGSlider(value) ==
    /\ May("newGSlider")
    /\ \E g \in Free :
           Make(g, "GSlider", [actionCommand |-> Unset, value |-> value], FALSE,
                <<createGSliderOp(g, value)>>, <<>>)

setValue(g, value) ==
    /\ May("setValue") /\ Of(g, {"GSlider"})
    /\ Change(g, [value |-> value], <<setValueOp(g, value)>>)

newGTextField ==
    /\ May("newGTextField")
    /\ \E g \in Free :
           Make(g, "GTextField", [actionCommand |-> Unset], FALSE,
                <<createGTextFieldOp(g)>>, <<>>)

setText(g, str) ==
    /\ May("setText") /\ Of(g, {"GTextField"})
    /\ Change(g, <<>>, <<setTextOp(g, str)>>)

newGChooser ==
    /\ May("newGChooser")
    /\ \E g \in Free :
           Make(g, "GChooser", [actionCommand |-> Unset], FALSE,
                <<createGChooserOp(g)>>, <<>>)

addItem(g, item) ==
    /\ May("addItem") /\ Of(g, {"GChooser"})
    /\ Change(g, <<>>, <<addItemOp(g, item)>>)

setSelectedItem(g, item) ==
    /\ May("setSelectedItem") /\ Of(g, {"GChooser"})
    /\ Change(g, <<>>, <<setSelectedItemOp(g, item)>>)

-----------------------------------------------------------------------------
\* newGWindow: its compound, and the window, whose making is answered.
newGWindow ==
    /\ May("newGWindow") /\ gw.top = Null
    /\ \E g \in Free :
           /\ gw' = [top |-> g, color |-> "BLACK"]
           /\ objects' = With(objects, g, [contents |-> <<>>] ++ newGObject("GCompound"))
           /\ putPipe(<<createGCompoundOp(g)>>)
           /\ todo' = <<Query(createGWindowOp(g), "none")>>
    /\ initialized' = TRUE
    /\ UNCHANGED <<program, status, drawn, restacked, sentVars>>

setColorGWindow(color) ==
    /\ May("setColorGWindow") /\ gw.top # Null
    /\ gw' = [gw EXCEPT !.color = color]
    /\ UNCHANGED <<program, status, initialized, objects, todo, drawn, restacked,
                   pipe, sentVars>>

\* The parts of the window's picture: what an object looked like when drawn.
Snapshot(o) == IF o.visible THEN <<o>> ELSE <<>>

Draw(o, commands) ==
    /\ gw.top # Null /\ Len(drawn) < MaxDrawn
    /\ drawn' = drawn \o Snapshot(o)
    /\ putPipe(commands)
    /\ UNCHANGED <<program, status, initialized, gw, objects, todo, restacked, sentVars>>

\* draw, and drawAt without its setLocation.
draw(g) ==
    /\ May("draw") /\ Of(g, FillableType \cup {"GLine"})
    /\ Draw(objects[g], <<drawOp(g)>>)

\* Mutant: the shape gets its color after it is drawn.
DrawBeforeColor(t, filled, pt, size) ==
    \E g \in Free :
        LET o == [color |-> gw.color, filled |-> filled] ++ At(pt) ++ Sized(size)
                 ++ newGObject(t)
        IN /\ gw.top # Null
           /\ Draw(o, <<IF t = "GOval" THEN createGOvalOp(g, size) ELSE createGRectOp(g, size),
                        setLocationOp(g, pt)>>
                      \o (IF filled THEN <<setFilledOp(g, TRUE)>> ELSE <<>>)
                      \o <<drawOp(g), setColorOp(g, gw.color)>>)

\* drawOval, fillOval, drawRect, fillRect: an object made, drawn and freed again,
\* its address being free for the next.
DrawShape(t, filled, pt, size) ==
    \E g \in Free :
        LET o == [color |-> gw.color, filled |-> filled] ++ At(pt) ++ Sized(size)
                 ++ newGObject(t)
        IN /\ gw.top # Null
           /\ Draw(o, <<IF t = "GOval" THEN createGOvalOp(g, size) ELSE createGRectOp(g, size),
                        setLocationOp(g, pt)>>
                      \o (IF filled THEN <<setFilledOp(g, TRUE)>> ELSE <<>>)
                      \o <<setColorOp(g, gw.color), drawOp(g)>>)

drawOval(pt, size) == May("drawOval") /\ DrawShape("GOval", FALSE, pt, size)
fillOval(pt, size) == May("fillOval") /\ DrawShape("GOval", TRUE, pt, size)
drawRect(pt, size) == May("drawRect") /\ DrawShape("GRect", FALSE, pt, size)
fillRect(pt, size) == May("fillRect") /\ DrawShape("GRect", TRUE, pt, size)

\* drawLine leaves the line in its own color, black.
drawLine(pt0, pt1) ==
    /\ May("drawLine")
    /\ \E g \in Free :
           Draw(LineFields(pt0, pt1) ++ newGObject("GLine"),
                <<createGLineOp(g, pt0, pt1), drawOp(g)>>)

clearGWindow ==
    /\ May("clear") /\ gw.top # Null
    /\ drawn' = <<>> /\ putPipe(<<clearOp>>)
    /\ UNCHANGED <<program, status, initialized, gw, objects, todo, restacked, sentVars>>

-----------------------------------------------------------------------------
ClientInit ==
    /\ program \in Programs
    /\ status = "ok" /\ initialized = FALSE
    /\ gw = [top |-> Null, color |-> "BLACK"]
    /\ objects = <<>> /\ todo = <<>> /\ drawn = <<>> /\ restacked = {}

ChangeObject ==
    \E g \in DOMAIN objects :
        \/ freeGObject(g) \/ sendForward(g) \/ sendToFront(g)
        \/ sendBackward(g) \/ sendToBack(g) \/ draw(g)
        \/ \E flag \in BOOLEAN : setVisible(g, flag) \/ setFilled(g, flag)
                                 \/ setRaised(g, flag) \/ setSelected(g, flag)
        \/ \E pt \in Points :
               \/ setLocation(g, pt) \/ move(g, pt) \/ addVertex(g, pt) \/ addEdge(g, pt)
               \/ setStartPoint(g, pt) \/ setEndPoint(g, pt)
               \/ \E size \in Sizes : setBounds(g, pt, size)
                                      \/ setFrameRectangle(g, pt, size)
        \/ \E size \in Sizes : setSize(g, size)
        \/ \E c \in Colors : setColor(g, c) \/ setFillColor(g, c)
        \/ \E a \in Angles : setStartAngle(g, a) \/ setSweepAngle(g, a) \/ setValue(g, a)
        \/ \E s \in Strings : \/ setFont(g, s) \/ setLabel(g, s) \/ setText(g, s)
                              \/ addItem(g, s) \/ setSelectedItem(g, s)
                              \/ setActionCommand(g, s)
        \/ getSize(g) \/ isSelected(g) \/ getValue(g) \/ getText(g) \/ getSelectedItem(g)

NewObject ==
    \/ \E pt \in Points, size \in Sizes :
           \/ newGRect(pt, size) \/ newGRoundRect(pt, size) \/ newGOval(pt, size)
           \/ \E r \in BOOLEAN : newG3DRect(pt, size, r)
           \/ \E a, b \in Angles : newGArc(pt, size, Point(a, b))
    \/ \E pt0, pt1 \in Points : newGLine(pt0, pt1)
    \/ \E s \in Strings : newGLabel(s) \/ newGImage(s) \/ newGButton(s)
    \/ \E a \in Angles : newGSlider(a)
    \/ newGPolygon \/ newGCompound \/ newGCheckBox \/ newGTextField \/ newGChooser

UseWindow ==
    \/ newGWindow \/ clearGWindow
    \/ \E c \in Colors : setColorGWindow(c)
    \/ \E pt \in Points, size \in Sizes : \/ drawOval(pt, size) \/ fillOval(pt, size)
                                          \/ drawRect(pt, size) \/ fillRect(pt, size)
    \/ \E pt0, pt1 \in Points : drawLine(pt0, pt1)

UseCompound ==
    \E c, g \in DOMAIN objects :
        \/ addGCompound(c, g) \/ removeGCompound(c, g)
        \/ \E pt \in Points : addAt(c, g, pt)

ClientNext == \/ ChangeObject \/ NewObject \/ UseWindow \/ UseCompound
              \/ SendQuery \/ GetResult
=============================================================================
