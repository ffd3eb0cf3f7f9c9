---------------------------- MODULE GraphicsMirror ----------------------------
(***************************************************************************)
(* The program's graphical objects and the back end's, on the two ends of  *)
(* the pipe.  The pipe keeps the order and the back end obeys one command  *)
(* after another; what has to be shown is that the fields kept twice, in C *)
(* and in Java, agree whenever the back end has caught up.                 *)
(***************************************************************************)
EXTENDS GObjects, GObjectsBackEnd

\* A text and a font have a size.
ASSUME MetricsAssumption ==
    \A str \in Strings, font \in Strings \cup {NoFont} : Metrics(str, font) \in Pair

vars == <<pipe, replies, awaiting, clientVars, backEndVars>>

Init == /\ ClientInit /\ BackEndInit
        /\ pipe = <<>> /\ replies = <<>> /\ awaiting = FALSE

Next == \/ ClientNext /\ UNCHANGED backEndVars
        \/ Execute /\ UNCHANGED clientVars

Spec == Init /\ [][Next]_vars

-----------------------------------------------------------------------------
CaughtUp == status = "ok" /\ pipe = <<>> /\ todo = <<>>

\* An image whose file could not be read: an object in C that the back end lacks,
\* unless it still has an object that was freed at that address.
Unreadable(o) == o.type = "GImage" /\ o.filename \notin ImageFiles

Compounds(objs) == {c \in DOMAIN objs : objs[c].type = "GCompound"}
Items(s) == {s[i] : i \in 1..Len(s)}
Once(s) == \A i, j \in 1..Len(s) : s[i] = s[j] => i = j
Before(s, g, h) == \E i, j \in 1..Len(s) : i < j /\ s[i] = g /\ s[j] = h

\* Types; an object has the fields of its type, and a compound holds each of
\* its live parts once.
TypeOK ==
    /\ program \in Programs
    /\ status \in {"ok", "crashed"}
    /\ initialized \in BOOLEAN /\ awaiting \in BOOLEAN
    /\ DOMAIN objects \subseteq Ids /\ DOMAIN gobjTable \subseteq Ids
    /\ \A g \in DOMAIN objects :
           /\ objects[g].type \in AnyType
           /\ objects[g].x \in Int /\ objects[g].y \in Int
           /\ objects[g].color \in Colors \cup {"BLACK"}
           /\ objects[g].type = "GCompound" =>
                  LET contents == objects[g].contents
                  IN Items(contents) \subseteq DOMAIN objects \ {g} /\ Once(contents)
    /\ gw.top # Null => gw.top \in DOMAIN objects
    /\ Len(pipe) <= MaxAhead + 5 /\ Len(replies) <= 1
    /\ Len(drawn) <= MaxDrawn
    /\ restacked \subseteq Ids

\* The fields the front end answers getters from (getX, getWidth, getColor,
\* getStartAngle, getLabel, getFontAscent, ...) are those of the object on the
\* screen whenever all commands have been obeyed: each operation of gobjects.c
\* sends what it stores, in an order in which the handlers make the same of it.
\* An image that could not be read has none; what a font rises and falls is known
\* in whole pixels.
Mirror ==
    CaughtUp =>
        \A g \in {h \in DOMAIN objects : ~Unreadable(objects[h])} :
            LET c == objects[g]
                j == gobjTable[g]
            IN /\ g \in DOMAIN gobjTable /\ c.type = j.type
               /\ \A f \in (DOMAIN c \cap DOMAIN j) \ {"actionCommand"} : c[f] = j[f]
               /\ c.type \in InteractorType =>
                      c.actionCommand \in {Unset, j.actionCommand}
               /\ c.type = "GLabel" =>
                      /\ Point(c.width, c.height) = Metrics(j.str, j.font)
                      /\ c.ascent = Whole(Ascent(j.font))
                      /\ c.descent = Whole(Descent(j.font))

\* The contents vector of a compound (getElementCount, getElement) lists the
\* objects that the compound has in the back end, from back to front until one of
\* them is sent forward or back, and that compound is what the back end's objects
\* have as their parent, interactors excepted, which have none.  An image that
\* could not be read is a part in C alone.
ContentsMirror ==
    CaughtUp =>
        /\ \A c \in Compounds(objects) :
               LET contents == objects[c].contents
                   children == gobjTable[c].children
               IN /\ Items(children) \subseteq Items(contents) /\ Once(children)
                  /\ \A g \in Items(contents) \ Items(children) : Unreadable(objects[g])
                  /\ c \notin restacked =>
                         \A g, h \in Items(children) :
                             Before(children, g, h) => Before(contents, g, h)
        /\ \A g \in {h \in DOMAIN objects : ~Unreadable(objects[h])} :
               LET holders == {c \in Compounds(objects) : g \in Items(objects[c].contents)}
               IN gobjTable[g].parent \in IF holders = {} \/ Of(g, InteractorType)
                                          THEN {Null} ELSE holders

\* getGObjectAt, which asks only the C objects, names the object the user sees
\* on top at that point, as long as nothing was sent forward or back; or else it
\* names one that is invisible, about which it does not ask.
HitIsTopmost ==
    CaughtUp =>
        \A c \in Compounds(objects) \ restacked :
            (\A g \in Items(objects[c].contents) : objects[g].type \in {"GRect", "GOval"}) =>
            \A pt \in Points :
                LET children == gobjTable[c].children
                    seen == {i \in 1..Len(children) : /\ gobjTable[children[i]].visible
                                                      /\ Contains(gobjTable[children[i]], pt)}
                    hit == getGObjectCompound(c, pt)
                IN \/ hit # Null /\ ~objects[hit].visible
                   \/ seen = {} /\ hit = Null
                   \/ \E i \in seen : hit = children[i] /\ \A k \in seen : k <= i

\* The picture of the window is what the program drew since it last cleared it,
\* although drawRect and the like reuse the address of a shape that was freed
\* while the back end had still to draw it.
SameLook(o, p) == \A f \in DOMAIN o \cap DOMAIN p : o[f] = p[f]
ImageMirror ==
    CaughtUp => /\ Len(image) = Len(drawn)
                /\ \A i \in 1..Len(drawn) : SameLook(drawn[i], image[i])

\* An operation that asks the back end is answered once, also when an image
\* cannot be read: the front end never waits for an answer that is not coming,
\* and never finds one that another operation left behind.
Answered == /\ awaiting /\ pipe = <<>> => Len(replies) = 1
            /\ ~awaiting => replies = <<>>
=============================================================================
