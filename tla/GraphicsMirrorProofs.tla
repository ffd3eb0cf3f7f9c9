------------------------- MODULE GraphicsMirrorProofs -------------------------
(***************************************************************************)
(* That the objects in C and those in Java agree whenever the back end has *)
(* caught up, for any addresses, programs and bounds.                      *)
(*                                                                         *)
(* The invariant is about the back end as it will be when it has obeyed    *)
(* what is in the pipe now.  An operation of the program adds commands, by *)
(* which that back end follows the fields the operation sets in C; when    *)
(* the back end obeys a command, nothing changes in what it will be.       *)
(***************************************************************************)
EXTENDS GraphicsMirror, SequenceTheorems, NaturalsInduction, WellFoundedInduction, TLAPS

IsSeq(s) == \E S : s \in Seq(S)
IsBackEnd(b) == b = [table |-> b.table, canvas |-> b.canvas,
                     image |-> b.image, replies |-> b.replies]

\* The commands p take the back end from b0 to b.
Leads(b0, p, b) ==
    /\ IsSeq(p)
    /\ \E T : /\ T[0] = b0 /\ T[Len(p)] = b
              /\ \A i \in 1..Len(p) : T[i] = Handle(T[i - 1], p[i])

-----------------------------------------------------------------------------
(* The fields that an object has, in C and in Java. *)
ObjectFields == {"type", "x", "y", "width", "height", "color", "fillColor", "filled",
                 "visible"}
ObjectOK(c) ==
    /\ ObjectFields \subseteq DOMAIN c
    /\ c.type \in AnyType /\ c.x \in Int /\ c.y \in Int /\ c.color \in Colors \cup {"BLACK"}
    /\ c.type = "GLabel" => /\ {"str", "font", "ascent", "descent"} \subseteq DOMAIN c
                            /\ c.str \in Strings /\ c.font \in Strings \cup {NoFont}
    /\ c.type = "GPolygon" => "vertices" \in DOMAIN c
    /\ c.type = "GImage" => "filename" \in DOMAIN c
    /\ c.type = "GCompound" => "contents" \in DOMAIN c
    /\ c.type \in InteractorType <=> "actionCommand" \in DOMAIN c
    /\ DOMAIN c \cap {"parent", "children", "items", "selected", "text"} = {}

JavaObjectOK(j) ==
    /\ {"type", "x", "y", "color", "visible", "parent"} \subseteq DOMAIN j
    /\ "contents" \notin DOMAIN j
    /\ j.type \in {"GLine", "GRect", "GOval"} => {"width", "height"} \subseteq DOMAIN j
    /\ j.type = "GLabel" => {"str", "font"} \subseteq DOMAIN j
    /\ j.type = "GPolygon" => "vertices" \in DOMAIN j
    /\ j.type = "GCompound" => "children" \in DOMAIN j
    /\ j.type \in InteractorType => "actionCommand" \in DOMAIN j
    /\ j.type \notin FillableType => DOMAIN j \cap {"filled", "fillColor"} = {}
    /\ j.type = "GLabel" => DOMAIN j \cap {"width", "height", "ascent", "descent"} = {}

SameFields(c, j) == \A f \in (DOMAIN c \cap DOMAIN j) \ {"actionCommand"} : c[f] = j[f]
Agree(c, j) ==
    /\ JavaObjectOK(j) /\ c.type = j.type /\ SameFields(c, j)
    /\ c.type \in InteractorType => c.actionCommand \in {Unset, j.actionCommand}

\* An image for which the back end has not yet been asked, or has not answered.
Pending(doing, g) == /\ doing # <<>>
                     /\ Head(doing).command.op = "GImage.create"
                     /\ Head(doing).command.id = g

\* All other objects are there, but those that could not be read.
AllAgree(objs, doing, table) ==
    \A g \in DOMAIN objs :
        /\ ObjectOK(objs[g])
        /\ ~Pending(doing, g) /\ ~Unreadable(objs[g]) =>
               g \in DOMAIN table /\ Agree(objs[g], table[g])

-----------------------------------------------------------------------------
(* Compounds. *)
Holds(s, g) == \E i \in 1..Len(s) : s[i] = g

\* An object is in one compound at most, and there once.
ContentsOK(objs) ==
    \A c \in Compounds(objs) :
        LET s == objs[c].contents
        IN /\ s \in Seq(DOMAIN objs \ {c}) /\ Once(s)
           /\ \A d \in Compounds(objs), g \in DOMAIN objs :
                  Holds(s, g) /\ Holds(objs[d].contents, g) => c = d

\* The children are those of the parts that the back end knows.
SameParts(s, t, known) ==
    /\ t \in Seq(Ids) /\ Once(t)
    /\ \A g \in Ids : Holds(t, g) <=> Holds(s, g) /\ g \in known
SameOrder(s, t, known) == \A g, h \in known : Before(t, g, h) <=> Before(s, g, h)

ChildrenAgree(objs, stacked, table) ==
    \A c \in Compounds(objs) :
        /\ SameParts(objs[c].contents, table[c].children, DOMAIN table)
        /\ c \notin stacked => SameOrder(objs[c].contents, table[c].children, DOMAIN table)

\* The parent of an object in the back end is the compound that the object at its
\* address is in, if there is one.
Alone(objs, g) == \A c \in Compounds(objs) : ~Holds(objs[c].contents, g)
Actor(objs, g) == g \in DOMAIN objs /\ objs[g].type \in InteractorType
Placed(j) == {"type", "parent"} \subseteq DOMAIN j
ParentOK(objs, g, parent) ==
    IF Actor(objs, g) THEN parent = Null
    ELSE \/ parent = Null /\ Alone(objs, g)
         \/ parent \in Compounds(objs) /\ Holds(objs[parent].contents, g)
ParentsAgree(objs, doing, table) ==
    /\ \A g : Pending(doing, g) => Alone(objs, g)
    /\ \A g \in DOMAIN table : /\ Placed(table[g]) /\ ParentOK(objs, g, table[g].parent)
                               /\ table[g].type \in InteractorType => Actor(objs, g)

-----------------------------------------------------------------------------
(* Questions and their answers. *)
InteractorQuery(g, command) ==
    command \in {getSizeOp(g), isSelectedOp(g), getValueOp(g), getTextOp(g),
                 getSelectedItemOp(g)}
LabelQueries(doing, g) == doing \in {FontQueries(g), DescentQueries(g), SizeQuery(g)}
ImageQuery(g, filename) == <<Query(createGImageOp(g, filename), "size")>>
WindowQuery(g) == <<Query(createGWindowOp(g), "none")>>

\* What is to be asked is asked about an object that is there.
QuestionOK(objs, doing, window) ==
    \/ doing = <<>>
    \/ \E g \in DOMAIN objs :
           \/ objs[g].type = "GLabel" /\ LabelQueries(doing, g)
           \/ /\ objs[g].type = "GImage"
              /\ \E filename \in Strings :
                     /\ doing = ImageQuery(g, filename)
                     /\ objs[g] = [filename |-> filename] ++ newGObject("GImage")
           \/ /\ objs[g].type \in InteractorType
              /\ \E command : InteractorQuery(g, command) /\ doing = <<Query(command, "none")>>
           \/ g = window.top /\ doing = WindowQuery(g)

\* The answer that has come or will come.
Ok(answer) == <<"ok", answer>>
Failed == <<"error", "no image">>
Says(b, reply) == b.replies = <<reply>>
AnswerOK(doing, b) ==
    LET command == Head(doing).command
        g == command.id
    IN CASE command.op = "GLabel.getFontAscent" -> Says(b, Ok(Ascent(b.table[g].font)))
         [] command.op = "GLabel.getFontDescent" -> Says(b, Ok(Descent(b.table[g].font)))
         [] command.op = "GLabel.getGLabelSize" ->
                Says(b, Ok(Metrics(b.table[g].str, b.table[g].font)))
         [] command.op = "GImage.create" ->
                IF command.arg \in ImageFiles
                THEN /\ Says(b, Ok(ImageSize(command.arg)))
                     /\ g \in DOMAIN b.table /\ b.table[g] = NewGImage(command.arg)
                ELSE Says(b, Failed)
         [] OTHER -> \E answer : Says(b, Ok(answer))
ResultOK(doing, waiting, b) ==
    IF waiting THEN doing # <<>> /\ AnswerOK(doing, b) ELSE b.replies = <<>>

\* A label's size and ascent are those of its text and font, or are to be asked for.
Measured(g, c, doing) ==
    /\ c.ascent = Whole(Ascent(c.font)) \/ doing = FontQueries(g)
    /\ \/ c.descent = Whole(Descent(c.font))
       \/ doing \in {FontQueries(g), DescentQueries(g)}
    /\ Point(c.width, c.height) = Metrics(c.str, c.font) \/ LabelQueries(doing, g)
LabelsMeasured(objs, doing) ==
    \A g \in DOMAIN objs : objs[g].type = "GLabel" => Measured(g, objs[g], doing)

-----------------------------------------------------------------------------
(* The window. *)
WindowOK(objs, doing, window, waiting, b) ==
    /\ window = [top |-> window.top, color |-> window.color]
    /\ window.color \in Colors \cup {"BLACK"}
    /\ window.top # Null =>
           /\ window.top \in Compounds(objs)
           /\ b.canvas # Null \/ (~waiting /\ doing = WindowQuery(window.top))

Pictured(shown, b) ==
    /\ IsSeq(shown) /\ IsSeq(b.image) /\ Len(b.image) = Len(shown)
    /\ \A i \in 1..Len(shown) : SameLook(shown[i], b.image[i])

-----------------------------------------------------------------------------
(* The pipe. *)
\* A command prints nothing; it is about an address.
Silent(c) == \A b : IsBackEnd(b) => Handle(b, c).replies = b.replies
Proper(c) ==
    \A b : IsBackEnd(b) =>
        /\ IsBackEnd(Handle(b, c))
        /\ DOMAIN b.table \subseteq Ids => DOMAIN Handle(b, c).table \subseteq Ids
PipeOK ==
    /\ \A i \in 1..Len(pipe) : Proper(pipe[i])
    /\ \A i \in 1..Len(pipe) : (i < Len(pipe) \/ ~awaiting) => Silent(pipe[i])
    /\ pipe # <<>> => replies = <<>>
    /\ Len(pipe) <= MaxAhead + 5

\* What is true of the back end b that has obeyed all that is in the pipe.
SameObjects(objs, doing, stacked, table) ==
    /\ DOMAIN objs \subseteq Ids
    /\ AllAgree(objs, doing, table)
    /\ ContentsOK(objs) /\ ChildrenAgree(objs, stacked, table)
    /\ ParentsAgree(objs, doing, table)
    /\ LabelsMeasured(objs, doing)

Mirrors(b) ==
    /\ IsBackEnd(b)
    /\ SameObjects(objects, todo, restacked, b.table)
    /\ QuestionOK(objects, todo, gw)
    /\ ResultOK(todo, awaiting, b)
    /\ WindowOK(objects, todo, gw, awaiting, b)
    /\ Pictured(drawn, b)

Own ==
    /\ program \in Programs /\ status \in {"ok", "crashed"}
    /\ initialized \in BOOLEAN /\ awaiting \in BOOLEAN
    /\ DOMAIN gobjTable \subseteq Ids
    /\ restacked \subseteq Ids /\ Len(drawn) <= MaxDrawn

IInv == Own /\ PipeOK /\ \E b : Leads(backEnd, pipe, b) /\ Mirrors(b)

-----------------------------------------------------------------------------
(* Commands one after another. *)
\* Two sequences in one.
LEMMA JoinSeqs ==
    ASSUME NEW s, NEW t, IsSeq(s), IsSeq(t)
    PROVE  /\ IsSeq(s \o t) /\ Len(s \o t) = Len(s) + Len(t)
           /\ Len(s) \in Nat /\ Len(t) \in Nat
           /\ \A i \in 1..Len(s) : (s \o t)[i] = s[i]
           /\ \A i \in 1..Len(t) : (s \o t)[Len(s) + i] = t[i]
<1>1. PICK S : s \in Seq(S)
  BY DEF IsSeq
<1>2. PICK U : t \in Seq(U)
  BY DEF IsSeq
<1>3. s \in Seq(S \cup U) /\ t \in Seq(S \cup U)
  BY <1>1, <1>2, SeqMonotonic
<1>4. s \o t \in Seq(S \cup U)
  BY <1>3, ConcatProperties
<1> QED
  BY <1>3, <1>4, ConcatProperties DEF IsSeq

\* No commands leave the back end as it is.
LEMMA LeadsNothing == ASSUME NEW b PROVE Leads(b, <<>>, b)
<1> DEFINE T == [i \in {0} |-> b]
<1>1. IsSeq(<<>>) /\ Len(<<>>) = 0
  <2>1. <<>> \in Seq({})
    OBVIOUS
  <2> QED
    BY <2>1 DEF IsSeq
<1>2. T[0] = b /\ T[Len(<<>>)] = b /\ \A i \in 1..Len(<<>>) : T[i] = Handle(T[i - 1], <<>>[i])
  BY <1>1
<1> HIDE DEF T
<1> QED
  BY <1>1, <1>2 DEF Leads

\* One command takes it where its handler takes it.
LEMMA LeadsOne == ASSUME NEW b, NEW c PROVE Leads(b, <<c>>, Handle(b, c))
<1> DEFINE T == [i \in {0, 1} |-> IF i = 0 THEN b ELSE Handle(b, c)]
<1>1. IsSeq(<<c>>) /\ Len(<<c>>) = 1 /\ <<c>>[1] = c
  <2>1. <<c>> \in Seq({c})
    OBVIOUS
  <2> QED
    BY <2>1 DEF IsSeq
<1>2. T[0] = b /\ T[1] = Handle(b, c)
  OBVIOUS
<1>3. \A i \in 1..Len(<<c>>) : T[i] = Handle(T[i - 1], <<c>>[i])
  <2> SUFFICES ASSUME NEW i \in 1..Len(<<c>>)
               PROVE  T[i] = Handle(T[i - 1], <<c>>[i])
    OBVIOUS
  <2>1. i = 1 /\ i - 1 = 0
    BY <1>1
  <2> QED
    BY <2>1, <1>1, <1>2
<1>4. T[Len(<<c>>)] = Handle(b, c)
  BY <1>1, <1>2
<1> HIDE DEF T
<1> QED
  BY <1>1, <1>2, <1>3, <1>4 DEF Leads

\* Commands behind others lead on from where those led.
LEMMA LeadsOn ==
    ASSUME NEW b0, NEW p, NEW b, NEW s, NEW d, Leads(b0, p, b), Leads(b, s, d)
    PROVE  Leads(b0, p \o s, d)
<1>1. PICK T1 : /\ T1[0] = b0 /\ T1[Len(p)] = b
                /\ \A i \in 1..Len(p) : T1[i] = Handle(T1[i - 1], p[i])
  BY DEF Leads
<1>2. PICK T2 : /\ T2[0] = b /\ T2[Len(s)] = d
                /\ \A i \in 1..Len(s) : T2[i] = Handle(T2[i - 1], s[i])
  BY DEF Leads
<1>3. IsSeq(p) /\ IsSeq(s)
  BY DEF Leads
<1>4. /\ IsSeq(p \o s) /\ Len(p \o s) = Len(p) + Len(s)
      /\ Len(p) \in Nat /\ Len(s) \in Nat
      /\ \A i \in 1..Len(p) : (p \o s)[i] = p[i]
      /\ \A i \in 1..Len(s) : (p \o s)[Len(p) + i] = s[i]
  BY <1>3, JoinSeqs
<1> DEFINE n == Len(p)
           T == [i \in 0..(n + Len(s)) |-> IF i <= n THEN T1[i] ELSE T2[i - n]]
<1>5. T[0] = b0 /\ T[n + Len(s)] = d
  <2>1. CASE Len(s) = 0
    BY <2>1, <1>1, <1>2, <1>4
  <2>2. CASE Len(s) # 0
    <3>1. (n + Len(s)) - n = Len(s) /\ ~(n + Len(s) <= n) /\ 0 <= n
      BY <2>2, <1>4
    <3> QED
      BY <3>1, <1>1, <1>2, <1>4
  <2> QED
    BY <2>1, <2>2
<1>6. ASSUME NEW i \in 1..Len(p \o s) PROVE T[i] = Handle(T[i - 1], (p \o s)[i])
  <2>1. i \in 0..(n + Len(s)) /\ i - 1 \in 0..(n + Len(s))
    BY <1>4
  <2>2. CASE i <= n
    <3>1. T[i] = T1[i] /\ T[i - 1] = T1[i - 1] /\ i \in 1..n
      BY <2>1, <2>2, <1>4
    <3> QED
      BY <3>1, <1>1, <1>4
  <2>3. CASE i = n + 1
    <3>1. T[i] = T2[1] /\ T[i - 1] = T1[n] /\ 1 \in 1..Len(s)
      BY <2>1, <2>3, <1>4
    <3>2. T2[1] = Handle(T2[0], s[1])
      BY <3>1, <1>2
    <3> QED
      BY <3>1, <3>2, <2>3, <1>1, <1>2, <1>4
  <2>4. CASE i > n + 1
    <3>1. /\ T[i] = T2[i - n] /\ T[i - 1] = T2[(i - n) - 1] /\ i - n \in 1..Len(s)
          /\ n + (i - n) = i
      BY <2>1, <2>4, <1>4
    <3>2. T2[i - n] = Handle(T2[(i - n) - 1], s[i - n])
      BY <3>1, <1>2
    <3> QED
      BY <3>1, <3>2, <1>4
  <2> QED
    BY <2>1, <2>2, <2>3, <2>4, <1>4
<1> HIDE DEF T
<1> QED
  BY <1>4, <1>5, <1>6 DEF Leads

\* When the first command has been obeyed, the rest lead to where all led.
LEMMA LeadsTail ==
    ASSUME NEW b0, NEW p, NEW b, Leads(b0, p, b), p # <<>>
    PROVE  Leads(Handle(b0, Head(p)), Tail(p), b)
<1>1. PICK T1 : /\ T1[0] = b0 /\ T1[Len(p)] = b
                /\ \A i \in 1..Len(p) : T1[i] = Handle(T1[i - 1], p[i])
  BY DEF Leads
<1>2. PICK S : p \in Seq(S)
  BY DEF Leads, IsSeq
<1>3. /\ Tail(p) \in Seq(S) /\ Len(Tail(p)) = Len(p) - 1 /\ Len(p) \in Nat /\ Len(p) > 0
      /\ Head(p) = p[1] /\ \A i \in 1..Len(p) - 1 : Tail(p)[i] = p[i + 1]
  BY <1>2
<1> DEFINE T == [i \in 0..Len(p) - 1 |-> T1[i + 1]]
<1>4. T[0] = Handle(b0, Head(p)) /\ T[Len(p) - 1] = b
  BY <1>1, <1>3
<1>5. ASSUME NEW i \in 1..Len(Tail(p)) PROVE T[i] = Handle(T[i - 1], Tail(p)[i])
  <2>1. T[i] = T1[i + 1] /\ T[i - 1] = T1[i] /\ i + 1 \in 1..Len(p) /\ (i + 1) - 1 = i
    BY <1>3
  <2>2. T1[i + 1] = Handle(T1[(i + 1) - 1], p[i + 1])
    BY <2>1, <1>1
  <2> QED
    BY <2>1, <2>2, <1>3
<1> HIDE DEF T
<1>6. IsSeq(Tail(p))
  BY <1>3 DEF IsSeq
<1> QED
  BY <1>3, <1>4, <1>5, <1>6 DEF Leads

\* One command more at the end is obeyed last.
LEMMA LeadsMore ==
    ASSUME NEW b, NEW s, NEW d, NEW c, NEW t, Leads(b, s, d),
           IsSeq(t), Len(t) = Len(s) + 1, t[Len(t)] = c,
           \A i \in 1..Len(s) : t[i] = s[i]
    PROVE  Leads(b, t, Handle(d, c))
<1>1. Leads(b, s \o <<c>>, Handle(d, c))
  BY LeadsOne, LeadsOn
<1>2. IsSeq(s) /\ IsSeq(<<c>>) /\ Len(<<c>>) = 1 /\ <<c>>[1] = c
  BY LeadsOne DEF Leads
<1>3. /\ IsSeq(s \o <<c>>) /\ Len(s \o <<c>>) = Len(s) + 1 /\ Len(s) \in Nat
      /\ \A i \in 1..Len(s) : (s \o <<c>>)[i] = s[i]
      /\ (s \o <<c>>)[Len(s) + 1] = c
  BY <1>2, JoinSeqs
<1>4. PICK S : t \in Seq(S)
  BY DEF IsSeq
<1>5. PICK U : s \o <<c>> \in Seq(U)
  BY <1>3 DEF IsSeq
<1>6. t \in Seq(S \cup U) /\ s \o <<c>> \in Seq(S \cup U)
  BY <1>4, <1>5, SeqMonotonic
<1>7. \A i \in 1..Len(t) : t[i] = (s \o <<c>>)[i]
  BY <1>3
<1>8. t = s \o <<c>>
  BY <1>3, <1>6, <1>7, SeqEqual
<1> QED
  BY <1>1, <1>8

\* Two commands, one after the other.
LEMMA LeadsTwo ==
    ASSUME NEW b, NEW c1, NEW c2
    PROVE  Leads(b, <<c1, c2>>, Handle(Handle(b, c1), c2))
<1>1. <<c1, c2>> \in Seq({c1, c2}) /\ Len(<<c1, c2>>) = 2 /\ <<c1, c2>>[2] = c2
  OBVIOUS
<1>2. IsSeq(<<c1, c2>>)
  BY <1>1 DEF IsSeq
<1>3. Leads(b, <<c1>>, Handle(b, c1))
  BY LeadsOne
<1>4. Len(<<c1>>) = 1 /\ \A i \in 1..Len(<<c1>>) : <<c1, c2>>[i] = <<c1>>[i]
  OBVIOUS
<1>5. Len(<<c1, c2>>) = Len(<<c1>>) + 1 /\ <<c1, c2>>[Len(<<c1, c2>>)] = c2
  BY <1>1, <1>4
<1> QED
  BY ONLY <1>2, <1>3, <1>4, <1>5, LeadsMore

-----------------------------------------------------------------------------
(* Sending commands, and obeying one. *)
\* As long as nothing is asked no answer is there, nor will one come from the pipe.
LEMMA NoReplyWhileIdle ==
    ASSUME PipeOK, NEW b, Leads(backEnd, pipe, b), Mirrors(b), ~awaiting
    PROVE  replies = <<>> /\ b.replies = <<>>
<1>1. b.replies = <<>>
  BY DEF Mirrors, ResultOK
<1>2. CASE pipe # <<>>
  BY <1>1, <1>2 DEF PipeOK
<1>3. CASE pipe = <<>>
  <2>1. b = backEnd
    BY <1>3 DEF Leads
  <2> QED
    BY <1>1, <2>1 DEF backEnd
<1> QED
  BY <1>2, <1>3

\* An operation of the program, which sends the commands s to a back end that
\* will be b, and with them d.
LEMMA Sending ==
    ASSUME Own, PipeOK, NEW b, Leads(backEnd, pipe, b), Mirrors(b), ~awaiting,
           UNCHANGED <<backEndVars, replies, awaiting>>,
           NEW s, IsSeq(s), Len(s) <= 5, putPipe(s),
           \A i \in 1..Len(s) : Proper(s[i]) /\ Silent(s[i]),
           NEW d, Leads(b, s, d)
    PROVE  PipeOK' /\ Leads(backEnd', pipe', d)
<1>1. backEnd' = backEnd
  BY DEF backEnd, backEndVars
<1>2. pipe' = pipe \o s
  BY DEF putPipe
<1>3. Leads(backEnd', pipe', d)
  BY <1>1, <1>2, LeadsOn
<1>4. /\ Len(pipe') = Len(pipe) + Len(s) /\ Len(pipe) \in Nat /\ Len(s) \in Nat
      /\ \A i \in 1..Len(pipe) : pipe'[i] = pipe[i]
      /\ \A i \in 1..Len(s) : pipe'[Len(pipe) + i] = s[i]
  BY <1>2, JoinSeqs DEF Leads
<1>5. ASSUME NEW i \in 1..Len(pipe') PROVE Proper(pipe'[i]) /\ Silent(pipe'[i])
  <2>1. CASE i <= Len(pipe)
    BY <2>1, <1>4 DEF PipeOK
  <2>2. CASE ~(i <= Len(pipe))
    <3>1. i - Len(pipe) \in 1..Len(s) /\ Len(pipe) + (i - Len(pipe)) = i
      BY <2>2, <1>4
    <3> QED
      BY <3>1, <1>4
  <2> QED
    BY <2>1, <2>2
<1>6. replies' = <<>>
  BY NoReplyWhileIdle
<1>7. Len(pipe') <= MaxAhead + 5
  BY <1>4, MaxAheadAssumption DEF putPipe
<1>8. PipeOK'
  BY <1>5, <1>6, <1>7 DEF PipeOK
<1> QED
  BY <1>3, <1>8

\* An operation that sends nothing.
LEMMA SendingNothing ==
    ASSUME PipeOK, NEW b, Leads(backEnd, pipe, b),
           UNCHANGED <<pipe, replies, awaiting, backEndVars>>
    PROVE  PipeOK' /\ Leads(backEnd', pipe', b)
<1>1. backEnd' = backEnd
  BY DEF backEnd, backEndVars
<1> QED
  BY <1>1 DEF PipeOK

\* The back end obeys a command: what it will be stays the same.
LEMMA Obeying ==
    ASSUME IInv, Execute, UNCHANGED clientVars
    PROVE  IInv'
<1>1. PICK b : Leads(backEnd, pipe, b) /\ Mirrors(b)
  BY DEF IInv
<1>2. PICK S : pipe \in Seq(S)
  BY <1>1 DEF Leads, IsSeq
<1> DEFINE c == Head(pipe)
           n == Handle(backEnd, c)
<1>3. /\ pipe # <<>> /\ pipe' = Tail(pipe) /\ c = pipe[1] /\ Len(pipe) \in Nat \ {0}
      /\ Len(pipe') = Len(pipe) - 1 /\ \A i \in 1..Len(pipe') : pipe'[i] = pipe[i + 1]
  BY <1>2 DEF Execute
<1>4. /\ IsBackEnd(backEnd) /\ backEnd.replies = replies /\ backEnd.table = gobjTable
  BY DEF IsBackEnd, backEnd
<1>5. IsBackEnd(n) /\ DOMAIN n.table \subseteq Ids
  BY <1>3, <1>4 DEF IInv, Own, PipeOK, Proper
<1>6. /\ gobjTable' = n.table /\ canvas' = n.canvas /\ image' = n.image
      /\ replies' = n.replies /\ awaiting' = awaiting
  BY DEF Execute
<1>7. backEnd' = n
  BY <1>5, <1>6 DEF backEnd, IsBackEnd
<1>8. Leads(backEnd', pipe', b)
  BY <1>1, <1>3, <1>7, LeadsTail
<1>9. pipe' # <<>> => replies' = <<>>
  <2> SUFFICES ASSUME pipe' # <<>> PROVE replies' = <<>>
    OBVIOUS
  <2>1. 1 < Len(pipe)
    BY <1>2, <1>3
  <2>2. Silent(c) /\ replies = <<>>
    BY <2>1, <1>3 DEF IInv, PipeOK
  <2> QED
    BY <2>2, <1>4, <1>6 DEF Silent
<1>10. PipeOK'
  <2>1. ASSUME NEW i \in 1..Len(pipe')
        PROVE  /\ Proper(pipe'[i])
               /\ (i < Len(pipe') \/ ~awaiting') => Silent(pipe'[i])
    <3>1. pipe'[i] = pipe[i + 1] /\ i + 1 \in 1..Len(pipe)
          /\ (i < Len(pipe') => i + 1 < Len(pipe))
      BY <1>3
    <3> QED
      BY <3>1, <1>6 DEF IInv, PipeOK
  <2>2. Len(pipe') <= MaxAhead + 5
    BY <1>3, MaxAheadAssumption DEF IInv, PipeOK
  <2> QED
    BY <2>1, <2>2, <1>9 DEF PipeOK
<1>11. Own'
  BY <1>5, <1>6 DEF IInv, Own, clientVars
<1>12. Mirrors(b)'
  BY <1>1, <1>6 DEF Mirrors, clientVars
<1> QED
  BY <1>8, <1>10, <1>11, <1>12 DEF IInv

-----------------------------------------------------------------------------
(* What the commands about one object do. *)
\* The handler has touched nothing but the object g.
Edits(b, d, g) ==
    /\ IsBackEnd(d) /\ d.canvas = b.canvas /\ d.image = b.image /\ d.replies = b.replies
    /\ DOMAIN b.table \subseteq DOMAIN d.table /\ DOMAIN d.table \subseteq DOMAIN b.table \cup {g}
    /\ \A h \in DOMAIN b.table \ {g} : d.table[h] = b.table[h]
EditsOnly(k, g) == \A b : IsBackEnd(b) => Edits(b, Handle(b, k), g)

\* The command sets fields of g.
Updating(k, g) == \A b : \E types, fields : Handle(b, k) = Update(b, g, types, fields)

\* What does nothing edits nothing.
LEMMA EditsNothing == ASSUME NEW b, NEW g, IsBackEnd(b) PROVE Edits(b, b, g)
BY DEF Edits

\* Two edits of the same object are an edit.
LEMMA EditsTwice ==
    ASSUME NEW b, NEW d, NEW e, NEW g, Edits(b, d, g), Edits(d, e, g)
    PROVE  Edits(b, e, g)
BY DEF Edits

\* SetFields edits the object, which gets the fields.
LEMMA FieldsSet ==
    ASSUME NEW b, NEW g, NEW fields, IsBackEnd(b), Known(b, g)
    PROVE  /\ Edits(b, SetFields(b, g, fields), g)
           /\ SetFields(b, g, fields).table = [b.table EXCEPT ![g] = fields ++ b.table[g]]
BY DEF SetFields, Edits, IsBackEnd, Known

\* Update does, if the handler's conditions hold, and else nothing.
LEMMA Updates ==
    ASSUME NEW b, NEW g, NEW types, NEW fields, IsBackEnd(b)
    PROVE  /\ Edits(b, Update(b, g, types, fields), g)
           /\ IF Known(b, g) /\ b.table[g].type \in types
              THEN /\ Known(Update(b, g, types, fields), g)
                   /\ Update(b, g, types, fields).table[g] = fields ++ b.table[g]
              ELSE Update(b, g, types, fields) = b
<1>1. CASE Known(b, g) /\ b.table[g].type \in types
  <2>1. Update(b, g, types, fields) = SetFields(b, g, fields)
    BY <1>1 DEF Update
  <2>2. /\ Edits(b, SetFields(b, g, fields), g)
        /\ SetFields(b, g, fields).table = [b.table EXCEPT ![g] = fields ++ b.table[g]]
    BY <1>1, FieldsSet
  <2>3. /\ g \in DOMAIN SetFields(b, g, fields).table
        /\ SetFields(b, g, fields).table[g] = fields ++ b.table[g]
    BY <2>2, <1>1 DEF Known
  <2> QED
    BY <1>1, <2>1, <2>2, <2>3 DEF Known
<1>2. CASE ~(Known(b, g) /\ b.table[g].type \in types)
  BY <1>2, EditsNothing DEF Update
<1> QED
  BY <1>1, <1>2

\* defineGObject puts the object under its address.
LEMMA Defines ==
    ASSUME NEW b, NEW g, NEW o, IsBackEnd(b)
    PROVE  /\ Edits(b, defineGObject(b, g, o), g)
           /\ Known(defineGObject(b, g, o), g)
           /\ defineGObject(b, g, o).table[g] = o
BY DEF defineGObject, Edits, IsBackEnd, Known, With

\* The handlers that update an object edit only that one.
LEMMA UpdatingEditsOnly == ASSUME NEW k, NEW g, Updating(k, g) PROVE EditsOnly(k, g)
BY Updates DEF Updating, EditsOnly

\* A command that edits only one object prints nothing and keeps to the addresses.
LEMMA EditsOnlyIsProper ==
    ASSUME NEW k, NEW g \in Ids, EditsOnly(k, g)
    PROVE  Proper(k) /\ Silent(k)
BY DEF EditsOnly, Edits, Proper, Silent

-----------------------------------------------------------------------------
(* Fields set on both sides. *)
NotSet == {"type", "parent", "children", "contents", "actionCommand", "items", "selected",
           "text", "filename"}
FieldsOK(fields) ==
    /\ DOMAIN fields \cap NotSet = {}
    /\ "x" \in DOMAIN fields => fields["x"] \in Int
    /\ "y" \in DOMAIN fields => fields["y"] \in Int
    /\ "color" \in DOMAIN fields => fields["color"] \in Colors \cup {"BLACK"}
    /\ "str" \in DOMAIN fields => fields["str"] \in Strings
    /\ "font" \in DOMAIN fields => fields["font"] \in Strings \cup {NoFont}

\* Setting fields that may be set leaves an object in C its type and its parts.
LEMMA FieldsOfC ==
    ASSUME NEW c, NEW fields, ObjectOK(c), FieldsOK(fields)
    PROVE  /\ ObjectOK(fields ++ c) /\ (fields ++ c).type = c.type
           /\ c.type = "GCompound" => (fields ++ c).contents = c.contents
           /\ Unreadable(fields ++ c) <=> Unreadable(c)
<1> DEFINE c2 == fields ++ c
<1>1. /\ DOMAIN c2 = DOMAIN fields \cup DOMAIN c
      /\ \A f \in DOMAIN c2 : c2[f] = IF f \in DOMAIN fields THEN fields[f] ELSE c[f]
  BY DEF ++
<1> HIDE DEF c2
<1>2. /\ c2.type = c.type /\ c2.x \in Int /\ c2.y \in Int /\ c2.color \in Colors \cup {"BLACK"}
  BY <1>1 DEF ObjectOK, FieldsOK, NotSet, ObjectFields
<1>3. ObjectFields \subseteq DOMAIN c2
  BY <1>1 DEF ObjectOK
<1>4. ASSUME c2.type = "GLabel"
      PROVE  /\ {"str", "font", "ascent", "descent"} \subseteq DOMAIN c2
             /\ c2.str \in Strings /\ c2.font \in Strings \cup {NoFont}
  BY <1>1, <1>2, <1>4 DEF ObjectOK, FieldsOK
<1>5. /\ c2.type = "GPolygon" => "vertices" \in DOMAIN c2
      /\ c2.type = "GCompound" => "contents" \in DOMAIN c2 /\ c2.contents = c.contents
  BY <1>1, <1>2 DEF ObjectOK, FieldsOK, NotSet
<1>6. /\ c2.type \in InteractorType <=> "actionCommand" \in DOMAIN c2
      /\ DOMAIN c2 \cap {"parent", "children", "items", "selected", "text"} = {}
  BY <1>1, <1>2 DEF ObjectOK, FieldsOK, NotSet
<1>8. c2.type = "GImage" => "filename" \in DOMAIN c2 /\ c2.filename = c.filename
  BY <1>1, <1>2 DEF ObjectOK, FieldsOK, NotSet
<1>9. Unreadable(c2) <=> Unreadable(c)
  BY <1>2, <1>8 DEF Unreadable
<1>7. ObjectOK(c2)
  BY <1>2, <1>3, <1>4, <1>5, <1>6, <1>8, ObjectOK(c) DEF ObjectOK
<1> QED
  BY <1>7, <1>2, <1>5, <1>9 DEF c2

\* So it does with an object in Java, which also keeps its parent.
LEMMA FieldsOfJava ==
    ASSUME NEW j, NEW fields, JavaObjectOK(j), FieldsOK(fields),
           j.type \in FillableType \/ DOMAIN fields \cap {"filled", "fillColor"} = {},
           j.type # "GLabel" \/ DOMAIN fields \cap {"width", "height", "ascent", "descent"} = {}
    PROVE  /\ JavaObjectOK(fields ++ j) /\ (fields ++ j).type = j.type
           /\ (fields ++ j).parent = j.parent
           /\ j.type = "GCompound" => (fields ++ j).children = j.children
<1> DEFINE j2 == fields ++ j
<1>1. /\ DOMAIN j2 = DOMAIN fields \cup DOMAIN j
      /\ \A f \in DOMAIN j2 : j2[f] = IF f \in DOMAIN fields THEN fields[f] ELSE j[f]
  BY DEF ++
<1> HIDE DEF j2
<1>2. /\ j2.type = j.type /\ j2.parent = j.parent
      /\ j.type = "GCompound" => j2.children = j.children
  BY <1>1 DEF JavaObjectOK, FieldsOK, NotSet
<1>3. JavaObjectOK(j2)
  BY <1>1, <1>2 DEF JavaObjectOK, FieldsOK, NotSet
<1> QED
  BY <1>2, <1>3 DEF j2

\* The same fields set on both sides keep the two in agreement.
LEMMA SameFieldsSet ==
    ASSUME NEW c, NEW j, NEW fields, ObjectOK(c), Agree(c, j), FieldsOK(fields),
           j.type \in FillableType \/ DOMAIN fields \cap {"filled", "fillColor"} = {},
           j.type # "GLabel" \/ DOMAIN fields \cap {"width", "height", "ascent", "descent"} = {}
    PROVE  Agree(fields ++ c, fields ++ j)
<1>1. /\ DOMAIN (fields ++ j) = DOMAIN fields \cup DOMAIN j
      /\ \A f \in DOMAIN (fields ++ j) :
             (fields ++ j)[f] = IF f \in DOMAIN fields THEN fields[f] ELSE j[f]
      /\ DOMAIN (fields ++ c) = DOMAIN fields \cup DOMAIN c
      /\ \A f \in DOMAIN (fields ++ c) :
             (fields ++ c)[f] = IF f \in DOMAIN fields THEN fields[f] ELSE c[f]
  BY DEF ++
<1>2. SameFields(fields ++ c, fields ++ j)
  BY <1>1 DEF Agree, SameFields
<1>3. JavaObjectOK(fields ++ j) /\ (fields ++ j).type = j.type /\ (fields ++ c).type = c.type
  BY FieldsOfJava, FieldsOfC DEF Agree
<1>4. c.type \in InteractorType =>
          (fields ++ c).actionCommand = c.actionCommand /\ (fields ++ j).actionCommand = j.actionCommand
  BY <1>1 DEF Agree, JavaObjectOK, ObjectOK, FieldsOK, NotSet
<1> QED
  BY <1>2, <1>3, <1>4 DEF Agree

\* A fill color for an object that has none in the back end.
LEMMA FieldsSetInC ==
    ASSUME NEW c, NEW j, NEW fields, ObjectOK(c), Agree(c, j), FieldsOK(fields),
           DOMAIN fields \cap DOMAIN j = {}
    PROVE  Agree(fields ++ c, j)
<1>1. /\ DOMAIN (fields ++ c) = DOMAIN fields \cup DOMAIN c
      /\ \A f \in DOMAIN (fields ++ c) :
             (fields ++ c)[f] = IF f \in DOMAIN fields THEN fields[f] ELSE c[f]
  BY DEF ++
<1>2. SameFields(fields ++ c, j)
  BY <1>1 DEF Agree, SameFields
<1>3. (fields ++ c).type = c.type
  BY FieldsOfC
<1>4. c.type \in InteractorType => (fields ++ c).actionCommand = c.actionCommand
  BY <1>1 DEF ObjectOK, FieldsOK, NotSet
<1> QED
  BY <1>2, <1>3, <1>4 DEF Agree

-----------------------------------------------------------------------------
(* One object changes, in C and in the back end. *)
NonePending(doing) == \A g : ~Pending(doing, g)

\* Nothing asked, no image pending.
LEMMA NothingPending == NonePending(<<>>)
BY DEF NonePending, Pending

\* The two ways to write a pair of commands.
LEMMA TwoInOne == ASSUME NEW c1, NEW c2 PROVE <<c1>> \o <<c2>> = <<c1, c2>>
<1>1. /\ <<c1>> \in Seq({c1, c2}) /\ <<c2>> \in Seq({c1, c2})
      /\ <<c1, c2>> \in Seq({c1, c2}) /\ Len(<<c1, c2>>) = 2
      /\ <<c1, c2>>[1] = c1 /\ <<c1, c2>>[2] = c2
  OBVIOUS
<1>2. <<c1>> \o <<c2>> \in Seq({c1, c2}) /\ Len(<<c1>> \o <<c2>>) = 2
  BY <1>1
<1>3. (<<c1>> \o <<c2>>)[1] = c1 /\ (<<c1>> \o <<c2>>)[2] = c2
  BY <1>1
<1>4. \A i \in 1..Len(<<c1>> \o <<c2>>) : (<<c1>> \o <<c2>>)[i] = <<c1, c2>>[i]
  <2>1. \A i \in 1..Len(<<c1>> \o <<c2>>) : i = 1 \/ i = 2
    BY <1>2
  <2> QED
    BY <2>1, <1>1, <1>3
<1> QED
  BY ONLY <1>1, <1>2, <1>4, SeqEqual

\* One question put before others.
LEMMA QuestionBefore ==
    ASSUME NEW q, NEW s, IsSeq(s)
    PROVE  <<q>> \o s # <<>> /\ Head(<<q>> \o s) = q /\ Tail(<<q>> \o s) = s
<1>1. PICK S : s \in Seq(S)
  BY DEF IsSeq
<1>2. <<q>> \in Seq(S \cup {q}) /\ s \in Seq(S \cup {q})
  BY <1>1, SeqMonotonic
<1>3. /\ Len(<<q>> \o s) = 1 + Len(s) /\ <<q>> \o s \in Seq(S \cup {q})
      /\ (<<q>> \o s)[1] = q /\ \A i \in 1..Len(s) : (<<q>> \o s)[i + 1] = s[i]
  BY <1>2
<1>4. Tail(<<q>> \o s) \in Seq(S \cup {q}) /\ Len(Tail(<<q>> \o s)) = Len(s)
  BY <1>3
<1>5. \A i \in 1..Len(s) : Tail(<<q>> \o s)[i] = s[i]
  BY <1>3
<1>6. Tail(<<q>> \o s) = s
  BY <1>2, <1>4, <1>5, SeqEqual
<1> QED
  BY <1>3, <1>6

\* One question.
LEMMA OneQuestion ==
    ASSUME NEW q
    PROVE  IsSeq(<<q>>) /\ <<q>> # <<>> /\ Head(<<q>>) = q /\ Tail(<<q>>) = <<>>
<1>1. <<q>> \in Seq({q})
  OBVIOUS
<1>2. IsSeq(<<q>>)
  BY <1>1 DEF IsSeq
<1>3. Tail(<<q>>) = <<>>
  OBVIOUS
<1> QED
  BY <1>2, <1>3

\* The questions about a label, one after the other.
LEMMA LabelQuestions ==
    ASSUME NEW g
    PROVE  /\ IsSeq(SizeQuery(g)) /\ IsSeq(DescentQueries(g)) /\ IsSeq(FontQueries(g))
           /\ SizeQuery(g) # <<>> /\ DescentQueries(g) # <<>> /\ FontQueries(g) # <<>>
           /\ Head(SizeQuery(g)) = Query(getGLabelSizeOp(g), "size")
           /\ Head(DescentQueries(g)) = Query(getFontDescentOp(g), "descent")
           /\ Head(FontQueries(g)) = Query(getFontAscentOp(g), "ascent")
           /\ Head(SizeQuery(g)).command.id = g /\ Head(DescentQueries(g)).command.id = g
           /\ Head(FontQueries(g)).command.id = g
           /\ Tail(SizeQuery(g)) = <<>> /\ Tail(DescentQueries(g)) = SizeQuery(g)
           /\ Tail(FontQueries(g)) = DescentQueries(g)
           /\ FontQueries(g) # DescentQueries(g) /\ DescentQueries(g) # SizeQuery(g)
           /\ FontQueries(g) # SizeQuery(g)
<1>1. /\ IsSeq(SizeQuery(g)) /\ SizeQuery(g) # <<>> /\ Tail(SizeQuery(g)) = <<>>
      /\ Head(SizeQuery(g)) = Query(getGLabelSizeOp(g), "size")
  <2>1. PICK q : q = Query(getGLabelSizeOp(g), "size")
    OBVIOUS
  <2>2. SizeQuery(g) = <<q>>
    BY <2>1 DEF SizeQuery
  <2> QED
    BY <2>1, <2>2, OneQuestion
<1>2. ASSUME NEW q, NEW s, IsSeq(s) PROVE IsSeq(<<q>> \o s)
  BY <1>2, OneQuestion, JoinSeqs
<1>3. /\ IsSeq(DescentQueries(g)) /\ DescentQueries(g) # <<>>
      /\ Tail(DescentQueries(g)) = SizeQuery(g)
      /\ Head(DescentQueries(g)) = Query(getFontDescentOp(g), "descent")
  BY <1>1, <1>2, QuestionBefore DEF DescentQueries
<1>4. /\ IsSeq(FontQueries(g)) /\ FontQueries(g) # <<>>
      /\ Tail(FontQueries(g)) = DescentQueries(g)
      /\ Head(FontQueries(g)) = Query(getFontAscentOp(g), "ascent")
  BY <1>3, <1>2, QuestionBefore DEF FontQueries
<1>5. /\ Query(getGLabelSizeOp(g), "size").command.id = g
      /\ Query(getFontDescentOp(g), "descent").command.id = g
      /\ Query(getFontAscentOp(g), "ascent").command.id = g
      /\ Query(getGLabelSizeOp(g), "size").field = "size"
      /\ Query(getFontDescentOp(g), "descent").field = "descent"
      /\ Query(getFontAscentOp(g), "ascent").field = "ascent"
  BY DEF Query, getGLabelSizeOp, getFontDescentOp, getFontAscentOp, Command
<1> QED
  BY <1>1, <1>3, <1>4, <1>5

\* What is to be asked of g is none of the others' questions.
LEMMA QuestionsDiffer ==
    ASSUME NEW g, NEW h, g # h
    PROVE  \A q : LabelQueries(q, g) => ~LabelQueries(q, h) /\ q # <<>>
<1>1. /\ Head(FontQueries(g)).command.id = g /\ Head(DescentQueries(g)).command.id = g
      /\ Head(SizeQuery(g)).command.id = g
  BY LabelQuestions
<1>2. /\ Head(FontQueries(h)).command.id = h /\ Head(DescentQueries(h)).command.id = h
      /\ Head(SizeQuery(h)).command.id = h
  BY LabelQuestions
<1>3. FontQueries(g) # <<>> /\ DescentQueries(g) # <<>> /\ SizeQuery(g) # <<>>
  BY LabelQuestions
<1> QED
  BY <1>1, <1>2, <1>3 DEF LabelQueries

\* The object keeps its type and parent, and its parts if it is a compound.
Keeps(c, j, c2, j2) ==
    /\ ObjectOK(c2) /\ Agree(c2, j2) /\ c2.type = c.type /\ j2.parent = j.parent
    /\ c.type = "GCompound" => c2.contents = c.contents /\ j2.children = j.children

\* Objects that keep their types and parts: the same compounds.
LEMMA CompoundsKept ==
    ASSUME NEW objs, NEW objs2, DOMAIN objs2 = DOMAIN objs,
           \A g \in DOMAIN objs :
               /\ objs2[g].type = objs[g].type
               /\ objs[g].type = "GCompound" => objs2[g].contents = objs[g].contents
    PROVE  /\ Compounds(objs2) = Compounds(objs)
           /\ \A c \in Compounds(objs) : objs2[c].contents = objs[c].contents
BY DEF Compounds

\* The back end knows every compound.
LEMMA CompoundsThere ==
    ASSUME NEW objs, NEW doing, NEW stacked, NEW table, SameObjects(objs, doing, stacked, table),
           NonePending(doing), NEW c \in Compounds(objs)
    PROVE  /\ c \in DOMAIN objs /\ objs[c].type = "GCompound" /\ ~Unreadable(objs[c])
           /\ c \in DOMAIN table /\ c \in Ids /\ Agree(objs[c], table[c])
BY DEF SameObjects, AllAgree, NonePending, Compounds, Unreadable

KeepsPlace(j, j2) == Placed(j2) /\ j2.parent = j.parent /\ j2.type = j.type

\* Parents agree as long as they, the types and the parts of compounds are what
\* they were.
LEMMA SameParents ==
    ASSUME NEW objs, NEW doing, NEW table, ParentsAgree(objs, doing, table),
           NEW objs2, NEW doing2, NEW table2, NonePending(doing2),
           DOMAIN objs2 = DOMAIN objs, DOMAIN table2 = DOMAIN table,
           \A h \in DOMAIN objs : objs2[h].type = objs[h].type,
           Compounds(objs2) = Compounds(objs),
           \A c \in Compounds(objs) : objs2[c].contents = objs[c].contents,
           \A h \in DOMAIN table : KeepsPlace(table[h], table2[h])
    PROVE  ParentsAgree(objs2, doing2, table2)
<1>1. \A g : Actor(objs2, g) <=> Actor(objs, g)
  BY DEF Actor
<1>2. \A g : Alone(objs2, g) <=> Alone(objs, g)
  BY DEF Alone
<1>3. \A g, p : ParentOK(objs2, g, p) <=> ParentOK(objs, g, p)
  BY <1>1, <1>2 DEF ParentOK
<1> QED
  BY <1>1, <1>3 DEF ParentsAgree, NonePending, KeepsPlace

\* An image that could not be read changes in C; what the back end has at its
\* address, if anything, keeps its type and parent.
LEMMA UnreadableStep ==
    ASSUME NEW objs, NEW doing, NEW stacked, NEW table, SameObjects(objs, doing, stacked, table),
           NEW g \in DOMAIN objs, NEW objs2, NEW doing2, NEW table2,
           \A h : Pending(doing, h) => h = g, NonePending(doing2),
           doing \in {<<>>, doing2} \/ \A h : ~LabelQueries(doing, h),
           DOMAIN objs2 = DOMAIN objs,
           \A h \in DOMAIN objs \ {g} : objs2[h] = objs[h],
           DOMAIN table2 = DOMAIN table,
           \A h \in DOMAIN table \ {g} : table2[h] = table[h],
           g \in DOMAIN table => KeepsPlace(table[g], table2[g]),
           Unreadable(objs[g]), Unreadable(objs2[g]), ObjectOK(objs2[g])
    PROVE  SameObjects(objs2, doing2, stacked, table2)
<1>1. AllAgree(objs2, doing2, table2)
  BY DEF SameObjects, AllAgree
<1>2. /\ Compounds(objs2) = Compounds(objs)
      /\ \A c \in Compounds(objs) : objs2[c].contents = objs[c].contents
      /\ \A h \in DOMAIN objs : objs2[h].type = objs[h].type
      /\ g \notin Compounds(objs)
  BY DEF Unreadable, Compounds
<1>3. \A c \in Compounds(objs) : c \in DOMAIN table
  BY <1>2 DEF SameObjects, AllAgree, Unreadable, Compounds
<1>4. ContentsOK(objs2)
  BY <1>2 DEF SameObjects, ContentsOK
<1>5. ChildrenAgree(objs2, stacked, table2)
  BY <1>2, <1>3 DEF SameObjects, ChildrenAgree
<1>6. ParentsAgree(objs2, doing2, table2)
  <2>1. \A h \in DOMAIN table : KeepsPlace(table[h], table2[h])
    BY DEF SameObjects, ParentsAgree, KeepsPlace
  <2> QED
    BY <1>2, <2>1, SameParents DEF SameObjects
<1>7. LabelsMeasured(objs2, doing2)
  <2> SUFFICES ASSUME NEW h \in DOMAIN objs2, objs2[h].type = "GLabel"
               PROVE  Measured(h, objs2[h], doing2)
    BY DEF LabelsMeasured
  <2>1. h # g /\ objs2[h] = objs[h]
    BY DEF Unreadable
  <2>2. Measured(h, objs[h], doing)
    BY <2>1 DEF SameObjects, LabelsMeasured
  <2> QED
    BY <2>1, <2>2, LabelQuestions DEF Measured, LabelQueries
<1> QED
  BY <1>1, <1>4, <1>5, <1>6, <1>7 DEF SameObjects

\* One object changes on both sides alike, the others not at all.
LEMMA ObjectStep ==
    ASSUME NEW objs, NEW doing, NEW stacked, NEW table, SameObjects(objs, doing, stacked, table),
           NEW g \in DOMAIN objs, NEW objs2, NEW doing2, NEW table2,
           NonePending(doing), NonePending(doing2),
           DOMAIN objs2 = DOMAIN objs,
           \A h \in DOMAIN objs \ {g} : objs2[h] = objs[h],
           DOMAIN table \subseteq DOMAIN table2,
           \A h \in DOMAIN table \ {g} : table2[h] = table[h],
           DOMAIN table2 \subseteq DOMAIN table \cup {g},
           ~Unreadable(objs[g]),
           Keeps(objs[g], table[g], objs2[g], table2[g]),
           objs[g].type = "GLabel" => Measured(g, objs2[g], doing2),
           doing \in {<<>>, doing2} \/ LabelQueries(doing, g)
    PROVE  SameObjects(objs2, doing2, stacked, table2)
<1>1. /\ \A h \in DOMAIN objs :
             /\ ObjectOK(objs[h])
             /\ ~Unreadable(objs[h]) => h \in DOMAIN table /\ Agree(objs[h], table[h])
      /\ \A h : ~Pending(doing, h) /\ ~Pending(doing2, h)
      /\ g \in DOMAIN table /\ DOMAIN table2 = DOMAIN table
  BY DEF SameObjects, AllAgree, NonePending
<1>2. AllAgree(objs2, doing2, table2)
  BY <1>1 DEF AllAgree, Keeps
<1>3. /\ Compounds(objs2) = Compounds(objs)
      /\ \A c \in Compounds(objs) : objs2[c].contents = objs[c].contents
  <2>1. \A h \in DOMAIN objs :
            /\ objs2[h].type = objs[h].type
            /\ objs[h].type = "GCompound" => objs2[h].contents = objs[h].contents
    BY DEF Keeps
  <2> QED
    BY <2>1, CompoundsKept
<1>4. ContentsOK(objs2)
  BY <1>3 DEF SameObjects, ContentsOK
<1>5. \A c \in Compounds(objs) : table2[c].children = table[c].children
  BY <1>1, CompoundsThere DEF Keeps, Compounds
<1>6. ChildrenAgree(objs2, stacked, table2)
  BY <1>1, <1>3, <1>5 DEF SameObjects, ChildrenAgree
<1>7. /\ \A h \in DOMAIN table : KeepsPlace(table[h], table2[h])
      /\ \A h \in DOMAIN objs : objs2[h].type = objs[h].type
  BY <1>1 DEF Keeps, Agree, KeepsPlace, JavaObjectOK, Placed, SameObjects, ParentsAgree
<1>8. ParentsAgree(objs2, doing2, table2)
  BY <1>1, <1>3, <1>7, SameParents DEF SameObjects
<1>9. LabelsMeasured(objs2, doing2)
  <2> SUFFICES ASSUME NEW h \in DOMAIN objs, objs2[h].type = "GLabel"
               PROVE  Measured(h, objs2[h], doing2)
    BY DEF LabelsMeasured
  <2>1. CASE h = g
    BY <1>7, <2>1
  <2>2. CASE h # g
    <3>1. Measured(h, objs[h], doing)
      BY <2>2 DEF SameObjects, LabelsMeasured
    <3>2. objs2[h] = objs[h]
      BY <2>2
    <3>3. doing = doing2 \/ ~LabelQueries(doing, h)
      BY <2>2, QuestionsDiffer
    <3> QED
      BY <3>1, <3>2, <3>3 DEF Measured, LabelQueries
  <2> QED
    BY <2>1, <2>2
<1> QED
  BY <1>2, <1>4, <1>6, <1>8, <1>9 DEF SameObjects

\* A list agrees with another also when the back end knows one object more, that
\* is in neither.
LEMMA MoreKnown ==
    ASSUME NEW s, NEW t, NEW known, SameParts(s, t, known), NEW g, ~Holds(s, g), NEW known2,
           known \subseteq known2, known2 \subseteq known \cup {g}
    PROVE  /\ SameParts(s, t, known2)
           /\ SameOrder(s, t, known) => SameOrder(s, t, known2)
<1>1. SameParts(s, t, known2)
  BY DEF SameParts
<1>2. ~Holds(t, g)
  <2>1. CASE g \in Ids
    BY <2>1 DEF SameParts
  <2>2. CASE g \notin Ids
    BY <2>2 DEF SameParts, Holds
  <2> QED
    BY <2>1, <2>2
<1>3. \A h : ~Before(s, g, h) /\ ~Before(s, h, g) /\ ~Before(t, g, h) /\ ~Before(t, h, g)
  BY <1>2 DEF Before, Holds
<1> QED
  BY <1>1, <1>3 DEF SameOrder

\* An object is made, at an address that none has.
LEMMA NewStep ==
    ASSUME NEW objs, NEW doing, NEW stacked, NEW table, SameObjects(objs, doing, stacked, table),
           NEW g \in Ids, g \notin DOMAIN objs, NEW c2, NEW doing2, NEW table2,
           NonePending(doing), \A h : Pending(doing2, h) => h = g,
           DOMAIN table \subseteq DOMAIN table2, DOMAIN table2 \subseteq DOMAIN table \cup {g},
           \A h \in DOMAIN table \ {g} : table2[h] = table[h],
           ObjectOK(c2),
           \/ Pending(doing2, g) /\ table2 = table
           \/ /\ g \in DOMAIN table2 /\ Agree(c2, table2[g])
              /\ table2[g].parent = Null
              /\ c2.type = "GCompound" => table2[g].children = <<>>,
           c2.type = "GCompound" => c2.contents = <<>> /\ ~Pending(doing2, g),
           c2.type = "GLabel" => Measured(g, c2, doing2),
           doing = <<>>
    PROVE  SameObjects(With(objs, g, c2), doing2, stacked, table2)
<1> DEFINE objs2 == With(objs, g, c2)
<1>1. /\ \A h \in DOMAIN objs :
             /\ ObjectOK(objs[h])
             /\ ~Unreadable(objs[h]) => h \in DOMAIN table /\ Agree(objs[h], table[h])
      /\ \A h : ~Pending(doing, h)
  BY DEF SameObjects, AllAgree, NonePending
<1>2. /\ DOMAIN objs2 = DOMAIN objs \cup {g} /\ objs2[g] = c2
      /\ \A h \in DOMAIN objs : objs2[h] = objs[h]
  BY DEF With
<1>3. /\ \A h \in DOMAIN objs : h # g /\ ~Pending(doing2, h)
      /\ \A h \in DOMAIN table \ {g} : table2[h] = table[h] /\ h \in DOMAIN table2
  BY <1>1
<1> HIDE DEF objs2
<1>4. AllAgree(objs2, doing2, table2)
  BY <1>1, <1>2, <1>3 DEF AllAgree
<1>5. /\ Compounds(objs2) = Compounds(objs) \cup (IF c2.type = "GCompound" THEN {g} ELSE {})
      /\ \A c \in Compounds(objs) : objs2[c].contents = objs[c].contents /\ c \in DOMAIN objs
      /\ g \notin Compounds(objs)
  BY <1>2 DEF Compounds
<1>6. /\ \A c \in Compounds(objs) : ~Holds(objs[c].contents, g)
      /\ \A h : ~Holds(<<>>, h)
  <2>1. ASSUME NEW c \in Compounds(objs) PROVE ~Holds(objs[c].contents, g)
    <3>1. objs[c].contents \in Seq(DOMAIN objs \ {c})
      BY DEF SameObjects, ContentsOK
    <3>2. \A i \in 1..Len(objs[c].contents) : objs[c].contents[i] \in DOMAIN objs
      BY <3>1
    <3> QED
      BY <3>2 DEF Holds
  <2> QED
    BY <2>1 DEF Holds
<1>7. ContentsOK(objs2)
  <2>1. ASSUME NEW c \in Compounds(objs)
        PROVE  objs2[c].contents \in Seq(DOMAIN objs2 \ {c}) /\ Once(objs2[c].contents)
    <3>1. objs[c].contents \in Seq(DOMAIN objs \ {c}) /\ Once(objs[c].contents)
      BY <2>1 DEF SameObjects, ContentsOK
    <3>2. DOMAIN objs \ {c} \subseteq DOMAIN objs2 \ {c}
      BY <1>2
    <3> QED
      BY <3>1, <3>2, <1>5, SeqMonotonic
  <2>2. <<>> \in Seq(DOMAIN objs2 \ {g}) /\ Once(<<>>)
    BY DEF Once
  <2>3. \A c \in Compounds(objs2) :
            objs2[c].contents \in Seq(DOMAIN objs2 \ {c}) /\ Once(objs2[c].contents)
    BY <2>1, <2>2, <1>2, <1>5
  <2>4. \A c, d \in Compounds(objs2), h \in DOMAIN objs2 :
            Holds(objs2[c].contents, h) /\ Holds(objs2[d].contents, h) => c = d
    <3> SUFFICES ASSUME NEW c \in Compounds(objs2), NEW d \in Compounds(objs2),
                        NEW h \in DOMAIN objs2,
                        Holds(objs2[c].contents, h), Holds(objs2[d].contents, h)
                 PROVE  c = d
      OBVIOUS
    <3>1. c \in Compounds(objs) /\ d \in Compounds(objs)
      BY <1>2, <1>5, <1>6
    <3>2. Holds(objs[c].contents, h) /\ Holds(objs[d].contents, h) /\ h \in DOMAIN objs
      BY <3>1, <1>2, <1>5, <1>6
    <3> QED
      BY <3>1, <3>2 DEF SameObjects, ContentsOK
  <2> QED
    BY <2>3, <2>4 DEF ContentsOK
<1>8. ChildrenAgree(objs2, stacked, table2)
  <2>1. ASSUME c2.type = "GCompound"
        PROVE  /\ SameParts(objs2[g].contents, table2[g].children, DOMAIN table2)
               /\ SameOrder(objs2[g].contents, table2[g].children, DOMAIN table2)
    <3>1. objs2[g].contents = <<>> /\ table2[g].children = <<>>
      BY <2>1, <1>2
    <3>2. <<>> \in Seq(Ids)
      OBVIOUS
    <3> QED
      BY <3>1, <3>2, <1>6 DEF SameParts, SameOrder, Once, Before
  <2>2. ASSUME NEW c \in Compounds(objs)
        PROVE  /\ SameParts(objs2[c].contents, table2[c].children, DOMAIN table2)
               /\ c \notin stacked =>
                      SameOrder(objs2[c].contents, table2[c].children, DOMAIN table2)
    <3>1. /\ objs2[c].contents = objs[c].contents /\ table2[c].children = table[c].children
          /\ ~Holds(objs[c].contents, g)
      BY <2>2, <1>3, <1>5, <1>6, CompoundsThere
    <3>2. /\ SameParts(objs[c].contents, table[c].children, DOMAIN table)
          /\ c \notin stacked => SameOrder(objs[c].contents, table[c].children, DOMAIN table)
      BY DEF SameObjects, ChildrenAgree
    <3> QED
      BY <3>1, <3>2, MoreKnown
  <2> QED
    BY <2>1, <2>2, <1>5 DEF ChildrenAgree
<1>9. ParentsAgree(objs2, doing2, table2)
  <2>1. Alone(objs2, g)
    BY <1>2, <1>5, <1>6 DEF Alone
  <2>2. ASSUME NEW h, h # g
        PROVE  /\ Actor(objs2, h) <=> Actor(objs, h)
               /\ Alone(objs2, h) <=> Alone(objs, h)
    BY <2>2, <1>2, <1>5, <1>6 DEF Actor, Alone
  <2>3. ASSUME NEW h \in DOMAIN table, h # g
        PROVE  /\ Placed(table2[h]) /\ ParentOK(objs2, h, table2[h].parent)
               /\ table2[h].type \in InteractorType => Actor(objs2, h)
    <3>1. table2[h] = table[h]
      BY <2>3, <1>3
    <3>2. /\ Placed(table[h]) /\ ParentOK(objs, h, table[h].parent)
          /\ table[h].type \in InteractorType => Actor(objs, h)
      BY <2>3 DEF SameObjects, ParentsAgree
    <3> QED
      BY <3>1, <3>2, <2>2, <2>3, <1>2, <1>5 DEF ParentOK
  <2>4. ASSUME g \in DOMAIN table2
        PROVE  /\ Placed(table2[g]) /\ ParentOK(objs2, g, table2[g].parent)
               /\ table2[g].type \in InteractorType => Actor(objs2, g)
    <3>1. CASE Pending(doing2, g) /\ table2 = table
      <4>1. Placed(table[g]) /\ ParentOK(objs, g, table[g].parent) /\ ~Actor(objs, g)
        BY <2>4, <3>1 DEF SameObjects, ParentsAgree, Actor
      <4>2. table[g].parent = Null /\ table[g].type \notin InteractorType
        BY <4>1, <2>4, <3>1, <1>6 DEF ParentOK, SameObjects, ParentsAgree
      <4> QED
        BY <4>1, <4>2, <3>1, <2>1 DEF ParentOK
    <3>2. CASE Agree(c2, table2[g]) /\ table2[g].parent = Null
      BY <3>2, <2>1, <1>2 DEF ParentOK, Actor, Agree, JavaObjectOK, Placed
    <3> QED
      BY <3>1, <3>2
  <2>5. \A h : Pending(doing2, h) => Alone(objs2, h)
    BY <2>1
  <2> QED
    BY <2>3, <2>4, <2>5 DEF ParentsAgree
<1>10. LabelsMeasured(objs2, doing2)
  <2> SUFFICES ASSUME NEW h \in DOMAIN objs2, objs2[h].type = "GLabel"
               PROVE  Measured(h, objs2[h], doing2)
    BY DEF LabelsMeasured
  <2>1. CASE h = g
    BY <2>1, <1>2
  <2>2. CASE h # g
    <3>1. Measured(h, objs[h], <<>>) /\ objs2[h] = objs[h]
      BY <2>2, <1>2 DEF SameObjects, LabelsMeasured
    <3>2. ~LabelQueries(<<>>, h)
      BY <2>2, QuestionsDiffer
    <3> QED
      BY <3>1, <3>2 DEF Measured, LabelQueries
  <2> QED
    BY <2>1, <2>2
<1>11. DOMAIN objs2 \subseteq Ids
  BY <1>2 DEF SameObjects
<1> QED
  BY <1>4, <1>7, <1>8, <1>9, <1>10, <1>11 DEF SameObjects, objs2
-----------------------------------------------------------------------------
(* The operations on one object. *)
\* A live object has an address and the fields of its type.
LEMMA LiveObjects ==
    ASSUME IInv, NEW g \in DOMAIN objects
    PROVE  g \in Ids /\ ObjectOK(objects[g])
BY DEF IInv, Mirrors, SameObjects, AllAgree

\* An object's label stays measured if its text, font, size and ascent stay.
LEMMA StaysMeasured ==
    ASSUME NEW g, NEW c, NEW fields, NEW doing, ObjectOK(c), c.type = "GLabel",
           DOMAIN fields \cap {"str", "font", "ascent", "descent", "width", "height"} = {},
           Measured(g, c, doing)
    PROVE  Measured(g, fields ++ c, doing)
<1>1. /\ (fields ++ c).str = c.str /\ (fields ++ c).font = c.font
      /\ (fields ++ c).ascent = c.ascent /\ (fields ++ c).descent = c.descent
      /\ (fields ++ c).width = c.width
      /\ (fields ++ c).height = c.height
  BY DEF ++, ObjectOK, ObjectFields
<1> QED
  BY <1>1 DEF Measured

AsksOf(c, g, q) ==
    \/ q = <<>>
    \/ c.type = "GLabel" /\ LabelQueries(q, g)
    \/ /\ c.type \in InteractorType
       /\ \E command : InteractorQuery(g, command) /\ q = <<Query(command, "none")>>

\* What is asked of a label or an interactor is no image.
LEMMA AsksForNoImage ==
    ASSUME NEW c, NEW g, NEW q, AsksOf(c, g, q)
    PROVE  NonePending(q)
<1>1. NonePending(<<>>)
  BY NothingPending
<1>3. ASSUME LabelQueries(q, g) PROVE NonePending(q)
  <2>1. \/ Head(q) = Query(getGLabelSizeOp(g), "size")
        \/ Head(q) = Query(getFontDescentOp(g), "descent")
        \/ Head(q) = Query(getFontAscentOp(g), "ascent")
    BY <1>3, LabelQuestions DEF LabelQueries
  <2>2. Head(q).command.op # "GImage.create"
    BY <2>1 DEF Query, getFontAscentOp, getFontDescentOp, getGLabelSizeOp, Command
  <2> QED
    BY <2>2 DEF NonePending, Pending
<1>4. ASSUME NEW command, InteractorQuery(g, command)
      PROVE  NonePending(<<Query(command, "none")>>)
  BY <1>4 DEF NonePending, Pending, InteractorQuery, Query, getSizeOp, isSelectedOp, getValueOp,
              getTextOp, getSelectedItemOp, Command
<1> QED
  BY <1>1, <1>3, <1>4 DEF AsksOf

\* What is done to an image that could not be read.
StaysUnread(g, c, fields, s) ==
    /\ FieldsOK(fields)
    /\ \A b : IsBackEnd(b) =>
           \E d : /\ Leads(b, s, d) /\ Edits(b, d, g) /\ DOMAIN d.table = DOMAIN b.table
                  /\ Known(b, g) /\ Placed(b.table[g]) => KeepsPlace(b.table[g], d.table[g])

\* The operation sets the fields, sends the commands s about g and asks q.
LEMMA Asking ==
    ASSUME IInv, NEW op, May(op), NEW g \in DOMAIN objects, NEW fields, NEW s, NEW q,
           Ask(g, fields, s, q), UNCHANGED backEndVars,
           IsSeq(s), Len(s) <= 5, \A i \in 1..Len(s) : EditsOnly(s[i], g),
           \A b : IsBackEnd(b) /\ Known(b, g) /\ Agree(objects[g], b.table[g]) =>
                      \E d : /\ Leads(b, s, d) /\ Edits(b, d, g)
                             /\ Keeps(objects[g], b.table[g], fields ++ objects[g], d.table[g]),
           Unreadable(objects[g]) => StaysUnread(g, objects[g], fields, s),
           objects[g].type = "GLabel" /\ Measured(g, objects[g], <<>>) =>
               Measured(g, fields ++ objects[g], q),
           AsksOf(objects[g], g, q)
    PROVE  IInv'
<1>1. PICK b : Leads(backEnd, pipe, b) /\ Mirrors(b)
  BY DEF IInv
<1>2. /\ todo = <<>> /\ ~awaiting /\ NonePending(todo) /\ g \in Ids
      /\ SameObjects(objects, todo, restacked, b.table) /\ IsBackEnd(b)
  BY <1>1, LiveObjects, NothingPending DEF May, Mirrors
<1>3. ~Unreadable(objects[g]) => Known(b, g) /\ Agree(objects[g], b.table[g])
  BY <1>2 DEF SameObjects, AllAgree, NonePending, Known
<1>4. PICK d : /\ Leads(b, s, d) /\ Edits(b, d, g)
               /\ ~Unreadable(objects[g]) =>
                      Keeps(objects[g], b.table[g], fields ++ objects[g], d.table[g])
               /\ Unreadable(objects[g]) =>
                      /\ DOMAIN d.table = DOMAIN b.table
                      /\ Known(b, g) /\ Placed(b.table[g]) => KeepsPlace(b.table[g], d.table[g])
  BY <1>2, <1>3 DEF StaysUnread
<1>5. \A i \in 1..Len(s) : Proper(s[i]) /\ Silent(s[i])
  BY <1>2, EditsOnlyIsProper
<1>6. /\ putPipe(s) /\ UNCHANGED <<backEndVars, replies, awaiting>> /\ todo' = q
      /\ UNCHANGED <<program, status, initialized, gw, drawn, restacked>>
  BY DEF Ask, Quietly, sentVars
<1>7. PipeOK' /\ Leads(backEnd', pipe', d)
  BY <1>1, <1>2, <1>4, <1>5, <1>6, Sending DEF IInv
<1>8. /\ DOMAIN objects' = DOMAIN objects /\ objects'[g] = fields ++ objects[g]
      /\ \A h \in DOMAIN objects \ {g} : objects'[h] = objects[h]
      /\ \A h \in DOMAIN objects : objects'[h].type = objects[h].type
  <2>1. objects' = [objects EXCEPT ![g] = fields ++ @]
    BY DEF Ask
  <2>2. (fields ++ objects[g]).type = objects[g].type
    BY <1>4, LiveObjects, FieldsOfC DEF Keeps, StaysUnread
  <2> QED
    BY <2>1, <2>2
<1>9. SameObjects(objects', todo', restacked', d.table)
  <2>1. NonePending(q)
    BY AsksForNoImage
  <2>2. objects[g].type = "GLabel" => Measured(g, objects'[g], q)
    BY <1>2, <1>8 DEF SameObjects, LabelsMeasured
  <2>3. /\ DOMAIN b.table \subseteq DOMAIN d.table
        /\ DOMAIN d.table \subseteq DOMAIN b.table \cup {g}
        /\ \A h \in DOMAIN b.table \ {g} : d.table[h] = b.table[h]
    BY <1>4 DEF Edits
  <2>4. ASSUME ~Unreadable(objects[g]) PROVE SameObjects(objects', q, restacked, d.table)
    <3>1. Keeps(objects[g], b.table[g], objects'[g], d.table[g])
      BY <1>4, <1>8, <2>4
    <3> QED
      BY ONLY <1>2, <1>8, <2>1, <2>2, <2>3, <2>4, <3>1, g \in DOMAIN objects, ObjectStep
  <2>5. ASSUME Unreadable(objects[g]) PROVE SameObjects(objects', q, restacked, d.table)
    <3>1. ObjectOK(objects'[g]) /\ Unreadable(objects'[g])
      BY <1>8, <2>5, LiveObjects, FieldsOfC DEF StaysUnread
    <3>2. /\ DOMAIN d.table = DOMAIN b.table
          /\ g \in DOMAIN b.table => KeepsPlace(b.table[g], d.table[g])
      BY <1>2, <1>4, <2>5 DEF Known, SameObjects, ParentsAgree
    <3>3. (\A h : Pending(todo, h) => h = g) /\ todo = <<>>
      BY <1>2 DEF NonePending
    <3> QED
      BY ONLY <1>2, <1>8, <2>1, <2>3, <2>5, <3>1, <3>2, <3>3, g \in DOMAIN objects, UnreadableStep
  <2> QED
    BY <2>4, <2>5, <1>6
<1>10. QuestionOK(objects', todo', gw')
  BY <1>6, <1>8 DEF QuestionOK, AsksOf
<1>11. ResultOK(todo', awaiting', d)
  BY <1>1, <1>2, <1>4, <1>6 DEF Mirrors, ResultOK, Edits
<1>12. WindowOK(objects', todo', gw', awaiting', d)
  <2>1. Compounds(objects') = Compounds(objects)
    BY <1>8 DEF Compounds
  <2>2. gw.top # Null => b.canvas # Null
    BY <1>1, <1>2 DEF Mirrors, WindowOK, WindowQuery
  <2> QED
    BY <2>1, <2>2, <1>1, <1>4, <1>6 DEF Mirrors, WindowOK, Edits
<1>13. Pictured(drawn', d)
  BY <1>1, <1>4, <1>6 DEF Mirrors, Pictured, Edits
<1>14. Own'
  BY <1>6, <1>8 DEF IInv, Own, backEndVars
<1>15. Mirrors(d)'
  BY <1>4, <1>9, <1>10, <1>11, <1>12, <1>13 DEF Mirrors, Edits
<1> QED
  BY <1>7, <1>14, <1>15 DEF IInv

\* An update adds no address and sets neither type nor parent.
LEMMA KeepsAddresses ==
    ASSUME NEW b, IsBackEnd(b), NEW g, NEW types, NEW fields, FieldsOK(fields),
           NEW d, d = Update(b, g, types, fields)
    PROVE  /\ Edits(b, d, g) /\ DOMAIN d.table = DOMAIN b.table
           /\ Known(b, g) /\ Placed(b.table[g]) => KeepsPlace(b.table[g], d.table[g])
<1>1. Edits(b, d, g)
  BY Updates
<1>2. CASE Known(b, g) /\ b.table[g].type \in types
  <2>1. d = SetFields(b, g, fields)
    BY <1>2 DEF Update
  <2>2. d.table = [b.table EXCEPT ![g] = fields ++ b.table[g]]
    BY <2>1, <1>2, FieldsSet
  <2>3. d.table[g] = fields ++ b.table[g]
    BY <2>2, <1>2 DEF Known
  <2>4. "type" \notin DOMAIN fields /\ "parent" \notin DOMAIN fields
    BY DEF FieldsOK, NotSet
  <2>5. DOMAIN d.table = DOMAIN b.table
    BY <2>2
  <2>6. ASSUME Placed(b.table[g]) PROVE KeepsPlace(b.table[g], d.table[g])
    BY <2>3, <2>4, <2>6 DEF ++, KeepsPlace, Placed
  <2> QED
    BY <1>1, <2>5, <2>6
<1>3. CASE ~(Known(b, g) /\ b.table[g].type \in types)
  BY <1>1, <1>3 DEF Update, KeepsPlace
<1> QED
  BY <1>2, <1>3

\* One command sets the same fields in the back end.
LEMMA Following ==
    ASSUME IInv, NEW op, May(op), NEW g \in DOMAIN objects, NEW fields, NEW k, NEW types, NEW q,
           Ask(g, fields, <<k>>, q), UNCHANGED backEndVars,
           Updating(k, g), FieldsOK(fields),
           \A b : IsBackEnd(b) /\ Known(b, g) /\ Agree(objects[g], b.table[g]) =>
                      Handle(b, k) = Update(b, g, types, fields),
           objects[g].type \in types,
           objects[g].type = "GImage" => \A b : Handle(b, k) = Update(b, g, types, fields),
           objects[g].type \in FillableType \/ DOMAIN fields \cap {"filled", "fillColor"} = {},
           objects[g].type # "GLabel" \/ DOMAIN fields \cap {"width", "height", "ascent", "descent"} = {},
           objects[g].type = "GLabel" /\ Measured(g, objects[g], <<>>) =>
               Measured(g, fields ++ objects[g], q),
           AsksOf(objects[g], g, q)
    PROVE  IInv'
<1>1. IsSeq(<<k>>) /\ Len(<<k>>) = 1 /\ Len(<<k>>) <= 5
  BY LeadsOne DEF Leads
<1>2. \A i \in 1..Len(<<k>>) : EditsOnly(<<k>>[i], g)
  BY UpdatingEditsOnly
<1>3. ASSUME NEW b, IsBackEnd(b), Known(b, g), Agree(objects[g], b.table[g])
      PROVE  \E d : /\ Leads(b, <<k>>, d) /\ Edits(b, d, g)
                    /\ Keeps(objects[g], b.table[g], fields ++ objects[g], d.table[g])
  <2>1. PICK c, j : c = objects[g] /\ j = b.table[g] /\ ObjectOK(c) /\ Agree(c, j)
    BY <1>3, LiveObjects
  <2>2. PICK d : d = Handle(b, k) /\ Leads(b, <<k>>, d) /\ Edits(b, d, g) /\ d.table[g] = fields ++ j
    <3>1. Handle(b, k) = Update(b, g, types, fields) /\ b.table[g].type \in types
      BY <1>3, <2>1 DEF Agree
    <3> QED
      BY <3>1, <1>3, <2>1, LeadsOne, Updates
  <2>3. Keeps(c, j, fields ++ c, fields ++ j)
    <3>1. j.type = c.type /\ JavaObjectOK(j)
      BY <2>1 DEF Agree
    <3>2. Agree(fields ++ c, fields ++ j)
      BY <2>1, <3>1, SameFieldsSet
    <3>3. /\ (fields ++ j).parent = j.parent
          /\ j.type = "GCompound" => (fields ++ j).children = j.children
      BY <2>1, <3>1, FieldsOfJava
    <3>4. /\ ObjectOK(fields ++ c) /\ (fields ++ c).type = c.type
          /\ c.type = "GCompound" => (fields ++ c).contents = c.contents
      BY <2>1, FieldsOfC
    <3> QED
      BY <3>1, <3>2, <3>3, <3>4 DEF Keeps
  <2> QED
    BY <2>1, <2>2, <2>3
<1>4. Unreadable(objects[g]) => StaysUnread(g, objects[g], fields, <<k>>)
  <2> SUFFICES ASSUME objects[g].type = "GImage", NEW b, IsBackEnd(b)
               PROVE  \E d : /\ Leads(b, <<k>>, d) /\ Edits(b, d, g)
                             /\ DOMAIN d.table = DOMAIN b.table
                             /\ Known(b, g) /\ Placed(b.table[g]) =>
                                    KeepsPlace(b.table[g], d.table[g])
    BY DEF Unreadable, StaysUnread
  <2>1. PICK d : d = Handle(b, k) /\ Leads(b, <<k>>, d) /\ d = Update(b, g, types, fields)
    BY LeadsOne
  <2> QED
    BY <2>1, KeepsAddresses
<1> QED
  BY <1>1, <1>2, <1>3, <1>4, Asking

\* An operation that sets fields in C and sends the one command that sets them in Java.
LEMMA Setting ==
    ASSUME IInv, NEW op, May(op), NEW g \in DOMAIN objects, NEW fields, NEW k, NEW types,
           Change(g, fields, <<k>>), UNCHANGED backEndVars, FieldsOK(fields),
           \A b : Handle(b, k) = Update(b, g, types, fields),
           objects[g].type \in types,
           objects[g].type \in FillableType \/ DOMAIN fields \cap {"filled", "fillColor"} = {},
           \/ objects[g].type # "GLabel"
           \/ DOMAIN fields \cap {"str", "font", "ascent", "descent", "width", "height"} = {}
    PROVE  IInv'
<1>1. Ask(g, fields, <<k>>, <<>>) /\ AsksOf(objects[g], g, <<>>)
  BY DEF Change, AsksOf
<1>2. Updating(k, g)
  BY DEF Updating
<1>3. objects[g].type = "GLabel" /\ Measured(g, objects[g], <<>>) =>
          Measured(g, fields ++ objects[g], <<>>)
  BY LiveObjects, StaysMeasured
<1> QED
  BY <1>1, <1>2, <1>3, Following

\* The fields of a location, ...
LEMMA PointFields ==
    ASSUME NEW pt \in Points
    PROVE  FieldsOK(At(pt)) /\ DOMAIN At(pt) = {"x", "y"}
BY PointsAssumption DEF At, FieldsOK, NotSet, Pair

\* ... those of a size, ...
LEMMA SizeFields ==
    ASSUME NEW size
    PROVE  FieldsOK(Sized(size)) /\ DOMAIN Sized(size) = {"width", "height"}
BY DEF Sized, FieldsOK, NotSet

\* The operations that set the same fields in C as their command does in Java.
LEMMA PlainOperations ==
    ASSUME IInv, UNCHANGED backEndVars, NEW g \in DOMAIN objects
    PROVE  /\ \A pt \in Points : setLocation(g, pt) \/ move(g, pt) => IInv'
           /\ \A size \in Sizes : setSize(g, size) => IInv'
           /\ \A flag \in BOOLEAN :
                  (setVisible(g, flag) \/ setFilled(g, flag) \/ setRaised(g, flag)) => IInv'
           /\ \A color \in Colors : setColor(g, color) => IInv'
           /\ \A a \in Angles :
                  (setStartAngle(g, a) \/ setSweepAngle(g, a) \/ setValue(g, a)) => IInv'
<1>0. objects[g].type \in AnyType
  BY LiveObjects DEF ObjectOK
<1>1. ASSUME NEW pt \in Points, NEW op, May(op), Change(g, At(pt), <<setLocationOp(g, pt)>>)
      PROVE  IInv'
  <2>1. \A b : Handle(b, setLocationOp(g, pt)) = Update(b, g, AnyType, At(pt))
    BY DEF Handle, setLocationOp, Command, GObject_setLocation, At
  <2> QED
    BY <1>0, <1>1, <2>1, PointFields, Setting
<1>2. ASSUME NEW pt \in Points, setLocation(g, pt) \/ move(g, pt) PROVE IInv'
  <2>1. PICK to, op : to \in Points /\ May(op) /\ Change(g, At(to), <<setLocationOp(g, to)>>)
    BY <1>2 DEF setLocation, move
  <2> QED
    BY <2>1, <1>1
<1>3. ASSUME NEW size \in Sizes, setSize(g, size) PROVE IInv'
  <2>1. \A b : Handle(b, setSizeOp(g, size)) = Update(b, g, ResizableType, Sized(size))
    BY DEF Handle, setSizeOp, Command, GObject_setSize, Sized, OfSize
  <2>2. objects[g].type \in ResizableType /\ objects[g].type # "GLabel"
    BY <1>3 DEF setSize, Of, ResizableType, InteractorType
  <2> QED
    BY <1>3, <2>1, <2>2, SizeFields, Setting DEF setSize
<1>4. ASSUME NEW flag \in BOOLEAN, setVisible(g, flag) PROVE IInv'
  <2>1. \A b : Handle(b, setVisibleGObjectOp(g, flag)) = Update(b, g, AnyType, [visible |-> flag])
    BY DEF Handle, setVisibleGObjectOp, Command, GObject_setVisible
  <2>2. FieldsOK([visible |-> flag])
    BY DEF FieldsOK, NotSet
  <2> QED
    BY <1>0, <1>4, <2>1, <2>2, Setting DEF setVisible
<1>5. ASSUME NEW flag \in BOOLEAN, setFilled(g, flag) PROVE IInv'
  <2>1. \A b : Handle(b, setFilledOp(g, flag)) = Update(b, g, FillableType, [filled |-> flag])
    BY DEF Handle, setFilledOp, Command, GObject_setFilled
  <2>2. FieldsOK([filled |-> flag])
    BY DEF FieldsOK, NotSet
  <2> QED
    BY <1>5, <2>1, <2>2, Setting DEF setFilled, Of, FillableType
<1>6. ASSUME NEW flag \in BOOLEAN, setRaised(g, flag) PROVE IInv'
  <2>1. \A b : Handle(b, setRaisedOp(g, flag)) = Update(b, g, {"G3DRect"}, [raised |-> flag])
    BY DEF Handle, setRaisedOp, Command, G3DRect_setRaised
  <2>2. FieldsOK([raised |-> flag])
    BY DEF FieldsOK, NotSet
  <2> QED
    BY <1>6, <2>1, <2>2, Setting DEF setRaised, Of
<1>7. ASSUME NEW color \in Colors, setColor(g, color) PROVE IInv'
  <2>1. \A b : Handle(b, setColorOp(g, color)) = Update(b, g, AnyType, [color |-> color])
    BY DEF Handle, setColorOp, Command, GObject_setColor
  <2>2. FieldsOK([color |-> color])
    BY DEF FieldsOK, NotSet
  <2> QED
    BY <1>0, <1>7, <2>1, <2>2, Setting DEF setColor
<1>8. ASSUME NEW a \in Angles, setStartAngle(g, a) PROVE IInv'
  <2>1. \A b : Handle(b, setStartAngleOp(g, a)) = Update(b, g, {"GArc"}, [start |-> a])
    BY DEF Handle, setStartAngleOp, Command, GArc_setStartAngle
  <2>2. FieldsOK([start |-> a])
    BY DEF FieldsOK, NotSet
  <2> QED
    BY <1>8, <2>1, <2>2, Setting DEF setStartAngle, Of
<1>9. ASSUME NEW a \in Angles, setSweepAngle(g, a) PROVE IInv'
  <2>1. \A b : Handle(b, setSweepAngleOp(g, a)) = Update(b, g, {"GArc"}, [sweep |-> a])
    BY DEF Handle, setSweepAngleOp, Command, GArc_setSweepAngle
  <2>2. FieldsOK([sweep |-> a])
    BY DEF FieldsOK, NotSet
  <2> QED
    BY <1>9, <2>1, <2>2, Setting DEF setSweepAngle, Of
<1>10. ASSUME NEW a \in Angles, setValue(g, a) PROVE IInv'
  <2>1. \A b : Handle(b, setValueOp(g, a)) = Update(b, g, {"GSlider"}, [value |-> a])
    BY DEF Handle, setValueOp, Command, GSlider_setValue
  <2>2. FieldsOK([value |-> a])
    BY DEF FieldsOK, NotSet
  <2> QED
    BY <1>10, <2>1, <2>2, Setting DEF setValue, Of
<1> QED
  BY <1>2, <1>3, <1>4, <1>5, <1>6, <1>7, <1>8, <1>9, <1>10
\* Fields set together or one after the other.
LEMMA FieldsInTurn ==
    ASSUME NEW f1, NEW f2, NEW r, DOMAIN f1 \cap DOMAIN f2 = {}
    PROVE  (f1 ++ f2) ++ r = f2 ++ (f1 ++ r)
BY DEF ++

\* ... and those of both.
LEMMA FieldsOfBoth ==
    ASSUME NEW pt \in Points, NEW size
    PROVE  /\ FieldsOK(At(pt) ++ Sized(size)) /\ FieldsOK(Sized(size) ++ At(pt))
           /\ DOMAIN (At(pt) ++ Sized(size)) = {"x", "y", "width", "height"}
           /\ DOMAIN (Sized(size) ++ At(pt)) = {"x", "y", "width", "height"}
BY PointsAssumption DEF At, Sized, ++, FieldsOK, NotSet, Pair

\* Size and location, in two commands.
LEMMA SettingBounds ==
    ASSUME IInv, UNCHANGED backEndVars, NEW g \in DOMAIN objects,
           NEW pt \in Points, NEW size \in Sizes, setBounds(g, pt, size)
    PROVE  IInv'
<1> DEFINE k1 == setSizeOp(g, size)
           k2 == setLocationOp(g, pt)
           fields == Sized(size) ++ At(pt)
<1>1. \A b : Handle(b, k1) = Update(b, g, ResizableType, Sized(size))
  BY DEF Handle, setSizeOp, Command, GObject_setSize, Sized, OfSize
<1>2. \A b : Handle(b, k2) = Update(b, g, AnyType, At(pt))
  BY DEF Handle, setLocationOp, Command, GObject_setLocation, At
<1>3. EditsOnly(k1, g) /\ EditsOnly(k2, g)
  BY <1>1, <1>2, UpdatingEditsOnly DEF Updating
<1>4. /\ objects[g].type \in ResizableType /\ objects[g].type # "GLabel"
      /\ May("setBounds") /\ Ask(g, fields, <<k1, k2>>, <<>>) /\ AsksOf(objects[g], g, <<>>)
  BY DEF setBounds, Of, ResizableType, InteractorType, Change, AsksOf
<1>5. /\ FieldsOK(Sized(size)) /\ FieldsOK(At(pt)) /\ FieldsOK(fields)
      /\ DOMAIN Sized(size) = {"width", "height"} /\ DOMAIN At(pt) = {"x", "y"}
  BY PointFields, SizeFields, FieldsOfBoth
<1> HIDE DEF k1, k2, fields
<1>6. IsSeq(<<k1, k2>>) /\ Len(<<k1, k2>>) = 2
  BY LeadsTwo DEF Leads
<1>7. \A i \in 1..Len(<<k1, k2>>) : EditsOnly(<<k1, k2>>[i], g)
  <2>1. \A i \in 1..2 : i = 1 \/ i = 2
    OBVIOUS
  <2> QED
    BY <2>1, <1>3, <1>6
<1>8. ASSUME NEW b, IsBackEnd(b), Known(b, g), Agree(objects[g], b.table[g])
      PROVE  \E d : /\ Leads(b, <<k1, k2>>, d) /\ Edits(b, d, g)
                    /\ Keeps(objects[g], b.table[g], fields ++ objects[g], d.table[g])
  <2>1. PICK c, j : c = objects[g] /\ j = b.table[g] /\ ObjectOK(c) /\ Agree(c, j)
    BY <1>8, LiveObjects
  <2>2. j.type = c.type /\ c.type \in ResizableType /\ c.type \in AnyType
    BY <2>1, <1>4 DEF Agree, ObjectOK
  <2>3. PICK b1 : b1 = Handle(b, k1) /\ Edits(b, b1, g) /\ Known(b1, g)
                  /\ b1.table[g] = Sized(size) ++ j
    BY <1>1, <1>8, <2>1, <2>2, Updates
  <2>4. PICK j1 : /\ j1 = Sized(size) ++ j /\ Agree(Sized(size) ++ c, j1)
                  /\ j1.type = j.type /\ j1.parent = j.parent
                  /\ j.type = "GCompound" => j1.children = j.children
    BY <2>1, <2>2, <1>4, <1>5, FieldsOfJava, SameFieldsSet DEF Agree
  <2>5. PICK d : d = Handle(b1, k2) /\ Edits(b1, d, g) /\ d.table[g] = At(pt) ++ j1
    BY <1>2, <2>2, <2>3, <2>4, Updates DEF Edits
  <2>6. PICK c1 : c1 = Sized(size) ++ c /\ ObjectOK(c1)
    BY <2>1, <1>5, FieldsOfC
  <2>7. Agree(At(pt) ++ c1, At(pt) ++ j1)
    BY <2>4, <2>6, <1>5, SameFieldsSet
  <2>8. /\ (At(pt) ++ j1).parent = j1.parent
        /\ j1.type = "GCompound" => (At(pt) ++ j1).children = j1.children
    BY <2>4, <1>5, FieldsOfJava DEF Agree
  <2>9. fields ++ c = At(pt) ++ c1
    BY <2>6, <1>5, FieldsInTurn DEF fields
  <2>10. /\ ObjectOK(fields ++ c) /\ (fields ++ c).type = c.type
         /\ c.type = "GCompound" => (fields ++ c).contents = c.contents
    BY <2>1, <1>5, FieldsOfC
  <2>11. Keeps(c, j, fields ++ c, d.table[g])
    BY <2>2, <2>4, <2>5, <2>7, <2>8, <2>9, <2>10 DEF Keeps
  <2>12. Leads(b, <<k1, k2>>, d) /\ Edits(b, d, g)
    BY <2>3, <2>5, LeadsTwo, EditsTwice
  <2> QED
    BY <2>1, <2>11, <2>12
<1>9. Len(<<k1, k2>>) <= 5
  BY <1>6
<1>10. StaysUnread(g, objects[g], fields, <<k1, k2>>)
  <2> SUFFICES ASSUME NEW b, IsBackEnd(b)
               PROVE  \E d : /\ Leads(b, <<k1, k2>>, d) /\ Edits(b, d, g)
                             /\ DOMAIN d.table = DOMAIN b.table
                             /\ Known(b, g) /\ Placed(b.table[g]) =>
                                    KeepsPlace(b.table[g], d.table[g])
    BY <1>5 DEF StaysUnread
  <2>1. PICK b1 : b1 = Handle(b, k1) /\ b1 = Update(b, g, ResizableType, Sized(size))
    BY <1>1
  <2>2. /\ Edits(b, b1, g) /\ DOMAIN b1.table = DOMAIN b.table /\ IsBackEnd(b1)
        /\ Known(b, g) /\ Placed(b.table[g]) => KeepsPlace(b.table[g], b1.table[g])
    BY <1>5, <2>1, KeepsAddresses DEF Edits
  <2>3. PICK d : d = Handle(b1, k2) /\ d = Update(b1, g, AnyType, At(pt))
    BY <1>2
  <2>4. /\ Edits(b1, d, g) /\ DOMAIN d.table = DOMAIN b1.table
        /\ Known(b1, g) /\ Placed(b1.table[g]) => KeepsPlace(b1.table[g], d.table[g])
    BY <1>5, <2>2, <2>3, KeepsAddresses
  <2>5. Leads(b, <<k1, k2>>, d) /\ Edits(b, d, g)
    BY <2>1, <2>2, <2>3, <2>4, LeadsTwo, EditsTwice
  <2> QED
    BY <2>2, <2>4, <2>5 DEF KeepsPlace, Known
<1> QED
  BY ONLY <1>4, <1>6, <1>7, <1>8, <1>9, <1>10, IInv, UNCHANGED backEndVars, g \in DOMAIN objects, Asking

\* setFrameRectangle sends one command for both.
LEMMA SettingFrame ==
    ASSUME IInv, UNCHANGED backEndVars, NEW g \in DOMAIN objects,
           NEW pt \in Points, NEW size \in Sizes, setFrameRectangle(g, pt, size)
    PROVE  IInv'
<1> DEFINE fields == At(pt) ++ Sized(size)
<1>1. fields = [x |-> pt.x, y |-> pt.y] ++ OfSize(size)
  BY DEF At, Sized, OfSize
<1>2. \A b : Handle(b, setFrameRectangleOp(g, pt, size)) = Update(b, g, {"GArc"}, fields)
  BY <1>1 DEF Handle, setFrameRectangleOp, Command, GArc_setFrameRectangle
<1>3. FieldsOK(fields) /\ DOMAIN fields = {"x", "y", "width", "height"}
  BY FieldsOfBoth
<1>4. /\ May("setFrameRectangle") /\ objects[g].type = "GArc"
      /\ Change(g, fields, <<setFrameRectangleOp(g, pt, size)>>)
  BY DEF setFrameRectangle, Of
<1> HIDE DEF fields
<1> QED
  BY <1>2, <1>3, <1>4, Setting DEF FillableType

\* A fill color: objects that cannot be filled have none in the back end.
LEMMA SettingFillColor ==
    ASSUME IInv, UNCHANGED backEndVars, NEW g \in DOMAIN objects,
           NEW color \in Colors, setFillColor(g, color)
    PROVE  IInv'
<1> DEFINE k == setFillColorOp(g, color)
           fields == [fillColor |-> color]
<1>1. \A b : Handle(b, k) = Update(b, g, FillableType, fields)
  BY DEF Handle, setFillColorOp, Command, GObject_setFillColor
<1>2. FieldsOK(fields) /\ DOMAIN fields = {"fillColor"}
  BY DEF FieldsOK, NotSet
<1>3. May("setFillColor") /\ Change(g, fields, <<k>>) /\ Ask(g, fields, <<k>>, <<>>)
      /\ AsksOf(objects[g], g, <<>>)
  BY DEF setFillColor, Change, AsksOf
<1>4. IsSeq(<<k>>) /\ Len(<<k>>) = 1
  BY LeadsOne DEF Leads
<1>5. EditsOnly(k, g)
  BY <1>1, UpdatingEditsOnly DEF Updating
<1>6. PICK c : c = objects[g] /\ ObjectOK(c)
  BY LiveObjects
<1> HIDE DEF k, fields
<1>7. CASE c.type \in FillableType
  BY <1>1, <1>2, <1>3, <1>6, <1>7, Setting
<1>8. CASE c.type \notin FillableType
  <2>1. ASSUME NEW b, IsBackEnd(b), Known(b, g), Agree(c, b.table[g])
        PROVE  \E d : /\ Leads(b, <<k>>, d) /\ Edits(b, d, g)
                      /\ Keeps(c, b.table[g], fields ++ c, d.table[g])
    <3>1. b.table[g].type = c.type /\ JavaObjectOK(b.table[g])
      BY <2>1 DEF Agree
    <3>2. Handle(b, k) = b
      BY <1>1, <1>8, <3>1 DEF Update
    <3>3. Leads(b, <<k>>, b) /\ Edits(b, b, g)
      BY <2>1, <3>2, LeadsOne, EditsNothing
    <3>4. Agree(fields ++ c, b.table[g])
      BY <1>2, <1>6, <1>8, <2>1, <3>1, FieldsSetInC DEF JavaObjectOK
    <3>5. Keeps(c, b.table[g], fields ++ c, b.table[g])
      BY <1>2, <1>6, <3>1, <3>4, FieldsOfC DEF Keeps
    <3> QED
      BY <3>3, <3>5
  <2>2. c.type = "GLabel" /\ Measured(g, c, <<>>) => Measured(g, fields ++ c, <<>>)
    BY <1>2, <1>6, StaysMeasured
  <2>3. \A i \in 1..Len(<<k>>) : EditsOnly(<<k>>[i], g)
    BY <1>4, <1>5
  <2>4. Len(<<k>>) <= 5
    BY <1>4
  <2>5. StaysUnread(g, c, fields, <<k>>)
    <3> SUFFICES ASSUME NEW b, IsBackEnd(b)
                 PROVE  \E d : /\ Leads(b, <<k>>, d) /\ Edits(b, d, g)
                               /\ DOMAIN d.table = DOMAIN b.table
                               /\ Known(b, g) /\ Placed(b.table[g]) =>
                                      KeepsPlace(b.table[g], d.table[g])
      BY <1>2 DEF StaysUnread
    <3>1. PICK d : /\ d = Handle(b, k) /\ Leads(b, <<k>>, d)
                   /\ d = Update(b, g, FillableType, fields)
      BY <1>1, LeadsOne
    <3> QED
      BY <3>1, <1>2, KeepsAddresses
  <2> QED
    BY <1>3, <1>4, <1>6, <2>1, <2>2, <2>3, <2>4, <2>5, Asking
<1> QED
  BY <1>7, <1>8

\* C and Java make the same fields of the ends of a line.
LEMMA SameLine ==
    ASSUME NEW pt0, NEW pt1
    PROVE  /\ LineFields(pt0, pt1) = OfLine(pt0, pt1)
           /\ DOMAIN LineFields(pt0, pt1) = {"x", "y", "width", "height"}
           /\ pt0.x \in Int /\ pt0.y \in Int => FieldsOK(LineFields(pt0, pt1))
<1>1. LineFields(pt0, pt1) = OfLine(pt0, pt1)
  BY DEF LineFields, OfLine, At, Sized, Point, ++
<1> QED
  BY <1>1 DEF OfLine, FieldsOK, NotSet

\* A line's end stays where it is when its start is set.
LEMMA SettingLine ==
    ASSUME IInv, UNCHANGED backEndVars, NEW g \in DOMAIN objects, NEW pt \in Points,
           setStartPoint(g, pt) \/ setEndPoint(g, pt)
    PROVE  IInv'
<1>1. PICK c : c = objects[g] /\ ObjectOK(c)
  BY LiveObjects
<1>2. c.type = "GLine" /\ AsksOf(c, g, <<>>)
  BY <1>1 DEF setStartPoint, setEndPoint, Of, AsksOf
<1>3. pt.x \in Int /\ pt.y \in Int /\ c.x \in Int /\ c.y \in Int
  BY <1>1, PointsAssumption DEF Pair, ObjectOK
<1>4. CASE setStartPoint(g, pt)
  <2> DEFINE fields == LineFields(pt, EndOf(c))
             k == setStartPointOp(g, pt)
  <2>1. May("setStartPoint") /\ Ask(g, fields, <<k>>, <<>>)
    BY <1>1, <1>4 DEF setStartPoint, Change
  <2>2. Updating(k, g)
    BY DEF Updating, Handle, setStartPointOp, Command, GLine_setStartPoint
  <2>3. ASSUME NEW b, IsBackEnd(b), Known(b, g), Agree(c, b.table[g])
        PROVE  Handle(b, k) = Update(b, g, {"GLine"}, fields)
    <3>1. PICK j : j = b.table[g]
      OBVIOUS
    <3>2. j.x = c.x /\ j.y = c.y /\ j.width = c.width /\ j.height = c.height
      BY <2>3, <3>1, <1>1, <1>2 DEF Agree, JavaObjectOK, SameFields, ObjectOK, ObjectFields
    <3>3. Handle(b, k) = Update(b, g, {"GLine"}, OfLine(pt, Point(j.x + j.width, j.y + j.height)))
      BY <3>1 DEF Handle, setStartPointOp, Command, GLine_setStartPoint
    <3>4. fields = OfLine(pt, Point(j.x + j.width, j.y + j.height))
      BY <3>2, SameLine DEF EndOf
    <3> QED
      BY <3>3, <3>4
  <2>4. FieldsOK(fields) /\ DOMAIN fields = {"x", "y", "width", "height"}
    BY <1>3, SameLine
  <2> HIDE DEF k, fields
  <2> QED
    BY <1>1, <1>2, <2>1, <2>2, <2>3, <2>4, Following
<1>5. CASE setEndPoint(g, pt)
  <2> DEFINE fields == LineFields(c, pt)
             k == setEndPointOp(g, pt)
  <2>1. May("setEndPoint") /\ Ask(g, fields, <<k>>, <<>>)
    BY <1>1, <1>5 DEF setEndPoint, Change
  <2>2. Updating(k, g)
    BY DEF Updating, Handle, setEndPointOp, Command, GLine_setEndPoint
  <2>3. ASSUME NEW b, IsBackEnd(b), Known(b, g), Agree(c, b.table[g])
        PROVE  Handle(b, k) = Update(b, g, {"GLine"}, fields)
    <3>1. PICK j : j = b.table[g]
      OBVIOUS
    <3>2. j.x = c.x /\ j.y = c.y
      BY <2>3, <3>1, <1>1, <1>2 DEF Agree, JavaObjectOK, SameFields, ObjectOK, ObjectFields
    <3>3. Handle(b, k) = Update(b, g, {"GLine"}, OfLine(j, pt))
      BY <3>1 DEF Handle, setEndPointOp, Command, GLine_setEndPoint
    <3>4. fields = OfLine(j, pt)
      <4>1. fields = OfLine(c, pt)
        BY SameLine
      <4> QED
        BY <4>1, <3>2 DEF OfLine
    <3> QED
      BY <3>3, <3>4
  <2>4. FieldsOK(fields) /\ DOMAIN fields = {"x", "y", "width", "height"}
    BY <1>3, SameLine
  <2> HIDE DEF k, fields
  <2> QED
    BY <1>1, <1>2, <2>1, <2>2, <2>3, <2>4, Following
<1> QED
  BY <1>4, <1>5

\* addVertex and addEdge: the same vertex is the last on both sides.
LEMMA AddingVertices ==
    ASSUME IInv, UNCHANGED backEndVars, NEW g \in DOMAIN objects, NEW pt \in Points,
           addVertex(g, pt) \/ addEdge(g, pt)
    PROVE  IInv'
<1>1. PICK c : c = objects[g] /\ ObjectOK(c)
  BY LiveObjects
<1>2. PICK to, op : /\ May(op) /\ c.type = "GPolygon"
                    /\ Ask(g, [vertices |-> Append(c.vertices, to)], <<addVertexOp(g, to)>>, <<>>)
  BY <1>1 DEF addVertex, addEdge, Change, Of
<1> DEFINE fields == [vertices |-> Append(c.vertices, to)]
           k == addVertexOp(g, to)
<1>3. Updating(k, g)
  BY DEF Updating, Handle, addVertexOp, Command, GPolygon_addVertex
<1>4. ASSUME NEW b, IsBackEnd(b), Known(b, g), Agree(c, b.table[g])
      PROVE  Handle(b, k) = Update(b, g, {"GPolygon"}, fields)
  <2>1. b.table[g].vertices = c.vertices
    BY <1>1, <1>2, <1>4 DEF Agree, JavaObjectOK, SameFields, ObjectOK
  <2> QED
    BY <2>1 DEF Handle, addVertexOp, Command, GPolygon_addVertex
<1>5. FieldsOK(fields) /\ DOMAIN fields = {"vertices"} /\ AsksOf(c, g, <<>>)
  BY DEF FieldsOK, NotSet, AsksOf
<1>6. Ask(g, fields, <<k>>, <<>>)
  BY <1>2
<1> HIDE DEF k, fields
<1> QED
  BY <1>1, <1>2, <1>3, <1>4, <1>5, <1>6, Following

\* The text and the font of a label: the answers will be those for the new ones.
LEMMA SettingLabels ==
    ASSUME IInv, UNCHANGED backEndVars, NEW g \in DOMAIN objects, NEW s \in Strings,
           setFont(g, s) \/ setLabel(g, s)
    PROVE  IInv'
<1>1. PICK c : c = objects[g] /\ ObjectOK(c)
  BY LiveObjects
<1>2. c.type = "GLabel"
  BY <1>1 DEF setFont, setLabel, Of
<1>3. CASE setFont(g, s)
  <2> DEFINE fields == [font |-> s]
             k == setFontOp(g, s)
  <2>1. \A b : Handle(b, k) = Update(b, g, {"GLabel"}, fields)
    BY DEF Handle, setFontOp, Command, GLabel_setFont
  <2>2. FieldsOK(fields) /\ DOMAIN fields = {"font"} /\ AsksOf(c, g, FontQueries(g))
    BY <1>2 DEF FieldsOK, NotSet, AsksOf, LabelQueries
  <2>3. Measured(g, fields ++ c, FontQueries(g))
    BY DEF Measured, LabelQueries
  <2>4. May("setFont") /\ Ask(g, fields, <<k>>, FontQueries(g))
    BY <1>3 DEF setFont
  <2>5. Updating(k, g)
    BY <2>1 DEF Updating
  <2> HIDE DEF k, fields
  <2> QED
    BY <1>1, <1>2, <2>1, <2>2, <2>3, <2>4, <2>5, Following
<1>4. CASE setLabel(g, s)
  <2> DEFINE fields == [str |-> s]
             k == setLabelOp(g, s)
  <2>1. \A b : Handle(b, k) = Update(b, g, {"GLabel"}, fields)
    BY DEF Handle, setLabelOp, Command, GLabel_setLabel
  <2>2. FieldsOK(fields) /\ DOMAIN fields = {"str"} /\ AsksOf(c, g, SizeQuery(g))
    BY <1>2 DEF FieldsOK, NotSet, AsksOf, LabelQueries
  <2>3. Measured(g, c, <<>>) => Measured(g, fields ++ c, SizeQuery(g))
    <3>1. /\ (fields ++ c).font = c.font /\ (fields ++ c).ascent = c.ascent
          /\ (fields ++ c).descent = c.descent
      BY <1>1, <1>2 DEF ++, ObjectOK
    <3>2. <<>> # FontQueries(g) /\ <<>> # DescentQueries(g)
      BY LabelQuestions
    <3> HIDE DEF fields
    <3> QED
      BY <3>1, <3>2 DEF Measured, LabelQueries
  <2>4. May("setLabel") /\ Ask(g, fields, <<k>>, SizeQuery(g))
    BY <1>4 DEF setLabel
  <2>5. Updating(k, g)
    BY <2>1 DEF Updating
  <2> HIDE DEF k, fields
  <2> QED
    BY <1>1, <1>2, <2>1, <2>2, <2>3, <2>4, <2>5, Following
<1> QED
  BY <1>3, <1>4
-----------------------------------------------------------------------------
(* The operations on interactors. *)
\* Fields that only the back end has.
LEMMA FieldsSetInJava ==
    ASSUME NEW c, NEW j, NEW fields, ObjectOK(c), Agree(c, j),
           DOMAIN fields \subseteq {"items", "selected", "text"}
    PROVE  Keeps(c, j, <<>> ++ c, fields ++ j)
<1>1. /\ DOMAIN (fields ++ j) = DOMAIN fields \cup DOMAIN j
      /\ \A f \in DOMAIN (fields ++ j) :
             (fields ++ j)[f] = IF f \in DOMAIN fields THEN fields[f] ELSE j[f]
      /\ DOMAIN (<<>> ++ c) = DOMAIN c
      /\ \A f \in DOMAIN c : (<<>> ++ c)[f] = c[f]
  BY DEF ++
<1>2. FieldsOK(<<>>)
  BY DEF FieldsOK
<1>3. /\ ObjectOK(<<>> ++ c) /\ (<<>> ++ c).type = c.type
      /\ c.type = "GCompound" => (<<>> ++ c).contents = c.contents
  BY <1>2, FieldsOfC
<1>4. /\ (fields ++ j).type = j.type /\ (fields ++ j).parent = j.parent
      /\ JavaObjectOK(fields ++ j)
  BY <1>1 DEF Agree, JavaObjectOK
<1>5. j.type = "GCompound" => (fields ++ j).children = j.children
  BY <1>1 DEF Agree, JavaObjectOK
<1>6. SameFields(<<>> ++ c, fields ++ j)
  BY <1>1 DEF Agree, SameFields, ObjectOK
<1>7. c.type \in InteractorType => /\ (<<>> ++ c).actionCommand = c.actionCommand
                                   /\ (fields ++ j).actionCommand = j.actionCommand
  BY <1>1 DEF Agree, ObjectOK, JavaObjectOK
<1> QED
  BY <1>3, <1>4, <1>5, <1>6, <1>7 DEF Agree, Keeps

\* A command by which the back end sets fields that are not kept in C, if any.
LEMMA Unseen ==
    ASSUME IInv, NEW op, May(op), NEW g \in DOMAIN objects, NEW k,
           Change(g, <<>>, <<k>>), UNCHANGED backEndVars, objects[g].type # "GImage",
           \A b : \E types, fields : /\ Handle(b, k) = Update(b, g, types, fields)
                                     /\ DOMAIN fields \subseteq {"items", "selected", "text"}
    PROVE  IInv'
<1>1. PICK c : c = objects[g] /\ ObjectOK(c)
  BY LiveObjects
<1>2. Ask(g, <<>>, <<k>>, <<>>) /\ AsksOf(c, g, <<>>)
  BY DEF Change, AsksOf
<1>3. IsSeq(<<k>>) /\ Len(<<k>>) = 1
  BY LeadsOne DEF Leads
<1>4. EditsOnly(k, g)
  BY UpdatingEditsOnly DEF Updating
<1>5. \A i \in 1..Len(<<k>>) : EditsOnly(<<k>>[i], g)
  BY <1>3, <1>4
<1>6. ASSUME NEW b, IsBackEnd(b), Known(b, g), Agree(c, b.table[g])
      PROVE  \E d : /\ Leads(b, <<k>>, d) /\ Edits(b, d, g)
                    /\ Keeps(c, b.table[g], <<>> ++ c, d.table[g])
  <2>1. PICK types, fields : /\ Handle(b, k) = Update(b, g, types, fields)
                             /\ DOMAIN fields \subseteq {"items", "selected", "text"}
    OBVIOUS
  <2>2. PICK d : d = Handle(b, k) /\ Leads(b, <<k>>, d) /\ Edits(b, d, g)
    BY <1>4, <1>6, LeadsOne DEF EditsOnly
  <2>3. PICK j : j = b.table[g]
    OBVIOUS
  <2>4. Keeps(c, j, <<>> ++ c, fields ++ j) /\ Keeps(c, j, <<>> ++ c, <<>> ++ j)
    BY <1>1, <1>6, <2>1, <2>3, FieldsSetInJava
  <2>5. Keeps(c, j, <<>> ++ c, j)
    <3>1. Agree(<<>> ++ c, j)
      BY <1>1, <1>6, <2>3, FieldsSetInC DEF FieldsOK
    <3> QED
      BY <2>4, <3>1 DEF Keeps
  <2>6. d.table[g] = fields ++ j \/ d.table[g] = j
    BY <1>6, <2>1, <2>2, <2>3, Updates
  <2> QED
    BY <2>2, <2>3, <2>4, <2>5, <2>6
<1>7. c.type = "GLabel" /\ Measured(g, c, <<>>) => Measured(g, <<>> ++ c, <<>>)
  BY <1>1, StaysMeasured
<1>8. Len(<<k>>) <= 5
  BY <1>3
<1> QED
  BY <1>1, <1>2, <1>3, <1>5, <1>6, <1>7, <1>8, Asking DEF Unreadable

\* setSelected, setText, addItem, setSelectedItem: C keeps nothing of them.
LEMMA UnseenOperations ==
    ASSUME IInv, UNCHANGED backEndVars, NEW g \in DOMAIN objects
    PROVE  /\ \A flag \in BOOLEAN : setSelected(g, flag) => IInv'
           /\ \A s \in Strings :
                  (setText(g, s) \/ addItem(g, s) \/ setSelectedItem(g, s)) => IInv'
<1>1. ASSUME NEW flag \in BOOLEAN, setSelected(g, flag) PROVE IInv'
  <2>1. \A b : Handle(b, setSelectedOp(g, flag)) = Update(b, g, {}, <<>>)
    BY DEF Handle, setSelectedOp, Command, GCheckBox_isSelected, Update
  <2>2. /\ May("setSelected") /\ Change(g, <<>>, <<setSelectedOp(g, flag)>>)
        /\ DOMAIN <<>> = {} /\ objects[g].type # "GImage"
    BY <1>1 DEF setSelected, Of
  <2> QED
    BY <2>1, <2>2, Unseen
<1>2. ASSUME NEW s \in Strings, setText(g, s) PROVE IInv'
  <2>1. \A b : Handle(b, setTextOp(g, s)) = Update(b, g, {}, <<>>)
    BY DEF Handle, setTextOp, Command, GTextField_getText, Update
  <2>2. /\ May("setText") /\ Change(g, <<>>, <<setTextOp(g, s)>>) /\ DOMAIN <<>> = {}
        /\ objects[g].type # "GImage"
    BY <1>2 DEF setText, Of
  <2> QED
    BY <2>1, <2>2, Unseen
<1>3. ASSUME NEW s \in Strings, addItem(g, s) PROVE IInv'
  <2>1. ASSUME NEW b
        PROVE  \E types, fields :
                   /\ Handle(b, addItemOp(g, s)) = Update(b, g, types, fields)
                   /\ DOMAIN fields \subseteq {"items", "selected", "text"}
    <3> DEFINE o == b.table[g]
               fields == [items |-> o.items \cup {s},
                          selected |-> IF o.items = {} THEN s ELSE o.selected]
    <3>1. Handle(b, addItemOp(g, s)) = GChooser_addItem(b, g, s)
      BY DEF Handle, addItemOp, Command
    <3>2. GChooser_addItem(b, g, s) = Update(b, g, {"GChooser"}, fields)
      BY DEF GChooser_addItem
    <3>3. DOMAIN fields = {"items", "selected"}
      OBVIOUS
    <3> HIDE DEF fields
    <3> QED
      BY <3>1, <3>2, <3>3
  <2> QED
    BY <1>3, <2>1, Unseen DEF addItem, Of
<1>4. ASSUME NEW s \in Strings, setSelectedItem(g, s) PROVE IInv'
  <2>1. ASSUME NEW b
        PROVE  \E types, fields :
                   /\ Handle(b, setSelectedItemOp(g, s)) = Update(b, g, types, fields)
                   /\ DOMAIN fields \subseteq {"items", "selected", "text"}
    <3>1. Handle(b, setSelectedItemOp(g, s)) = GChooser_setSelectedItem(b, g, s)
      BY DEF Handle, setSelectedItemOp, Command
    <3>2. \/ GChooser_setSelectedItem(b, g, s) = Update(b, g, {"GChooser"}, [selected |-> s])
          \/ GChooser_setSelectedItem(b, g, s) = Update(b, g, {}, [selected |-> s])
      BY DEF GChooser_setSelectedItem, Update
    <3>3. DOMAIN [selected |-> s] = {"selected"}
      OBVIOUS
    <3> QED
      BY <3>1, <3>2, <3>3
  <2> QED
    BY <1>4, <2>1, Unseen DEF setSelectedItem, Of
<1> QED
  BY <1>1, <1>2, <1>3, <1>4

\* The action command is the one the program set last, or unset.
LEMMA SettingActionCommand ==
    ASSUME IInv, UNCHANGED backEndVars, NEW g \in DOMAIN objects, NEW cmd \in Strings,
           setActionCommand(g, cmd)
    PROVE  IInv'
<1> DEFINE k == setActionCommandOp(g, cmd)
           fields == [actionCommand |-> cmd]
<1>1. PICK c : c = objects[g] /\ ObjectOK(c)
  BY LiveObjects
<1>2. \A b : Handle(b, k) = Update(b, g, InteractorType, fields)
  BY DEF Handle, setActionCommandOp, Command, GInteractor_setActionCommand
<1>3. /\ c.type \in InteractorType /\ c.type # "GLabel" /\ May("setActionCommand")
      /\ Ask(g, fields, <<k>>, <<>>) /\ AsksOf(c, g, <<>>)
  BY <1>1 DEF setActionCommand, Of, Change, AsksOf, InteractorType
<1>4. DOMAIN fields = {"actionCommand"} /\ fields["actionCommand"] = cmd
  OBVIOUS
<1>5. IsSeq(<<k>>) /\ Len(<<k>>) = 1
  BY LeadsOne DEF Leads
<1>6. EditsOnly(k, g)
  BY <1>2, UpdatingEditsOnly DEF Updating
<1>7. \A i \in 1..Len(<<k>>) : EditsOnly(<<k>>[i], g)
  BY <1>5, <1>6
<1> HIDE DEF k, fields
<1>8. /\ DOMAIN (fields ++ c) = DOMAIN c /\ (fields ++ c).actionCommand = cmd
      /\ \A f \in DOMAIN c \ {"actionCommand"} : (fields ++ c)[f] = c[f]
  BY <1>1, <1>3, <1>4 DEF ++, ObjectOK
<1>9. ObjectOK(fields ++ c) /\ (fields ++ c).type = c.type
  BY <1>1, <1>3, <1>8 DEF ObjectOK, ObjectFields, InteractorType
<1>10. ASSUME NEW b, IsBackEnd(b), Known(b, g), Agree(c, b.table[g])
       PROVE  \E d : /\ Leads(b, <<k>>, d) /\ Edits(b, d, g)
                     /\ Keeps(c, b.table[g], fields ++ c, d.table[g])
  <2>1. PICK j : j = b.table[g] /\ j.type = c.type /\ JavaObjectOK(j) /\ SameFields(c, j)
    BY <1>10 DEF Agree
  <2>2. PICK d : d = Handle(b, k) /\ Leads(b, <<k>>, d) /\ Edits(b, d, g) /\ d.table[g] = fields ++ j
    BY <1>2, <1>3, <1>10, <2>1, Updates, LeadsOne
  <2>3. /\ DOMAIN (fields ++ j) = DOMAIN j /\ (fields ++ j).actionCommand = cmd
        /\ \A f \in DOMAIN j \ {"actionCommand"} : (fields ++ j)[f] = j[f]
    BY <1>3, <1>4, <2>1 DEF ++, JavaObjectOK
  <2>4. JavaObjectOK(fields ++ j) /\ (fields ++ j).type = j.type /\ (fields ++ j).parent = j.parent
    BY <2>1, <2>3 DEF JavaObjectOK
  <2>5. SameFields(fields ++ c, fields ++ j)
    BY <1>8, <2>1, <2>3 DEF SameFields
  <2>6. Keeps(c, j, fields ++ c, fields ++ j)
    BY <1>3, <1>8, <1>9, <2>1, <2>3, <2>4, <2>5 DEF Keeps, Agree, InteractorType
  <2> QED
    BY <2>1, <2>2, <2>6
<1>11. Len(<<k>>) <= 5
  BY <1>5
<1>12. ~Unreadable(c)
  BY <1>3 DEF Unreadable, InteractorType
<1> QED
  BY <1>1, <1>3, <1>5, <1>7, <1>10, <1>11, <1>12, Asking

\* A question of the program's own sets nothing.
LEMMA AskingInteractors ==
    ASSUME IInv, UNCHANGED backEndVars, NEW g \in DOMAIN objects,
           getSize(g) \/ isSelected(g) \/ getValue(g) \/ getText(g) \/ getSelectedItem(g)
    PROVE  IInv'
<1>1. PICK c : c = objects[g] /\ ObjectOK(c)
  BY LiveObjects
<1>2. PICK op, command : /\ May(op) /\ InteractorQuery(g, command) /\ c.type \in InteractorType
                         /\ Ask(g, <<>>, <<>>, <<Query(command, "none")>>)
  BY <1>1 DEF getSize, isSelected, getValue, getText, getSelectedItem, AskInteractor, Of,
              InteractorQuery, InteractorType
<1>3. AsksOf(c, g, <<Query(command, "none")>>) /\ c.type # "GLabel"
  BY <1>2 DEF AsksOf, InteractorType
<1>4. IsSeq(<<>>) /\ Len(<<>>) = 0
  BY LeadsNothing DEF Leads
<1>5. ASSUME NEW b, IsBackEnd(b), Known(b, g), Agree(c, b.table[g])
      PROVE  \E d : /\ Leads(b, <<>>, d) /\ Edits(b, d, g)
                    /\ Keeps(c, b.table[g], <<>> ++ c, d.table[g])
  <2>1. Leads(b, <<>>, b) /\ Edits(b, b, g)
    BY <1>5, LeadsNothing, EditsNothing
  <2>2. PICK j : j = b.table[g]
    OBVIOUS
  <2>3. Agree(<<>> ++ c, j) /\ Keeps(c, j, <<>> ++ c, <<>> ++ j)
    BY <1>1, <1>5, <2>2, FieldsSetInC, FieldsSetInJava DEF FieldsOK
  <2>4. Keeps(c, j, <<>> ++ c, j)
    BY <2>3 DEF Keeps
  <2> QED
    BY <2>1, <2>2, <2>4
<1>6. Len(<<>>) <= 5 /\ \A i \in 1..Len(<<>>) : EditsOnly(<<>>[i], g)
  BY <1>4
<1>7. ~Unreadable(c)
  BY <1>2 DEF Unreadable, InteractorType
<1> QED
  BY <1>1, <1>2, <1>3, <1>4, <1>5, <1>6, <1>7, Asking
-----------------------------------------------------------------------------
(* An object is freed, or lost. *)
\* A list all of whose items are in T is a list over T.
LEMMA SeqOf ==
    ASSUME NEW S, NEW T, NEW s \in Seq(S), \A i \in 1..Len(s) : s[i] \in T
    PROVE  s \in Seq(T)
<1>1. Len(s) \in Nat /\ s = [i \in 1..Len(s) |-> s[i]]
  OBVIOUS
<1>2. s \in [1..Len(s) -> T]
  BY <1>1
<1> QED
  BY <1>1, <1>2, SeqDef

\* An object that is in no compound and holds nothing goes; the others agree as before.
LEMMA FreeStep ==
    ASSUME NEW objs, NEW doing, NEW stacked, NEW table, SameObjects(objs, doing, stacked, table),
           NEW g \in DOMAIN objs, NEW objs2,
           \A h : Pending(doing, h) => h = g,
           \A c \in Compounds(objs) : ~Holds(objs[c].contents, g),
           objs[g].type = "GCompound" => objs[g].contents = <<>>,
           objs[g].type \notin InteractorType,
           DOMAIN objs2 = DOMAIN objs \ {g}, \A h \in DOMAIN objs2 : objs2[h] = objs[h],
           LabelsMeasured(objs2, <<>>)
    PROVE  SameObjects(objs2, <<>>, stacked, table)
<1>1. \A h : ~Pending(<<>>, h)
  BY NothingPending DEF NonePending
<1>2. AllAgree(objs2, <<>>, table)
  BY DEF SameObjects, AllAgree
<1>3. /\ Compounds(objs2) = Compounds(objs) \ {g}
      /\ \A c \in Compounds(objs2) : objs2[c].contents = objs[c].contents
  BY DEF Compounds
<1>4. ASSUME NEW c \in Compounds(objs2)
      PROVE  objs2[c].contents \in Seq(DOMAIN objs2 \ {c}) /\ Once(objs2[c].contents)
  <2>1. PICK s : s = objs[c].contents /\ s \in Seq(DOMAIN objs \ {c}) /\ Once(s) /\ ~Holds(s, g)
    BY <1>3 DEF SameObjects, ContentsOK
  <2>2. \A i \in 1..Len(s) : s[i] \in DOMAIN objs2 \ {c}
    BY <2>1 DEF Holds
  <2>3. s \in Seq(DOMAIN objs2 \ {c})
    BY <2>1, <2>2, SeqOf
  <2> QED
    BY <2>1, <2>3, <1>3
<1>5. ContentsOK(objs2)
  BY <1>3, <1>4 DEF SameObjects, ContentsOK
<1>6. ChildrenAgree(objs2, stacked, table)
  BY <1>3 DEF SameObjects, ChildrenAgree
<1>7. ParentsAgree(objs2, <<>>, table)
  <2>1. \A h : Actor(objs2, h) <=> Actor(objs, h)
    BY DEF Actor
  <2>2. ASSUME NEW h PROVE \A c \in Compounds(objs) : Holds(objs[c].contents, h) => c # g
    BY DEF Compounds, Holds
  <2>3. ASSUME NEW h, Alone(objs, h) PROVE Alone(objs2, h)
    BY <2>3, <1>3 DEF Alone
  <2>4. ASSUME NEW h, NEW p, ParentOK(objs, h, p) PROVE ParentOK(objs2, h, p)
    BY <2>1, <2>2, <2>3, <2>4, <1>3 DEF ParentOK
  <2> QED
    BY <2>1, <2>4, <1>1 DEF SameObjects, ParentsAgree
<1>8. DOMAIN objs2 \subseteq Ids
  BY DEF SameObjects
<1> QED
  BY <1>2, <1>5, <1>6, <1>7, <1>8 DEF SameObjects

\* freeGObject leaves the object in the back end, of which nothing is required any more.
LEMMA Freeing ==
    ASSUME IInv, UNCHANGED backEndVars, NEW g \in DOMAIN objects, freeGObject(g)
    PROVE  IInv'
<1>1. PICK b : Leads(backEnd, pipe, b) /\ Mirrors(b)
  BY DEF IInv
<1>2. /\ todo = <<>> /\ ~awaiting /\ NonePending(todo) /\ ~InCompound(g) /\ g # gw.top
      /\ objects[g].type = "GCompound" => objects[g].contents = <<>>
      /\ objects[g].type \notin InteractorType
  BY NothingPending DEF freeGObject, May, Of
<1>3. /\ UNCHANGED <<program, status, initialized, gw, todo, drawn, restacked, pipe, replies, awaiting>>
      /\ DOMAIN objects' = DOMAIN objects \ {g}
      /\ \A h \in DOMAIN objects' : objects'[h] = objects[h]
  BY DEF freeGObject, Quietly, sentVars
<1>4. PipeOK' /\ Leads(backEnd', pipe', b)
  BY <1>1, <1>3, SendingNothing DEF IInv
<1>5. \A c \in Compounds(objects) : ~Holds(objects[c].contents, g)
  BY <1>2 DEF InCompound, Compounds, Holds
<1>6. SameObjects(objects', todo', restacked', b.table)
  <2>1. LabelsMeasured(objects', <<>>)
    BY <1>1, <1>2, <1>3 DEF Mirrors, SameObjects, LabelsMeasured
  <2>2. SameObjects(objects, todo, restacked, b.table)
    BY <1>1 DEF Mirrors
  <2>3. \A h : Pending(todo, h) => h = g
    BY <1>2 DEF NonePending
  <2>4. SameObjects(objects', <<>>, restacked, b.table)
    BY ONLY <2>1, <2>2, <2>3, <1>2, <1>3, <1>5, g \in DOMAIN objects, FreeStep
  <2> QED
    BY <2>4, <1>2, <1>3
<1>7. QuestionOK(objects', todo', gw')
  BY <1>2, <1>3 DEF QuestionOK
<1>8. WindowOK(objects', todo', gw', awaiting', b)
  BY <1>1, <1>2, <1>3 DEF Mirrors, WindowOK, Compounds
<1>9. Mirrors(b)'
  BY <1>1, <1>3, <1>6, <1>7, <1>8 DEF Mirrors
<1>10. Own'
  BY <1>3 DEF IInv, Own, backEndVars
<1> QED
  BY <1>4, <1>9, <1>10 DEF IInv

-----------------------------------------------------------------------------
(* Questions and answers. *)
\* The names of their commands.
LEMMA QuestionOps ==
    ASSUME NEW g
    PROVE  /\ Head(FontQueries(g)).command.op = "GLabel.getFontAscent"
           /\ Head(DescentQueries(g)).command.op = "GLabel.getFontDescent"
           /\ Head(SizeQuery(g)).command.op = "GLabel.getGLabelSize"
<1>1. Query(getFontAscentOp(g), "ascent").command.op = "GLabel.getFontAscent"
  BY DEF Query, getFontAscentOp, Command
<1>2. Query(getFontDescentOp(g), "descent").command.op = "GLabel.getFontDescent"
  BY DEF Query, getFontDescentOp, Command
<1>3. Query(getGLabelSizeOp(g), "size").command.op = "GLabel.getGLabelSize"
  BY DEF Query, getGLabelSizeOp, Command
<1> QED
  BY <1>1, <1>2, <1>3, LabelQuestions

\* An image as the program makes it, before it knows its size.
Unsized(filename) == [filename |-> filename] ++ newGObject("GImage")

\* The questions, of whatever kind, are about g: the first command and the field that
\* its answer is for.
AsksAbout(objs, doing, window, g) ==
    LET k == Head(doing).command
        field == Head(doing).field
    IN \/ /\ objs[g].type = "GLabel" /\ doing = FontQueries(g)
          /\ k = getFontAscentOp(g) /\ field = "ascent"
       \/ /\ objs[g].type = "GLabel" /\ doing = DescentQueries(g)
          /\ k = getFontDescentOp(g) /\ field = "descent"
       \/ /\ objs[g].type = "GLabel" /\ doing = SizeQuery(g)
          /\ k = getGLabelSizeOp(g) /\ field = "size"
       \/ /\ objs[g].type = "GImage" /\ Pending(doing, g) /\ Tail(doing) = <<>>
          /\ \E filename \in Strings :
                 k = createGImageOp(g, filename) /\ objs[g] = Unsized(filename)
          /\ field = "size"
       \/ InteractorQuery(g, k) /\ field = "none" /\ Tail(doing) = <<>>
       \/ /\ g = window.top /\ doing = WindowQuery(g) /\ Tail(doing) = <<>>
          /\ k = createGWindowOp(g) /\ field = "none"

\* An answer that is stored in the object.
Stores(k) == k.op \in {"GLabel.getFontAscent", "GLabel.getFontDescent",
                       "GLabel.getGLabelSize", "GImage.create"}

\* There is an object that a question is about.
LEMMA WhatIsAsked ==
    ASSUME NEW objs, NEW doing, NEW window, QuestionOK(objs, doing, window), doing # <<>>
    PROVE  \E g \in DOMAIN objs : AsksAbout(objs, doing, window, g)
<1>1. PICK g \in DOMAIN objs :
           \/ objs[g].type = "GLabel" /\ LabelQueries(doing, g)
           \/ /\ objs[g].type = "GImage"
              /\ \E filename \in Strings :
                     /\ doing = ImageQuery(g, filename)
                     /\ objs[g] = [filename |-> filename] ++ newGObject("GImage")
           \/ /\ objs[g].type \in InteractorType
              /\ \E command : InteractorQuery(g, command) /\ doing = <<Query(command, "none")>>
           \/ g = window.top /\ doing = WindowQuery(g)
  BY DEF QuestionOK
<1>2. CASE objs[g].type = "GLabel" /\ LabelQueries(doing, g)
  <2>1. CASE doing = FontQueries(g)
    <3>1. Head(doing) = Query(getFontAscentOp(g), "ascent")
      BY <2>1, LabelQuestions
    <3> QED
      BY <1>2, <2>1, <3>1 DEF Query, AsksAbout
  <2>2. CASE doing = DescentQueries(g)
    <3>1. Head(doing) = Query(getFontDescentOp(g), "descent")
      BY <2>2, LabelQuestions
    <3> QED
      BY <1>2, <2>2, <3>1 DEF Query, AsksAbout
  <2>3. CASE doing = SizeQuery(g)
    <3>1. Head(doing) = Query(getGLabelSizeOp(g), "size")
      BY <2>3, LabelQuestions
    <3> QED
      BY <1>2, <2>3, <3>1 DEF Query, AsksAbout
  <2> QED
    BY <1>2, <2>1, <2>2, <2>3 DEF LabelQueries
<1>3. CASE /\ objs[g].type = "GImage"
           /\ \E filename \in Strings :
                  /\ doing = ImageQuery(g, filename)
                  /\ objs[g] = [filename |-> filename] ++ newGObject("GImage")
  <2>1. PICK filename \in Strings :
            /\ doing = ImageQuery(g, filename)
            /\ objs[g] = [filename |-> filename] ++ newGObject("GImage")
    BY <1>3
  <2>2. /\ Head(doing).command = createGImageOp(g, filename) /\ Head(doing).field = "size"
        /\ Tail(doing) = <<>>
    BY <2>1, OneQuestion DEF ImageQuery, Query
  <2>3. Pending(doing, g)
    BY <2>2 DEF Pending, createGImageOp, Command
  <2>4. objs[g] = Unsized(filename)
    BY <2>1 DEF Unsized
  <2> QED
    BY <1>3, <2>2, <2>3, <2>4 DEF AsksAbout
<1>4. CASE /\ objs[g].type \in InteractorType
           /\ \E command : InteractorQuery(g, command) /\ doing = <<Query(command, "none")>>
  <2>1. PICK command : InteractorQuery(g, command) /\ doing = <<Query(command, "none")>>
    BY <1>4
  <2>2. Head(doing).command = command /\ Head(doing).field = "none" /\ Tail(doing) = <<>>
    BY <2>1, OneQuestion DEF Query
  <2> QED
    BY <2>1, <2>2 DEF AsksAbout
<1>5. CASE g = window.top /\ doing = WindowQuery(g)
  <2>1. /\ Head(doing).command = createGWindowOp(g) /\ Head(doing).field = "none"
        /\ Tail(doing) = <<>>
    BY <1>5, OneQuestion DEF WindowQuery, Query
  <2> QED
    BY <1>5, <2>1 DEF AsksAbout
<1> QED
  BY <1>1, <1>2, <1>3, <1>4, <1>5

\* Where there was no answer, the answer is the only one.
LEMMA FirstReply == ASSUME NEW a, NEW s, s = <<>> PROVE Append(s, a) = <<a>>
OBVIOUS

\* Reply adds an answer and changes nothing else.
LEMMA Replied ==
    ASSUME NEW b, IsBackEnd(b), NEW answer
    PROVE  /\ IsBackEnd(Reply(b, answer)) /\ Reply(b, answer).table = b.table
           /\ Reply(b, answer).canvas = b.canvas /\ Reply(b, answer).image = b.image
           /\ b.replies = <<>> => Says(Reply(b, answer), Ok(answer))
<1>1. PICK a, r : a = Ok(answer) /\ r = Append(b.replies, a)
  OBVIOUS
<1>2. b.replies = <<>> => r = <<a>>
  BY <1>1, FirstReply
<1>3. Reply(b, answer) = [table |-> b.table, canvas |-> b.canvas, image |-> b.image, replies |-> r]
  <2>1. [b EXCEPT !.replies = r]
            = [table |-> b.table, canvas |-> b.canvas, image |-> b.image, replies |-> r]
    BY DEF IsBackEnd
  <2>2. Reply(b, answer) = [b EXCEPT !.replies = r]
    BY <1>1 DEF Reply, Ok
  <2> QED
    BY <2>1, <2>2
<1>4. IsBackEnd(Reply(b, answer)) /\ Reply(b, answer).replies = r
  BY <1>3 DEF IsBackEnd
<1>5. /\ Reply(b, answer).table = b.table /\ Reply(b, answer).canvas = b.canvas
      /\ Reply(b, answer).image = b.image
  BY <1>3
<1> QED
  BY <1>1, <1>2, <1>4, <1>5 DEF Says

\* What the commands of the questions do.
LEMMA InteractorsReply ==
    ASSUME NEW g, NEW k, InteractorQuery(g, k)
    PROVE  \A b : \E answer : Handle(b, k) = Reply(b, answer)
<1>1. ASSUME NEW b PROVE Handle(b, getSizeOp(g)) = Reply(b, "size")
  BY DEF Handle, getSizeOp, Command, GInteractor_getSize
<1>2. ASSUME NEW b PROVE \E answer : Handle(b, isSelectedOp(g)) = Reply(b, answer)
  <2>1. Handle(b, isSelectedOp(g)) = GCheckBox_isSelected(b, g, <<>>)
    BY DEF Handle, isSelectedOp, Command
  <2> QED
    BY <2>1 DEF GCheckBox_isSelected
<1>3. ASSUME NEW b PROVE \E answer : Handle(b, getValueOp(g)) = Reply(b, answer)
  <2>1. Handle(b, getValueOp(g)) = GSlider_getValue(b, g)
    BY DEF Handle, getValueOp, Command
  <2> QED
    BY <2>1 DEF GSlider_getValue
<1>4. ASSUME NEW b PROVE \E answer : Handle(b, getTextOp(g)) = Reply(b, answer)
  <2>1. Handle(b, getTextOp(g)) = GTextField_getText(b, g, <<>>)
    BY DEF Handle, getTextOp, Command
  <2> QED
    BY <2>1 DEF GTextField_getText
<1>5. ASSUME NEW b PROVE \E answer : Handle(b, getSelectedItemOp(g)) = Reply(b, answer)
  <2>1. Handle(b, getSelectedItemOp(g)) = GChooser_getSelectedItem(b, g)
    BY DEF Handle, getSelectedItemOp, Command
  <2> QED
    BY <2>1 DEF GChooser_getSelectedItem
<1> QED
  BY <1>1, <1>2, <1>3, <1>4, <1>5 DEF InteractorQuery

\* The handlers of the questions.
LEMMA QuestionsHandled ==
    ASSUME NEW b, NEW g
    PROVE  /\ Handle(b, getFontAscentOp(g)) = GLabel_getFontAscent(b, g)
           /\ Handle(b, getFontDescentOp(g)) = GLabel_getFontDescent(b, g)
           /\ Handle(b, getGLabelSizeOp(g)) = GLabel_getGLabelSize(b, g)
           /\ \A filename : Handle(b, createGImageOp(g, filename)) = GImage_create(b, g, filename)
           /\ Handle(b, createGWindowOp(g)) = GWindow_create(b, g)
<1>1. Handle(b, getFontAscentOp(g)) = GLabel_getFontAscent(b, g)
  BY DEF Handle, getFontAscentOp, Command
<1>2. Handle(b, getGLabelSizeOp(g)) = GLabel_getGLabelSize(b, g)
  BY DEF Handle, getGLabelSizeOp, Command
<1>3. \A filename : Handle(b, createGImageOp(g, filename)) = GImage_create(b, g, filename)
  BY DEF Handle, createGImageOp, Command
<1>4. Handle(b, createGWindowOp(g)) = GWindow_create(b, g)
  BY DEF Handle, createGWindowOp, Command
<1>5. Handle(b, getFontDescentOp(g)) = GLabel_getFontDescent(b, g)
  BY DEF Handle, getFontDescentOp, Command
<1> QED
  BY <1>1, <1>2, <1>3, <1>4, <1>5

\* GImage.create makes the object and answers its size, or else answers an error.
LEMMA Imaged ==
    ASSUME NEW b, IsBackEnd(b), NEW g, NEW filename, NEW d, d = GImage_create(b, g, filename)
    PROVE  /\ IsBackEnd(d) /\ d.canvas = b.canvas /\ d.image = b.image
           /\ DOMAIN b.table \subseteq DOMAIN d.table
           /\ DOMAIN d.table \subseteq DOMAIN b.table \cup {g}
           /\ \A h \in DOMAIN b.table \ {g} : d.table[h] = b.table[h]
           /\ b.replies = <<>> =>
                  IF filename \in ImageFiles
                  THEN /\ Says(d, Ok(ImageSize(filename)))
                       /\ g \in DOMAIN d.table /\ d.table[g] = NewGImage(filename)
                  ELSE Says(d, Failed) /\ d.table = b.table
<1>1. CASE filename \in ImageFiles
  <2>1. PICK e : /\ e = defineGObject(b, g, NewGImage(filename)) /\ Edits(b, e, g) /\ IsBackEnd(e)
                 /\ g \in DOMAIN e.table /\ e.table[g] = NewGImage(filename)
    BY Defines DEF Known, Edits
  <2>2. d = Reply(e, ImageSize(filename))
    BY <1>1, <2>1 DEF GImage_create
  <2> QED
    BY <1>1, <2>1, <2>2, Replied DEF Edits
<1>2. CASE filename \notin ImageFiles
  <2>1. PICK a, r : a = Failed /\ r = Append(b.replies, a)
    OBVIOUS
  <2>2. b.replies = <<>> => r = <<a>>
    BY <2>1, FirstReply
  <2>3. d = [table |-> b.table, canvas |-> b.canvas, image |-> b.image, replies |-> r]
    BY <1>2, <2>1 DEF IsBackEnd, GImage_create, ReplyError, Failed
  <2>4. /\ IsBackEnd(d) /\ d.canvas = b.canvas /\ d.image = b.image /\ d.table = b.table
        /\ d.replies = r
    BY <2>3 DEF IsBackEnd
  <2> QED
    BY <1>2, <2>1, <2>2, <2>4 DEF Says
<1> QED
  BY <1>1, <1>2

\* GWindow.create makes the canvas and answers.
LEMMA WindowMade ==
    ASSUME NEW b, IsBackEnd(b), NEW g
    PROVE  LET d == GWindow_create(b, g)
           IN  /\ IsBackEnd(d) /\ d.canvas = g /\ d.image = b.image /\ d.table = b.table
               /\ b.replies = <<>> => Says(d, Ok("ok"))
<1>1. PICK e : e = [b EXCEPT !.canvas = g]
  OBVIOUS
<1>2. /\ IsBackEnd(e) /\ e.canvas = g /\ e.image = b.image /\ e.table = b.table
      /\ e.replies = b.replies
  BY <1>1 DEF IsBackEnd
<1>3. GWindow_create(b, g) = Reply(e, "ok")
  BY <1>1 DEF GWindow_create
<1> QED
  BY <1>2, <1>3, Replied

\* The commands of the questions are about addresses.
LEMMA QuestionsProper ==
    ASSUME NEW g \in Ids, NEW k,
           \/ k \in {getFontAscentOp(g), getFontDescentOp(g), getGLabelSizeOp(g),
                     createGWindowOp(g)}
           \/ \E filename : k = createGImageOp(g, filename)
           \/ InteractorQuery(g, k)
    PROVE  Proper(k)
<1> SUFFICES ASSUME NEW b, IsBackEnd(b)
             PROVE  /\ IsBackEnd(Handle(b, k))
                    /\ DOMAIN Handle(b, k).table \subseteq DOMAIN b.table \cup {g}
  BY DEF Proper
<1>1. CASE k \in {getFontAscentOp(g), getFontDescentOp(g), getGLabelSizeOp(g)}
  BY <1>1, QuestionsHandled, Replied
  DEF GLabel_getFontAscent, GLabel_getFontDescent, GLabel_getGLabelSize
<1>2. CASE k = createGWindowOp(g)
  BY <1>2, QuestionsHandled, WindowMade
<1>3. CASE \E filename : k = createGImageOp(g, filename)
  <2>1. PICK filename : Handle(b, k) = GImage_create(b, g, filename)
    BY <1>3, QuestionsHandled
  <2>2. /\ IsBackEnd(GImage_create(b, g, filename))
        /\ DOMAIN GImage_create(b, g, filename).table \subseteq DOMAIN b.table \cup {g}
    BY Imaged
  <2> QED
    BY <2>1, <2>2
<1>4. CASE InteractorQuery(g, k)
  BY <1>4, InteractorsReply, Replied
<1> QED
  BY <1>1, <1>2, <1>3, <1>4

\* The image that is asked for is made; the other objects stay as they are.
LEMMA PendingStep ==
    ASSUME NEW objs, NEW doing, NEW stacked, NEW table, SameObjects(objs, doing, stacked, table),
           NEW g \in DOMAIN objs, Pending(doing, g), objs[g].type = "GImage", NEW table2,
           DOMAIN table \subseteq DOMAIN table2, DOMAIN table2 \subseteq DOMAIN table \cup {g},
           \A h \in DOMAIN table \ {g} : table2[h] = table[h],
           \/ table2 = table
           \/ /\ g \in DOMAIN table2 /\ table2[g].type = "GImage"
              /\ Placed(table2[g]) /\ table2[g].parent = Null
    PROVE  SameObjects(objs, doing, stacked, table2)
<1>1. \A h : Pending(doing, h) => h = g
  BY DEF Pending
<1>2. AllAgree(objs, doing, table2)
  BY <1>1 DEF SameObjects, AllAgree
<1>3. Alone(objs, g)
  BY DEF SameObjects, ParentsAgree
<1>4. ASSUME NEW c \in Compounds(objs)
      PROVE  /\ SameParts(objs[c].contents, table2[c].children, DOMAIN table2)
             /\ c \notin stacked =>
                    SameOrder(objs[c].contents, table2[c].children, DOMAIN table2)
  <2>1. c \in DOMAIN table /\ c # g
    BY <1>1 DEF SameObjects, AllAgree, Compounds, Unreadable
  <2>2. /\ SameParts(objs[c].contents, table[c].children, DOMAIN table)
        /\ c \notin stacked => SameOrder(objs[c].contents, table[c].children, DOMAIN table)
    BY DEF SameObjects, ChildrenAgree
  <2>3. ~Holds(objs[c].contents, g) /\ table2[c].children = table[c].children
    BY <1>3, <2>1 DEF Alone
  <2> QED
    BY <2>2, <2>3, MoreKnown
<1>5. ParentsAgree(objs, doing, table2)
  <2>1. ASSUME NEW h \in DOMAIN table2, h # g \/ table2 = table
        PROVE  /\ Placed(table2[h]) /\ ParentOK(objs, h, table2[h].parent)
               /\ table2[h].type \in InteractorType => Actor(objs, h)
    BY <2>1 DEF SameObjects, ParentsAgree
  <2>2. ASSUME g \in DOMAIN table2, table2[g].type = "GImage", Placed(table2[g]),
               table2[g].parent = Null
        PROVE  /\ ParentOK(objs, g, table2[g].parent) /\ table2[g].type \notin InteractorType
    BY <2>2, <1>3 DEF ParentOK, Actor, InteractorType
  <2> QED
    BY <2>1, <2>2, <1>1, <1>3 DEF ParentsAgree
<1> QED
  BY <1>2, <1>4, <1>5 DEF SameObjects, ChildrenAgree

\* The back end d has answered, and is b for the rest.
Answering(objs, doing, stacked, window, b, d) ==
    /\ Proper(Head(doing).command) /\ IsBackEnd(d) /\ d.image = b.image
    /\ AnswerOK(doing, d) /\ SameObjects(objs, doing, stacked, d.table)
    /\ window.top # Null => d.canvas # Null

\* The back end that has got the question has answered it.
LEMMA Asked ==
    ASSUME NEW objs, NEW doing, NEW stacked, NEW window, NEW b, IsBackEnd(b),
           SameObjects(objs, doing, stacked, b.table), QuestionOK(objs, doing, window),
           doing # <<>>, b.replies = <<>>,
           window.top # Null => b.canvas # Null \/ doing = WindowQuery(window.top),
           NEW d, d = Handle(b, Head(doing).command)
    PROVE  Answering(objs, doing, stacked, window, b, d)
<1> SUFFICES /\ Proper(Head(doing).command) /\ IsBackEnd(d) /\ d.image = b.image
             /\ AnswerOK(doing, d) /\ SameObjects(objs, doing, stacked, d.table)
             /\ window.top # Null => d.canvas # Null
  BY DEF Answering
<1>1. PICK g \in DOMAIN objs : AsksAbout(objs, doing, window, g)
  BY WhatIsAsked
<1> DEFINE k == Head(doing).command
<1>2. g \in Ids /\ (~Pending(doing, g) /\ objs[g].type = "GLabel" => Known(b, g))
  BY DEF SameObjects, AllAgree, Known, Unreadable
<1>3. Proper(k)
  <2>1. \/ k \in {getFontAscentOp(g), getFontDescentOp(g), getGLabelSizeOp(g),
                  createGWindowOp(g)}
        \/ \E filename : k = createGImageOp(g, filename)
        \/ InteractorQuery(g, k)
    BY <1>1 DEF AsksAbout
  <2> QED
    BY <1>2, <2>1, QuestionsProper
<1>4. ASSUME NEW answer, d = Reply(b, answer), doing # WindowQuery(window.top),
             Says(d, Ok(answer)) /\ d.table = b.table => AnswerOK(doing, d)
      PROVE  /\ IsBackEnd(d) /\ d.image = b.image
             /\ AnswerOK(doing, d) /\ SameObjects(objs, doing, stacked, d.table)
             /\ (window.top # Null => d.canvas # Null)
  <2>1. /\ IsBackEnd(d) /\ d.image = b.image /\ d.table = b.table /\ d.canvas = b.canvas
        /\ Says(d, Ok(answer))
    BY <1>4, Replied
  <2> QED
    BY <1>4, <2>1
<1>5. CASE objs[g].type = "GLabel" /\ k = getFontAscentOp(g)
  <2>1. k.op = "GLabel.getFontAscent" /\ k.id = g /\ doing # WindowQuery(window.top)
    BY <1>5 DEF getFontAscentOp, Command, WindowQuery, createGWindowOp, Query
  <2>2. Known(b, g)
    BY <1>2, <1>5, <2>1 DEF Pending
  <2>3. d = Reply(b, Ascent(b.table[g].font))
    BY <1>5, <2>2, QuestionsHandled DEF GLabel_getFontAscent
  <2>4. Says(d, Ok(Ascent(b.table[g].font))) /\ d.table = b.table => AnswerOK(doing, d)
    BY <2>1 DEF AnswerOK
  <2> QED
    BY <1>3, <1>4, <2>1, <2>3, <2>4
<1>10. CASE objs[g].type = "GLabel" /\ k = getFontDescentOp(g)
  <2>1. k.op = "GLabel.getFontDescent" /\ k.id = g /\ doing # WindowQuery(window.top)
    BY <1>10 DEF getFontDescentOp, Command, WindowQuery, createGWindowOp, Query
  <2>2. Known(b, g)
    BY <1>2, <1>10, <2>1 DEF Pending
  <2>3. d = Reply(b, Descent(b.table[g].font))
    BY <1>10, <2>2, QuestionsHandled DEF GLabel_getFontDescent
  <2>4. Says(d, Ok(Descent(b.table[g].font))) /\ d.table = b.table => AnswerOK(doing, d)
    BY <2>1 DEF AnswerOK
  <2> QED
    BY <1>3, <1>4, <2>1, <2>3, <2>4
<1>6. CASE objs[g].type = "GLabel" /\ k = getGLabelSizeOp(g)
  <2>1. k.op = "GLabel.getGLabelSize" /\ k.id = g /\ doing # WindowQuery(window.top)
    BY <1>6 DEF getGLabelSizeOp, Command, WindowQuery, createGWindowOp, Query
  <2>2. Known(b, g)
    BY <1>2, <1>6, <2>1 DEF Pending
  <2>3. d = Reply(b, Metrics(b.table[g].str, b.table[g].font))
    BY <1>6, <2>2, QuestionsHandled DEF GLabel_getGLabelSize
  <2>4. Says(d, Ok(Metrics(b.table[g].str, b.table[g].font))) /\ d.table = b.table =>
            AnswerOK(doing, d)
    BY <2>1 DEF AnswerOK
  <2> QED
    BY <1>3, <1>4, <2>1, <2>3, <2>4
<1>7. CASE InteractorQuery(g, k)
  <2>1. /\ ~Stores(k)
        /\ doing # WindowQuery(window.top)
    BY <1>7 DEF Stores, InteractorQuery, getSizeOp, isSelectedOp, getValueOp, getTextOp,
                getSelectedItemOp, Command, WindowQuery, createGWindowOp, Query
  <2>2. PICK answer : d = Reply(b, answer)
    BY <1>7, InteractorsReply
  <2>3. Says(d, Ok(answer)) /\ d.table = b.table => AnswerOK(doing, d)
    BY <2>1 DEF AnswerOK, Stores
  <2> QED
    BY <1>3, <1>4, <2>1, <2>2, <2>3
<1>8. CASE g = window.top /\ k = createGWindowOp(g)
  <2>1. ~Stores(k)
    BY <1>8 DEF Stores, createGWindowOp, Command
  <2>2. /\ IsBackEnd(d) /\ d.canvas = g /\ d.image = b.image /\ d.table = b.table
        /\ Says(d, Ok("ok"))
    BY <1>8, QuestionsHandled, WindowMade
  <2>3. AnswerOK(doing, d)
    BY <2>1, <2>2 DEF AnswerOK, Stores
  <2> QED
    BY <1>3, <1>8, <2>2, <2>3
<1>9. CASE /\ objs[g].type = "GImage" /\ Pending(doing, g)
            /\ \E filename \in Strings : k = createGImageOp(g, filename)
  <2>1. PICK filename \in Strings : k = createGImageOp(g, filename)
    BY <1>9
  <2>2. k.op = "GImage.create" /\ k.id = g /\ k.arg = filename /\ doing # WindowQuery(window.top)
    BY <2>1 DEF createGImageOp, Command, WindowQuery, createGWindowOp, Query
  <2>3. /\ IsBackEnd(d) /\ d.canvas = b.canvas /\ d.image = b.image
        /\ DOMAIN b.table \subseteq DOMAIN d.table
        /\ DOMAIN d.table \subseteq DOMAIN b.table \cup {g}
        /\ \A h \in DOMAIN b.table \ {g} : d.table[h] = b.table[h]
        /\ IF filename \in ImageFiles
           THEN /\ Says(d, Ok(ImageSize(filename)))
                /\ g \in DOMAIN d.table /\ d.table[g] = NewGImage(filename)
           ELSE Says(d, Failed) /\ d.table = b.table
    <3>1. d = GImage_create(b, g, filename)
      BY <2>1, QuestionsHandled
    <3> QED
      BY ONLY <3>1, IsBackEnd(b), b.replies = <<>>, Imaged
  <2>4. SameObjects(objs, doing, stacked, d.table)
    <3>1. objs[g].type = "GImage" /\ Pending(doing, g)
      BY <1>9
    <3>2. \/ d.table = b.table
          \/ /\ g \in DOMAIN d.table /\ d.table[g].type = "GImage"
             /\ Placed(d.table[g]) /\ d.table[g].parent = Null
      BY <2>3 DEF NewGImage, ++, OfSize, NewGObject, Placed
    <3> QED
      BY ONLY <2>3, <3>1, <3>2, g \in DOMAIN objs, SameObjects(objs, doing, stacked, b.table), PendingStep
  <2>5. AnswerOK(doing, d)
    BY <2>2, <2>3 DEF AnswerOK
  <2> QED
    BY <1>3, <2>2, <2>3, <2>4, <2>5
<1> QED
  BY <1>1, <1>5, <1>6, <1>7, <1>8, <1>9, <1>10 DEF AsksAbout

\* SendQuery: the answer is on its way.
LEMMA SendingQuery ==
    ASSUME IInv, UNCHANGED backEndVars, SendQuery
    PROVE  IInv'
<1>1. PICK b : Leads(backEnd, pipe, b) /\ Mirrors(b)
  BY DEF IInv
<1>2. PICK k, d : k = Head(todo).command /\ d = Handle(b, k)
  OBVIOUS
<1>3. /\ todo # <<>> /\ ~awaiting /\ putPipe(<<k>>) /\ awaiting' = TRUE
      /\ UNCHANGED <<program, status, initialized, gw, objects, todo, drawn, restacked, replies>>
  BY <1>2 DEF SendQuery, clientVars
<1>4. b.replies = <<>> /\ replies = <<>>
  BY <1>1, <1>3, NoReplyWhileIdle DEF IInv
<1>5. /\ Proper(k) /\ IsBackEnd(d) /\ d.image = b.image
      /\ AnswerOK(todo, d) /\ SameObjects(objects, todo, restacked, d.table)
      /\ (gw.top # Null => d.canvas # Null)
  <2>1. /\ IsBackEnd(b) /\ SameObjects(objects, todo, restacked, b.table)
        /\ QuestionOK(objects, todo, gw)
        /\ gw.top # Null => b.canvas # Null \/ todo = WindowQuery(gw.top)
    BY <1>1, <1>3 DEF Mirrors, WindowOK
  <2>2. d = Handle(b, Head(todo).command) /\ todo # <<>> /\ b.replies = <<>>
    BY <1>2, <1>3, <1>4
  <2>3. Answering(objects, todo, restacked, gw, b, d)
    BY ONLY <2>1, <2>2, Asked
  <2> QED
    BY <1>2, <2>3 DEF Answering
<1>6. backEnd' = backEnd
  BY <1>3 DEF backEnd, backEndVars
<1>7. pipe' = pipe \o <<k>> /\ Len(pipe) <= MaxAhead
  BY <1>3 DEF putPipe
<1>8. IsSeq(<<k>>) /\ Len(<<k>>) = 1 /\ <<k>>[1] = k /\ IsSeq(pipe)
  BY <1>1, LeadsOne DEF Leads
<1>9. /\ Len(pipe') = Len(pipe) + 1 /\ Len(pipe) \in Nat
      /\ \A i \in 1..Len(pipe) : pipe'[i] = pipe[i]
      /\ pipe'[Len(pipe) + 1] = k
  BY <1>7, <1>8, JoinSeqs
<1>10. PipeOK'
  <2>1. ASSUME NEW i \in 1..Len(pipe') PROVE Proper(pipe'[i])
    BY <1>5, <1>9 DEF IInv, PipeOK
  <2>2. ASSUME NEW i \in 1..Len(pipe'), i < Len(pipe') \/ ~awaiting' PROVE Silent(pipe'[i])
    BY <1>3, <1>9, <2>2 DEF IInv, PipeOK
  <2>3. Len(pipe') <= MaxAhead + 5
    BY <1>7, <1>9, MaxAheadAssumption
  <2> QED
    BY <1>3, <1>4, <2>1, <2>2, <2>3 DEF PipeOK
<1>11. Leads(backEnd', pipe', d)
  BY <1>1, <1>2, <1>6, <1>7, LeadsOne, LeadsOn
<1>12. Mirrors(d)'
  <2>1. ResultOK(todo', awaiting', d) /\ WindowOK(objects', todo', gw', awaiting', d)
    BY <1>1, <1>3, <1>5 DEF Mirrors, ResultOK, WindowOK
  <2>2. SameObjects(objects', todo', restacked', d.table) /\ QuestionOK(objects', todo', gw')
    BY <1>1, <1>3, <1>5 DEF Mirrors
  <2>3. Pictured(drawn', d)
    BY <1>1, <1>3, <1>5 DEF Mirrors, Pictured
  <2> QED
    BY <1>5, <2>1, <2>2, <2>3 DEF Mirrors
<1>13. Own'
  BY <1>3 DEF IInv, Own, backEndVars
<1> QED
  BY <1>10, <1>11, <1>12, <1>13 DEF IInv
\* The answer is there; the object it is about, if it changes, stays mirrored.
LEMMA Got ==
    ASSUME IInv, UNCHANGED backEndVars, GetResult, NEW b, b = backEnd, Mirrors(b), pipe = <<>>,
           replies' = <<>>, SameObjects(objects', todo', restacked, b.table),
           QuestionOK(objects', todo', gw),
           gw.top # Null => gw.top \in Compounds(objects')
    PROVE  IInv'
<1>1. /\ awaiting /\ awaiting' = FALSE
      /\ UNCHANGED <<program, status, initialized, gw, drawn, restacked, pipe>>
  BY DEF GetResult
<1>2. PICK d : d = backEnd'
  OBVIOUS
<1>3. /\ IsBackEnd(d) /\ d.table = b.table /\ d.canvas = b.canvas /\ d.image = b.image
      /\ d.replies = <<>>
  BY <1>2 DEF backEnd, backEndVars, IsBackEnd
<1>4. Leads(backEnd', pipe', d)
  BY <1>1, <1>2, LeadsNothing
<1>5. PipeOK'
  BY <1>1 DEF IInv, PipeOK
<1>6. WindowOK(objects', todo', gw', awaiting', d)
  BY <1>1, <1>3 DEF Mirrors, WindowOK
<1>7. Pictured(drawn', d)
  BY <1>1, <1>3 DEF Mirrors, Pictured
<1>8. Mirrors(d)'
  BY <1>1, <1>3, <1>6, <1>7 DEF Mirrors, ResultOK
<1>9. Own'
  BY <1>1 DEF IInv, Own, SameObjects, backEndVars
<1> QED
  BY <1>4, <1>5, <1>8, <1>9 DEF IInv

\* An only answer is the first, and leaves none behind.
LEMMA TheReply ==
    ASSUME NEW b, NEW reply, Says(b, reply)
    PROVE  b.replies # <<>> /\ Head(b.replies) = reply /\ Tail(b.replies) = <<>>
BY DEF Says

\* Answers and errors can be told apart.
LEMMA ReplyKinds ==
    ASSUME NEW answer
    PROVE  /\ Ok(answer)[1] = "ok" /\ Ok(answer)[2] = answer /\ Ok(answer)[1] # "error"
           /\ Failed[1] = "error"
BY DEF Ok, Failed

\* What the answer about the label g, which is j in the back end, stores in it.
LabelAnswer(g, doing, j, fields, doing2) ==
    \/ /\ doing = FontQueries(g) /\ doing2 = DescentQueries(g)
       /\ fields = [ascent |-> Whole(Ascent(j.font))]
    \/ /\ doing = DescentQueries(g) /\ doing2 = SizeQuery(g)
       /\ fields = [descent |-> Whole(Descent(j.font))]
    \/ /\ doing = SizeQuery(g) /\ doing2 = <<>>
       /\ fields = Sized(Metrics(j.str, j.font))
SetIn(objs, g, fields) == [objs EXCEPT ![g] = fields ++ @]

\* A label's ascent, descent or size is the one of its text and font.
LEMMA LabelMeasured ==
    ASSUME NEW objs, NEW doing, NEW stacked, NEW table, SameObjects(objs, doing, stacked, table),
           NEW g \in DOMAIN objs, objs[g].type = "GLabel", NEW objs2, NEW doing2, NEW fields,
           LabelAnswer(g, doing, table[g], fields, doing2), objs2 = SetIn(objs, g, fields)
    PROVE  /\ SameObjects(objs2, doing2, stacked, table)
           /\ g \in DOMAIN objs2 /\ objs2[g].type = "GLabel"
           /\ Compounds(objs2) = Compounds(objs)
<1>1. PICK c, j : c = objs[g] /\ j = table[g]
  OBVIOUS
<1> USE DEF LabelAnswer, SetIn
<1>2. /\ NonePending(doing) /\ NonePending(doing2)
  <2>1. AsksOf(c, g, doing) /\ AsksOf(c, g, doing2)
    BY <1>1 DEF AsksOf, LabelQueries
  <2> QED
    BY <2>1, AsksForNoImage
<1>3. /\ ObjectOK(c) /\ Agree(c, j) /\ Measured(g, c, doing) /\ c.type = "GLabel"
      /\ ~Unreadable(c)
  BY <1>1, <1>2 DEF SameObjects, AllAgree, NonePending, LabelsMeasured, Unreadable
<1>4. /\ j.str = c.str /\ j.font = c.font /\ c.str \in Strings /\ c.font \in Strings \cup {NoFont}
      /\ DOMAIN j \cap {"width", "height", "ascent", "descent"} = {}
  BY <1>3 DEF Agree, SameFields, ObjectOK, JavaObjectOK
<1>5. FieldsOK(fields) /\ DOMAIN fields \subseteq {"width", "height", "ascent", "descent"}
  BY DEF FieldsOK, NotSet, Sized
<1>6. Agree(fields ++ c, j)
  BY <1>3, <1>4, <1>5, FieldsSetInC
<1>7. Keeps(c, j, fields ++ c, j)
  BY <1>3, <1>5, <1>6, FieldsOfC DEF Keeps
<1>8. Measured(g, fields ++ c, doing2)
  <2>1. /\ (fields ++ c).str = c.str /\ (fields ++ c).font = c.font
    BY <1>3, <1>5 DEF ++, ObjectOK
  <2>2. CASE doing2 = DescentQueries(g) /\ fields = [ascent |-> Whole(Ascent(j.font))]
    <3>1. (fields ++ c).ascent = Whole(Ascent(c.font))
      BY <1>4, <2>2 DEF ++
    <3> QED
      BY <2>1, <2>2, <3>1 DEF Measured, LabelQueries
  <2>3. CASE /\ doing = DescentQueries(g) /\ doing2 = SizeQuery(g)
             /\ fields = [descent |-> Whole(Descent(j.font))]
    <3>1. /\ (fields ++ c).descent = Whole(Descent(c.font))
          /\ (fields ++ c).ascent = c.ascent
      BY <1>3, <1>4, <2>3 DEF ++, ObjectOK
    <3>2. c.ascent = Whole(Ascent(c.font))
      BY <1>3, <2>3, LabelQuestions DEF Measured
    <3> QED
      BY <2>1, <2>3, <3>1, <3>2 DEF Measured, LabelQueries
  <2>4. CASE doing = SizeQuery(g) /\ fields = Sized(Metrics(j.str, j.font))
    <3>1. PICK m : m = Metrics(c.str, c.font) /\ m \in Pair
      BY <1>4, MetricsAssumption
    <3>2. fields = Sized(m)
      BY <1>4, <2>4, <3>1
    <3>3. /\ (fields ++ c).width = m.x /\ (fields ++ c).height = m.y
          /\ (fields ++ c).ascent = c.ascent /\ (fields ++ c).descent = c.descent
      BY <1>3, <3>2 DEF ++, Sized, ObjectOK
    <3>4. m = [x |-> m.x, y |-> m.y]
      BY <3>1 DEF Pair
    <3>5. Point((fields ++ c).width, (fields ++ c).height) = m
      BY <3>3, <3>4 DEF Point
    <3>6. c.ascent = Whole(Ascent(c.font)) /\ c.descent = Whole(Descent(c.font))
      BY <1>3, <2>4, LabelQuestions DEF Measured
    <3> QED
      BY <2>1, <3>1, <3>3, <3>5, <3>6 DEF Measured
  <2> QED
    BY <1>1, <2>2, <2>3, <2>4
<1>9. /\ DOMAIN objs2 = DOMAIN objs /\ objs2[g] = fields ++ c
      /\ \A h \in DOMAIN objs \ {g} : objs2[h] = objs[h]
  BY <1>1
<1>10. SameObjects(objs2, doing2, stacked, table)
  <2>1. LabelQueries(doing, g)
    BY DEF LabelQueries
  <2>2. /\ Keeps(objs[g], table[g], objs2[g], table[g]) /\ ~Unreadable(objs[g])
        /\ DOMAIN table \subseteq DOMAIN table \cup {g}
    BY <1>1, <1>3, <1>7, <1>9
  <2>3. Measured(g, objs2[g], doing2)
    BY <1>8, <1>9
  <2> QED
    BY ONLY <1>2, <1>9, <2>1, <2>2, <2>3, g \in DOMAIN objs,
            SameObjects(objs, doing, stacked, table), ObjectStep
<1>11. (fields ++ c).type = c.type
  BY <1>7 DEF Keeps
<1> QED
  BY <1>1, <1>3, <1>9, <1>10, <1>11 DEF Compounds

\* Objects as they are made, on both sides.
LEMMA OneAfterTheOther ==
    ASSUME NEW f1, NEW f2, NEW r
    PROVE  (f1 ++ f2) ++ r = f1 ++ (f2 ++ r)
BY DEF ++

\* The same fields put before others.
LEMMA SameFieldsMore ==
    ASSUME NEW c, NEW j, NEW fields, SameFields(c, j)
    PROVE  SameFields(fields ++ c, fields ++ j)
BY DEF SameFields, ++

\* The constructors of C and of Java agree in the fields both set.
LEMMA MadeAlike ==
    ASSUME NEW t
    PROVE  /\ SameFields(newGObject(t), NewGObject(t))
           /\ SameFields(newGObject(t), NotFilled ++ NewGObject(t))
<1>1. /\ DOMAIN newGObject(t) = ObjectFields
      /\ DOMAIN NewGObject(t) = {"type", "x", "y", "color", "visible", "parent"}
      /\ DOMAIN (NotFilled ++ NewGObject(t)) = {"type", "x", "y", "color", "visible", "parent",
                                                "filled", "fillColor"}
  BY DEF newGObject, NewGObject, NotFilled, ++, ObjectFields
<1>2. /\ newGObject(t).type = NewGObject(t).type /\ newGObject(t).x = NewGObject(t).x
      /\ newGObject(t).y = NewGObject(t).y /\ newGObject(t).color = NewGObject(t).color
      /\ newGObject(t).visible = NewGObject(t).visible
  BY DEF newGObject, NewGObject
<1>3. SameFields(newGObject(t), NewGObject(t))
  BY <1>1, <1>2 DEF SameFields, ObjectFields
<1>4. /\ newGObject(t).filled = NotFilled.filled /\ newGObject(t).fillColor = NotFilled.fillColor
      /\ DOMAIN NotFilled = {"filled", "fillColor"}
  BY DEF newGObject, NotFilled
<1>5. \A f \in DOMAIN (NotFilled ++ NewGObject(t)) :
          (NotFilled ++ NewGObject(t))[f] =
              IF f \in {"filled", "fillColor"} THEN NotFilled[f] ELSE NewGObject(t)[f]
  BY <1>4 DEF ++
<1>6. SameFields(newGObject(t), NotFilled ++ NewGObject(t))
  BY <1>1, <1>2, <1>4, <1>5 DEF SameFields, ObjectFields
<1> QED
  BY <1>3, <1>6

\* The other objects agree without the image that is asked for.
LEMMA ImageApart ==
    ASSUME NEW objs, NEW doing, NEW stacked, NEW table, SameObjects(objs, doing, stacked, table),
           NEW g \in DOMAIN objs, objs[g].type = "GImage", Pending(doing, g),
           NEW objs2, objs2 = [h \in DOMAIN objs \ {g} |-> objs[h]]
    PROVE  /\ SameObjects(objs2, <<>>, stacked, table)
           /\ Compounds(objs2) = Compounds(objs)
<1>1. \A h : Pending(doing, h) => h = g
  BY DEF Pending
<1>2. \A c \in Compounds(objs) : ~Holds(objs[c].contents, g)
  BY DEF SameObjects, ParentsAgree, Alone
<1>3. LabelsMeasured(objs2, <<>>)
  <2> SUFFICES ASSUME NEW h \in DOMAIN objs2, objs2[h].type = "GLabel"
               PROVE  Measured(h, objs2[h], <<>>)
    BY DEF LabelsMeasured
  <2>1. ~LabelQueries(doing, h)
    BY QuestionOps DEF Pending, LabelQueries
  <2>2. Measured(h, objs[h], doing) /\ objs2[h] = objs[h]
    BY DEF SameObjects, LabelsMeasured
  <2> QED
    BY <2>1, <2>2 DEF Measured, LabelQueries
<1>4. DOMAIN objs2 = DOMAIN objs \ {g} /\ \A h \in DOMAIN objs2 : objs2[h] = objs[h]
  OBVIOUS
<1>5. objs[g].type # "GCompound" /\ objs[g].type \notin InteractorType
  BY DEF InteractorType
<1>6. SameObjects(objs2, <<>>, stacked, table)
  BY ONLY <1>1, <1>2, <1>3, <1>4, <1>5, g \in DOMAIN objs,
          SameObjects(objs, doing, stacked, table), FreeStep
<1> QED
  BY <1>4, <1>5, <1>6 DEF Compounds

\* An image that has got its size in C is the one made in Java.
LEMMA ImageLike ==
    ASSUME NEW filename, filename \in ImageFiles, NEW c, c = [filename |-> filename] ++ newGObject("GImage"),
           NEW c2, c2 = Sized(ImageSize(filename)) ++ c, NEW j, j = NewGImage(filename)
    PROVE  ObjectOK(c2) /\ Agree(c2, j) /\ c2.type = "GImage" /\ j.parent = Null
<1>1. PICK size : size = ImageSize(filename) /\ size \in Pair
  BY ImageAssumption
<1>2. /\ DOMAIN c2 = ObjectFields \cup {"filename"} /\ c2.filename = filename
      /\ c2.type = "GImage" /\ c2.x = 0 /\ c2.y = 0 /\ c2.width = size.x /\ c2.height = size.y
      /\ c2.color = "BLACK"
  BY <1>1 DEF ++, newGObject, Sized, ObjectFields
<1>3. /\ DOMAIN j = {"filename", "width", "height", "type", "x", "y", "color", "visible", "parent"}
      /\ j.filename = filename /\ j.type = "GImage" /\ j.x = 0 /\ j.y = 0
      /\ j.width = size.x /\ j.height = size.y /\ j.color = "BLACK" /\ j.parent = Null
  BY <1>1 DEF NewGImage, ++, OfSize, NewGObject
<1>4. ObjectOK(c2)
  BY <1>2 DEF ObjectOK, ObjectFields, AnyType, InteractorType
<1>5. JavaObjectOK(j)
  BY <1>3 DEF JavaObjectOK, InteractorType
<1>6. SameFields(c2, j)
  <2> DEFINE named == [filename |-> filename]
             j0 == NewGObject("GImage")
  <2>1. SameFields(Sized(size) ++ c, Sized(size) ++ (named ++ j0))
    BY MadeAlike, SameFieldsMore
  <2>2. (named ++ OfSize(size)) ++ j0 = OfSize(size) ++ (named ++ j0)
    <3>1. DOMAIN named \cap DOMAIN OfSize(size) = {}
      BY DEF OfSize
    <3> QED
      BY <3>1, FieldsInTurn
  <2>3. j = (named ++ OfSize(size)) ++ j0 /\ OfSize(size) = Sized(size)
    BY <1>1 DEF NewGImage, OfSize, Sized
  <2> QED
    BY <1>1, <2>1, <2>2, <2>3
<1> QED
  BY <1>2, <1>3, <1>4, <1>5, <1>6 DEF Agree, InteractorType

\* With the size stored nothing is pending any more.
LEMMA ImageThere ==
    ASSUME NEW objs, NEW doing, NEW stacked, NEW table, SameObjects(objs, doing, stacked, table),
           NEW g \in DOMAIN objs, Pending(doing, g), NEW filename, filename \in ImageFiles,
           objs[g] = Unsized(filename), objs[g].type = "GImage",
           g \in DOMAIN table, table[g] = NewGImage(filename),
           NEW objs2, objs2 = SetIn(objs, g, Sized(ImageSize(filename)))
    PROVE  /\ SameObjects(objs2, <<>>, stacked, table)
           /\ Compounds(objs2) = Compounds(objs)
<1> DEFINE rest == [h \in DOMAIN objs \ {g} |-> objs[h]]
           c2 == Sized(ImageSize(filename)) ++ objs[g]
<1>1. SameObjects(rest, <<>>, stacked, table)
  BY ImageApart
<1>2. ObjectOK(c2) /\ Agree(c2, table[g]) /\ c2.type = "GImage" /\ table[g].parent = Null
  BY ImageLike DEF Unsized
<1>3. objs2 = With(rest, g, c2)
  BY DEF With, SetIn
<1>4. g \in Ids /\ g \notin DOMAIN rest
  BY DEF SameObjects
<1>5. NonePending(<<>>) /\ \A h : Pending(<<>>, h) => h = g
  BY NothingPending DEF NonePending
<1>6. c2.type # "GCompound" /\ c2.type # "GLabel"
  BY <1>2
<1>7. DOMAIN objs2 = DOMAIN objs /\ objs2[g] = c2 /\ \A h \in DOMAIN objs \ {g} : objs2[h] = objs[h]
  BY DEF SetIn
<1> HIDE DEF rest, c2
<1>8. SameObjects(With(rest, g, c2), <<>>, stacked, table)
  <2>1. PICK old, doing2 : old = rest /\ doing2 = <<>>
    OBVIOUS
  <2>2. DOMAIN table \subseteq DOMAIN table \cup {g}
    OBVIOUS
  <2>3. SameObjects(old, doing2, stacked, table) /\ g \notin DOMAIN old
    BY <2>1, <1>1, <1>4
  <2>4. NonePending(doing2) /\ \A h : Pending(doing2, h) => h = g
    BY <2>1, <1>5
  <2>5. SameObjects(With(old, g, c2), doing2, stacked, table)
    BY <2>1, <2>2, <2>3, <2>4, <1>2, <1>4, <1>6, NewStep
  <2> QED
    BY <2>1, <2>5
<1> QED
  BY <1>2, <1>3, <1>7, <1>8 DEF Compounds

\* A question of the program's own, or the window's, leaves everything as it is.
LEMMA AnsweredStep ==
    ASSUME NEW objs, NEW doing, NEW stacked, NEW table, SameObjects(objs, doing, stacked, table),
           doing # <<>>,
           ~Stores(Head(doing).command)
    PROVE  SameObjects(objs, <<>>, stacked, table)
<1>1. \A h : ~Pending(doing, h) /\ ~Pending(<<>>, h)
  BY NothingPending DEF Pending, NonePending, Stores
<1>2. \A h : ~LabelQueries(doing, h)
  BY QuestionOps DEF LabelQueries, Stores
<1>3. LabelsMeasured(objs, <<>>)
  BY <1>2 DEF SameObjects, LabelsMeasured, Measured, LabelQueries
<1> QED
  BY <1>1, <1>3 DEF SameObjects, AllAgree, ParentsAgree

\* An image that could not be read gets whatever size getResult makes of the text
\* of the exception, in C alone.
LEMMA ImageLost ==
    ASSUME NEW objs, NEW doing, NEW stacked, NEW table, SameObjects(objs, doing, stacked, table),
           NEW g \in DOMAIN objs, Pending(doing, g), NEW filename, filename \notin ImageFiles,
           objs[g] = Unsized(filename), NEW size,
           NEW objs2, objs2 = SetIn(objs, g, Sized(size))
    PROVE  /\ SameObjects(objs2, <<>>, stacked, table)
           /\ Compounds(objs2) = Compounds(objs)
<1> DEFINE c2 == Sized(size) ++ objs[g]
<1>1. objs[g].type = "GImage" /\ objs[g].filename = filename
  BY DEF Unsized, ++, newGObject
<1>2. Unreadable(objs[g]) /\ ObjectOK(objs[g])
  BY <1>1 DEF Unreadable, SameObjects, AllAgree
<1>3. /\ DOMAIN objs2 = DOMAIN objs /\ objs2[g] = c2
      /\ \A h \in DOMAIN objs \ {g} : objs2[h] = objs[h]
  BY DEF SetIn
<1>4. ObjectOK(c2) /\ Unreadable(c2) /\ c2.type = objs[g].type
  BY <1>2, FieldsOfC, SizeFields
<1> HIDE DEF c2
<1>5. NonePending(<<>>) /\ \A h : Pending(doing, h) => h = g
  BY NothingPending DEF Pending
<1>6. \A h : ~LabelQueries(doing, h)
  BY QuestionOps DEF LabelQueries, Pending
<1>7. g \in DOMAIN table => KeepsPlace(table[g], table[g])
  BY DEF SameObjects, ParentsAgree, KeepsPlace
<1>8. SameObjects(objs2, <<>>, stacked, table)
  <2>1. PICK doing2 : doing2 = <<>>
    OBVIOUS
  <2>2. SameObjects(objs2, doing2, stacked, table)
    BY <2>1, <1>2, <1>3, <1>4, <1>5, <1>6, <1>7, UnreadableStep
  <2> QED
    BY <2>1, <2>2
<1> QED
  BY <1>1, <1>3, <1>4, <1>8 DEF Compounds

\* The answer is stored in the object the question was about.
LEMMA Stored ==
    ASSUME GetResult, NEW answer, Says(backEnd, Ok(answer)), NEW g, g = Head(todo).command.id
    PROVE  /\ replies' = <<>> /\ todo' = Tail(todo)
           /\ Head(todo).field = "size" => objects' = SetIn(objects, g, Sized(answer))
           /\ Head(todo).field = "ascent" =>
                  objects' = SetIn(objects, g, [ascent |-> Whole(answer)])
           /\ Head(todo).field = "descent" =>
                  objects' = SetIn(objects, g, [descent |-> Whole(answer)])
           /\ Head(todo).field = "none" => objects' = objects
<1>1. backEnd.replies = replies
  BY DEF backEnd
<1>2. Head(replies) = Ok(answer) /\ Tail(replies) = <<>>
  BY <1>1, TheReply
<1>3. Head(replies)[1] = "ok" /\ Head(replies)[2] = answer
  BY <1>2, ReplyKinds
<1>4. replies' = <<>> /\ todo' = Tail(todo)
  BY <1>2 DEF GetResult
<1>5. getGDimension(Head(replies)) = {answer} /\ getDouble(Head(replies)) = Whole(answer)
  BY <1>3 DEF getGDimension, getDouble
<1>6. CASE Head(todo).field = "size"
  <2>1. objects' \in {SetIn(objects, g, Sized(size)) : size \in getGDimension(Head(replies))}
    BY <1>6 DEF GetResult, SetIn
  <2> QED
    BY <1>4, <1>5, <1>6, <2>1
<1>7. CASE Head(todo).field = "ascent"
  <2>1. objects' = SetIn(objects, g, [ascent |-> getDouble(Head(replies))])
    BY <1>7 DEF GetResult, SetIn
  <2> QED
    BY <1>4, <1>5, <1>7, <2>1
<1>8. CASE Head(todo).field = "descent"
  <2>1. objects' = SetIn(objects, g, [descent |-> getDouble(Head(replies))])
    BY <1>8 DEF GetResult, SetIn
  <2> QED
    BY <1>4, <1>5, <1>8, <2>1
<1>9. CASE Head(todo).field \notin {"size", "ascent", "descent"}
  <2>1. objects' = objects
    BY <1>9 DEF GetResult
  <2> QED
    BY <1>4, <1>9, <2>1
<1> QED
  BY <1>6, <1>7, <1>8, <1>9

\* Of the text of an exception, a size is made too.
LEMMA Refused ==
    ASSUME GetResult, Says(backEnd, Failed), NEW g, g = Head(todo).command.id,
           Head(todo).field = "size"
    PROVE  /\ replies' = <<>> /\ todo' = Tail(todo)
           /\ \E size : objects' = SetIn(objects, g, Sized(size))
<1>1. backEnd.replies = replies
  BY DEF backEnd
<1>2. Tail(replies) = <<>>
  BY <1>1, TheReply
<1>3. objects' \in {SetIn(objects, g, Sized(size)) : size \in getGDimension(Head(replies))}
  BY DEF GetResult, SetIn
<1> QED
  BY <1>2, <1>3 DEF GetResult

\* Nothing asked, nothing to be asked of.
LEMMA NothingToAsk == ASSUME NEW objs, NEW window PROVE QuestionOK(objs, <<>>, window)
BY DEF QuestionOK

\* getResult gets the answer that was asked for.
LEMMA GettingResult ==
    ASSUME IInv, UNCHANGED backEndVars, GetResult
    PROVE  IInv'
<1>1. PICK b : Leads(backEnd, pipe, b) /\ Mirrors(b)
  BY DEF IInv
<1>2. awaiting /\ replies # <<>>
  BY DEF GetResult
<1>3. pipe = <<>>
  BY <1>2 DEF IInv, PipeOK
<1>4. b = backEnd
  BY <1>1, <1>3 DEF Leads
<1>5. todo # <<>> /\ AnswerOK(todo, b)
  BY <1>1, <1>2 DEF Mirrors, ResultOK
<1>6. SameObjects(objects, todo, restacked, b.table) /\ QuestionOK(objects, todo, gw)
  BY <1>1 DEF Mirrors
<1>7. gw.top # Null => gw.top \in Compounds(objects)
  BY <1>1 DEF Mirrors, WindowOK
<1>9. PICK g \in DOMAIN objects : AsksAbout(objects, todo, gw, g)
  BY <1>5, <1>6, WhatIsAsked
<1>10. CASE /\ objects[g].type = "GLabel" /\ todo = FontQueries(g)
            /\ Head(todo).command = getFontAscentOp(g) /\ Head(todo).field = "ascent"
  <2>1. Head(todo).command.op = "GLabel.getFontAscent" /\ Head(todo).command.id = g
    BY <1>10 DEF getFontAscentOp, Command
  <2>2. PICK answer : answer = Ascent(b.table[g].font) /\ Says(b, Ok(answer))
    BY <1>5, <2>1 DEF AnswerOK
  <2>3. PICK fields : fields = [ascent |-> Whole(answer)]
    OBVIOUS
  <2>4. replies' = <<>> /\ todo' = Tail(todo) /\ objects' = SetIn(objects, g, fields)
    BY <1>4, <1>10, <2>1, <2>2, <2>3, Stored
  <2>5. todo' = DescentQueries(g)
    BY <1>10, <2>4, LabelQuestions
  <2>6. /\ SameObjects(objects', todo', restacked, b.table)
        /\ g \in DOMAIN objects' /\ objects'[g].type = "GLabel"
        /\ Compounds(objects') = Compounds(objects)
    <3>1. LabelAnswer(g, todo, b.table[g], fields, todo')
      BY <1>10, <2>2, <2>3, <2>5 DEF LabelAnswer
    <3> QED
      BY <1>6, <1>10, <2>4, <3>1, LabelMeasured
  <2>7. QuestionOK(objects', todo', gw)
    BY <2>5, <2>6 DEF QuestionOK, LabelQueries
  <2> QED
    BY <1>1, <1>3, <1>4, <1>7, <2>4, <2>6, <2>7, Got
<1>14. CASE /\ objects[g].type = "GLabel" /\ todo = DescentQueries(g)
            /\ Head(todo).command = getFontDescentOp(g) /\ Head(todo).field = "descent"
  <2>1. Head(todo).command.op = "GLabel.getFontDescent" /\ Head(todo).command.id = g
    BY <1>14 DEF getFontDescentOp, Command
  <2>2. PICK answer : answer = Descent(b.table[g].font) /\ Says(b, Ok(answer))
    BY <1>5, <2>1 DEF AnswerOK
  <2>3. PICK fields : fields = [descent |-> Whole(answer)]
    OBVIOUS
  <2>4. replies' = <<>> /\ todo' = Tail(todo) /\ objects' = SetIn(objects, g, fields)
    BY <1>4, <1>14, <2>1, <2>2, <2>3, Stored
  <2>5. todo' = SizeQuery(g)
    BY <1>14, <2>4, LabelQuestions
  <2>6. /\ SameObjects(objects', todo', restacked, b.table)
        /\ g \in DOMAIN objects' /\ objects'[g].type = "GLabel"
        /\ Compounds(objects') = Compounds(objects)
    <3>1. LabelAnswer(g, todo, b.table[g], fields, todo')
      BY <1>14, <2>2, <2>3, <2>5 DEF LabelAnswer
    <3> QED
      BY <1>6, <1>14, <2>4, <3>1, LabelMeasured
  <2>7. QuestionOK(objects', todo', gw)
    BY <2>5, <2>6 DEF QuestionOK, LabelQueries
  <2> QED
    BY <1>1, <1>3, <1>4, <1>7, <2>4, <2>6, <2>7, Got
<1>11. CASE /\ objects[g].type = "GLabel" /\ todo = SizeQuery(g)
            /\ Head(todo).command = getGLabelSizeOp(g) /\ Head(todo).field = "size"
  <2>1. Head(todo).command.op = "GLabel.getGLabelSize" /\ Head(todo).command.id = g
    BY <1>11 DEF getGLabelSizeOp, Command
  <2>2. Says(b, Ok(Metrics(b.table[g].str, b.table[g].font)))
    BY <1>5, <2>1 DEF AnswerOK
  <2> DEFINE size == Metrics(b.table[g].str, b.table[g].font)
             fields == Sized(size)
  <2>3. /\ replies' = <<>> /\ todo' = Tail(todo)
        /\ objects' = SetIn(objects, g, fields)
    <3>1. Says(backEnd, Ok(size)) /\ g = Head(todo).command.id
      BY <1>4, <2>1, <2>2
    <3> HIDE DEF size
    <3>2. /\ replies' = <<>> /\ todo' = Tail(todo)
          /\ Head(todo).field = "size" => objects' = SetIn(objects, g, Sized(size))
      BY <3>1, Stored
    <3> QED
      BY <1>11, <3>2
  <2>4. todo' = <<>>
    BY <1>11, <2>3, LabelQuestions
  <2>5. /\ SameObjects(objects', todo', restacked, b.table)
        /\ Compounds(objects') = Compounds(objects)
    <3>1. LabelAnswer(g, todo, b.table[g], fields, todo')
      BY <1>11, <2>4 DEF LabelAnswer
    <3> HIDE DEF fields
    <3> QED
      BY <1>6, <1>11, <2>3, <2>4, <3>1, LabelMeasured
  <2>6. QuestionOK(objects', todo', gw)
    BY <2>4, NothingToAsk
  <2> QED
    BY <1>1, <1>3, <1>4, <1>7, <2>3, <2>5, <2>6, Got
<1>12. CASE /\ objects[g].type = "GImage" /\ Pending(todo, g) /\ Tail(todo) = <<>>
            /\ \E filename \in Strings :
                   /\ Head(todo).command = createGImageOp(g, filename)
                   /\ objects[g] = Unsized(filename)
            /\ Head(todo).field = "size"
  <2>1. PICK filename \in Strings :
                   /\ Head(todo).command = createGImageOp(g, filename)
                   /\ objects[g] = Unsized(filename)
    BY <1>12
  <2>2. /\ Head(todo).command.op = "GImage.create" /\ Head(todo).command.id = g
        /\ Head(todo).command.arg = filename
    BY <2>1 DEF createGImageOp, Command
  <2>3. CASE filename \in ImageFiles
    <3>1. /\ Says(b, Ok(ImageSize(filename)))
          /\ g \in DOMAIN b.table /\ b.table[g] = NewGImage(filename)
      BY <1>5, <2>2, <2>3 DEF AnswerOK
    <3> DEFINE size == ImageSize(filename)
    <3>2. /\ replies' = <<>> /\ todo' = <<>>
          /\ objects' = SetIn(objects, g, Sized(size))
      <4>1. Says(backEnd, Ok(size)) /\ g = Head(todo).command.id
        BY <1>4, <2>2, <3>1
      <4> HIDE DEF size
      <4>2. /\ replies' = <<>> /\ todo' = Tail(todo)
            /\ Head(todo).field = "size" => objects' = SetIn(objects, g, Sized(size))
        BY <4>1, Stored
      <4> QED
        BY <1>12, <4>2
    <3>3. /\ SameObjects(objects', <<>>, restacked, b.table)
          /\ Compounds(objects') = Compounds(objects)
      BY <1>6, <1>12, <2>1, <2>3, <3>1, <3>2, ImageThere
    <3>4. QuestionOK(objects', todo', gw)
      BY <3>2, NothingToAsk
    <3> QED
      BY <1>1, <1>3, <1>4, <1>7, <3>2, <3>3, <3>4, Got
  <2>4. CASE filename \notin ImageFiles
    <3>1. Says(b, Failed)
      BY <1>5, <2>2, <2>4 DEF AnswerOK
    <3>2. PICK size : /\ replies' = <<>> /\ todo' = <<>>
                      /\ objects' = SetIn(objects, g, Sized(size))
      BY <1>4, <1>12, <2>2, <3>1, Refused
    <3>3. /\ SameObjects(objects', <<>>, restacked, b.table)
          /\ Compounds(objects') = Compounds(objects)
      BY <1>6, <1>12, <2>1, <2>4, <3>2, ImageLost
    <3>4. QuestionOK(objects', todo', gw)
      BY <3>2, NothingToAsk
    <3> QED
      BY <1>1, <1>3, <1>4, <1>7, <3>2, <3>3, <3>4, Got
  <2> QED
    BY <2>3, <2>4
<1>13. CASE /\ Tail(todo) = <<>> /\ Head(todo).field = "none"
            /\ \/ InteractorQuery(g, Head(todo).command)
               \/ Head(todo).command = createGWindowOp(g)
  <2>1. ~Stores(Head(todo).command)
    BY <1>13 DEF Stores, InteractorQuery, createGWindowOp, getSizeOp, isSelectedOp, getValueOp,
                 getTextOp, getSelectedItemOp, Command
  <2>2. PICK answer : Says(b, Ok(answer))
    BY <1>5, <2>1 DEF AnswerOK, Stores
  <2>3. replies' = <<>> /\ todo' = <<>> /\ objects' = objects
    BY <1>4, <1>13, <2>2, Stored
  <2>4. SameObjects(objects', <<>>, restacked, b.table)
    BY <1>5, <1>6, <2>1, <2>3, AnsweredStep
  <2>5. QuestionOK(objects', todo', gw)
    BY <2>3, NothingToAsk
  <2> QED
    BY <1>1, <1>3, <1>4, <1>7, <2>3, <2>4, <2>5, Got
<1> QED
  BY <1>9, <1>10, <1>11, <1>12, <1>13, <1>14 DEF AsksAbout

\* The window's color, which nothing but the shapes drawn later has.
LEMMA SettingWindowColor ==
    ASSUME IInv, UNCHANGED backEndVars, NEW color \in Colors, setColorGWindow(color)
    PROVE  IInv'
<1>1. PICK b : Leads(backEnd, pipe, b) /\ Mirrors(b)
  BY DEF IInv
<1>2. /\ gw' = [gw EXCEPT !.color = color]
      /\ UNCHANGED <<program, status, initialized, objects, todo, drawn, restacked, pipe, replies,
                     awaiting>>
  BY DEF setColorGWindow, sentVars
<1>3. PipeOK' /\ Leads(backEnd', pipe', b)
  BY <1>1, <1>2, SendingNothing DEF IInv
<1>4. gw' = [top |-> gw'.top, color |-> gw'.color] /\ gw'.top = gw.top /\ gw'.color = color
  BY <1>1, <1>2 DEF Mirrors, WindowOK
<1>5. WindowOK(objects', todo', gw', awaiting', b)
  BY <1>1, <1>2, <1>4 DEF Mirrors, WindowOK
<1>6. QuestionOK(objects', todo', gw')
  BY <1>1, <1>2, <1>4 DEF Mirrors, QuestionOK
<1>7. Mirrors(b)'
  BY <1>1, <1>2, <1>5, <1>6 DEF Mirrors
<1>8. Own'
  BY <1>2 DEF IInv, Own, backEndVars
<1> QED
  BY <1>3, <1>7, <1>8 DEF IInv

-----------------------------------------------------------------------------
(* Making objects. *)
\* What Make says of an operation that makes the object c at g: it is made, or
\* there is no pipe yet.
MadeBy(g, c, s, q) ==
    /\ UNCHANGED <<program, gw, drawn, restacked, replies, awaiting>>
    /\ initialized' \in BOOLEAN
    /\ \/ objects' = With(objects, g, c) /\ putPipe(s) /\ todo' = q /\ status' = status
       \/ status' = "crashed" /\ UNCHANGED <<objects, pipe, todo>>

\* Once there is a window or another object, Make makes the object.
LEMMA MakeMakes ==
    ASSUME IInv, NEW g, NEW t, NEW fields, NEW s, NEW q, NEW c, c = fields ++ newGObject(t),
           Make(g, t, fields, TRUE, s, q) \/ Make(g, t, fields, FALSE, s, q)
    PROVE  MadeBy(g, c, s, q)
<1>1. initialized \in BOOLEAN
  BY DEF IInv, Own
<1>2. Quietly /\ initialized' \in BOOLEAN
  BY <1>1 DEF Make
<1>3. \/ objects' = With(objects, g, c) /\ putPipe(s) /\ todo' = q /\ status' = status
      \/ status' = "crashed" /\ UNCHANGED <<objects, pipe, todo>>
  BY DEF Make
<1> QED
  BY <1>2, <1>3 DEF MadeBy, Quietly, sentVars

\* The object g of the back end d, as new as c is in C.
NewIn(d, g, c) == /\ g \in DOMAIN d.table /\ Agree(c, d.table[g]) /\ d.table[g].parent = Null
                  /\ c.type = "GCompound" => d.table[g].children = <<>>

\* What is to be asked of the new object g.
AsksOfNew(g, c, q) ==
    /\ \A h : Pending(q, h) => h = g
    /\ c.type = "GLabel" => Measured(g, c, q)
    /\ \A objs, window : g \in DOMAIN objs /\ objs[g] = c => QuestionOK(objs, q, window)

\* A new object other than a label need not ask.
LEMMA AsksNothing ==
    ASSUME NEW g, NEW c, c.type # "GLabel"
    PROVE  AsksOfNew(g, c, <<>>)
BY NothingPending DEF AsksOfNew, NonePending, QuestionOK

\* What the back end has of the object c that is made at g: what is as new as it, or
\* what it had there before it is asked for an image.
Made(b, d, g, c, q) == (Pending(q, g) /\ d.table = b.table) \/ NewIn(d, g, c)

\* An operation that makes an object, at a free address of which the back end may know.
LEMMA Making ==
    ASSUME IInv, UNCHANGED backEndVars, NEW op, May(op), NEW g \in Free, NEW c, NEW s, NEW q,
           MadeBy(g, c, s, q), ObjectOK(c), c.type = "GCompound" => c.contents = <<>>,
           IsSeq(s), Len(s) <= 5, \A i \in 1..Len(s) : EditsOnly(s[i], g),
           \A b : IsBackEnd(b) => \E d : Leads(b, s, d) /\ Edits(b, d, g) /\ Made(b, d, g, c, q),
           c.type = "GCompound" => ~Pending(q, g),
           AsksOfNew(g, c, q)
    PROVE  IInv'
<1>1. PICK b : Leads(backEnd, pipe, b) /\ Mirrors(b)
  BY DEF IInv
<1>2. /\ todo = <<>> /\ ~awaiting /\ NonePending(todo) /\ g \in Ids /\ g \notin DOMAIN objects
      /\ SameObjects(objects, todo, restacked, b.table) /\ IsBackEnd(b)
  BY <1>1, NothingPending DEF May, Mirrors, Free
<1>3. PICK d : Leads(b, s, d) /\ Edits(b, d, g) /\ Made(b, d, g, c, q)
  BY <1>2
<1>4. \A i \in 1..Len(s) : Proper(s[i]) /\ Silent(s[i])
  BY <1>2, EditsOnlyIsProper
<1>5. /\ UNCHANGED <<backEndVars, replies, awaiting>>
      /\ UNCHANGED <<program, gw, drawn, restacked>> /\ initialized' \in BOOLEAN
  BY DEF MadeBy
<1>6. CASE status' = "crashed" /\ UNCHANGED <<objects, pipe, todo>>
  <2>1. PipeOK' /\ Leads(backEnd', pipe', b)
    BY <1>1, <1>5, <1>6, SendingNothing DEF IInv
  <2>2. Mirrors(b)'
    BY <1>1, <1>5, <1>6 DEF Mirrors
  <2>3. Own'
    BY <1>5, <1>6 DEF IInv, Own, backEndVars
  <2> QED
    BY <2>1, <2>2, <2>3 DEF IInv
<1>7. CASE objects' = With(objects, g, c) /\ putPipe(s) /\ todo' = q /\ status' = status
  <2>1. PipeOK' /\ Leads(backEnd', pipe', d)
    BY <1>1, <1>2, <1>3, <1>4, <1>5, <1>7, Sending DEF IInv
  <2>2. /\ DOMAIN b.table \subseteq DOMAIN d.table
        /\ DOMAIN d.table \subseteq DOMAIN b.table \cup {g}
        /\ \A h \in DOMAIN b.table \ {g} : d.table[h] = b.table[h]
    BY <1>3 DEF Edits
  <2>3. /\ \A h : Pending(q, h) => h = g
        /\ c.type = "GLabel" => Measured(g, c, q)
        /\ c.type = "GCompound" => c.contents = <<>> /\ ~Pending(q, g)
    BY DEF AsksOfNew
  <2>4. \/ Pending(q, g) /\ d.table = b.table
        \/ /\ g \in DOMAIN d.table /\ Agree(c, d.table[g])
           /\ d.table[g].parent = Null
           /\ c.type = "GCompound" => d.table[g].children = <<>>
    BY <1>3 DEF Made, NewIn
  <2>5. SameObjects(With(objects, g, c), q, restacked, d.table)
    BY ONLY <1>2, <2>2, <2>3, <2>4, ObjectOK(c), NewStep
  <2>6. g \in DOMAIN objects' /\ objects'[g] = c /\ DOMAIN objects \subseteq DOMAIN objects'
        /\ \A h \in DOMAIN objects : objects'[h] = objects[h]
    BY <1>2, <1>7 DEF With
  <2>7. SameObjects(objects', todo', restacked', d.table)
    BY <1>5, <1>7, <2>5
  <2>8. QuestionOK(objects', todo', gw')
    BY <1>5, <1>7, <2>6 DEF AsksOfNew
  <2>9. ResultOK(todo', awaiting', d)
    BY <1>1, <1>2, <1>3, <1>5 DEF Mirrors, ResultOK, Edits
  <2>10. WindowOK(objects', todo', gw', awaiting', d)
    <3>1. Compounds(objects) \subseteq Compounds(objects')
      BY <2>6 DEF Compounds
    <3>2. gw.top # Null => b.canvas # Null
      BY <1>1, <1>2 DEF Mirrors, WindowOK, WindowQuery
    <3> QED
      BY <3>1, <3>2, <1>1, <1>3, <1>5 DEF Mirrors, WindowOK, Edits
  <2>11. Pictured(drawn', d)
    BY <1>1, <1>3, <1>5 DEF Mirrors, Pictured, Edits
  <2>12. Own'
    BY <1>5, <1>7 DEF IInv, Own, backEndVars
  <2>13. Mirrors(d)'
    BY <1>3, <2>7, <2>8, <2>9, <2>10, <2>11 DEF Mirrors, Edits
  <2> QED
    BY <2>1, <2>12, <2>13 DEF IInv
<1> QED
  BY <1>6, <1>7 DEF MadeBy

\* The object j of the back end is as new as c in C.
AsNew(j, c) == /\ Agree(c, j) /\ j.parent = Null
               /\ c.type = "GCompound" => j.children = <<>>

\* One command defines the object.
LEMMA MakingByOne ==
    ASSUME IInv, UNCHANGED backEndVars, NEW op, May(op), NEW g \in Free, NEW c, NEW k, NEW q,
           MadeBy(g, c, <<k>>, q), ObjectOK(c), c.type = "GCompound" => c.contents = <<>>,
           NEW j, AsNew(j, c), \A b : Handle(b, k) = defineGObject(b, g, j),
           NonePending(q), AsksOfNew(g, c, q)
    PROVE  IInv'
<1>1. IsSeq(<<k>>) /\ Len(<<k>>) = 1 /\ <<k>>[1] = k
  BY LeadsOne DEF Leads
<1>2. EditsOnly(k, g)
  BY Defines DEF EditsOnly
<1>3. \A i \in 1..Len(<<k>>) : EditsOnly(<<k>>[i], g)
  BY <1>1, <1>2
<1>4. ASSUME NEW b, IsBackEnd(b)
      PROVE  \E d : Leads(b, <<k>>, d) /\ Edits(b, d, g) /\ Made(b, d, g, c, q)
  <2>1. PICK d : d = Handle(b, k) /\ Edits(b, d, g) /\ Known(d, g) /\ d.table[g] = j
    BY <1>4, Defines
  <2>2. NewIn(d, g, c)
    BY <2>1 DEF NewIn, AsNew, Known
  <2>3. Made(b, d, g, c, q)
    BY <2>2 DEF Made
  <2> QED
    BY <2>1, <2>3, LeadsOne
<1>5. Len(<<k>>) <= 5 /\ (c.type = "GCompound" => ~Pending(q, g))
  BY <1>1 DEF NonePending
<1> QED
  BY ONLY <1>1, <1>3, <1>4, <1>5, IInv, UNCHANGED backEndVars, May(op), g \in Free,
          MadeBy(g, c, <<k>>, q), ObjectOK(c), c.type = "GCompound" => c.contents = <<>>,
          AsksOfNew(g, c, q), Making

\* One command defines the object, another sets fields of it.
LEMMA MakingByTwo ==
    ASSUME IInv, UNCHANGED backEndVars, NEW op, May(op), NEW g \in Free, NEW c, NEW k, NEW l, NEW q,
           MadeBy(g, c, <<k, l>>, q), ObjectOK(c), c.type = "GCompound" => c.contents = <<>>,
           NEW j, NEW fields, AsNew(fields ++ j, c), NEW types, j.type \in types,
           \A b : Handle(b, k) = defineGObject(b, g, j),
           \A b : Handle(b, l) = Update(b, g, types, fields),
           NonePending(q), AsksOfNew(g, c, q)
    PROVE  IInv'
<1>1. IsSeq(<<k, l>>) /\ Len(<<k, l>>) = 2 /\ <<k, l>>[1] = k /\ <<k, l>>[2] = l
  BY LeadsTwo DEF Leads
<1>2. EditsOnly(k, g) /\ EditsOnly(l, g)
  BY Defines, UpdatingEditsOnly DEF EditsOnly, Updating
<1>3. \A i \in 1..Len(<<k, l>>) : EditsOnly(<<k, l>>[i], g)
  <2>1. \A i \in 1..2 : i = 1 \/ i = 2
    OBVIOUS
  <2> QED
    BY <1>1, <1>2, <2>1
<1>4. ASSUME NEW b, IsBackEnd(b)
      PROVE  \E d : Leads(b, <<k, l>>, d) /\ Edits(b, d, g) /\ Made(b, d, g, c, q)
  <2>1. PICK e : e = Handle(b, k) /\ Edits(b, e, g) /\ Known(e, g) /\ e.table[g] = j
    BY <1>4, Defines
  <2>2. PICK d : d = Handle(e, l) /\ Edits(e, d, g) /\ Known(d, g) /\ d.table[g] = fields ++ j
    BY <2>1, Updates DEF Edits
  <2>3. NewIn(d, g, c)
    BY <2>2 DEF NewIn, AsNew, Known
  <2>4. Made(b, d, g, c, q)
    BY <2>3 DEF Made
  <2> QED
    BY <2>1, <2>2, <2>4, LeadsTwo, EditsTwice
<1>5. Len(<<k, l>>) <= 5 /\ (c.type = "GCompound" => ~Pending(q, g))
  BY <1>1 DEF NonePending
<1> QED
  BY ONLY <1>1, <1>3, <1>4, <1>5, IInv, UNCHANGED backEndVars, May(op), g \in Free,
          MadeBy(g, c, <<k, l>>, q), ObjectOK(c), c.type = "GCompound" => c.contents = <<>>,
          AsksOfNew(g, c, q), Making

-----------------------------------------------------------------------------
(* The objects as they are made. *)
\* An object of C of a type with no fields of its own, and one of Java.
LEMMA PlainObject ==
    ASSUME NEW t \in AnyType, NEW c, c = newGObject(t),
           t \notin {"GLabel", "GImage", "GPolygon", "GCompound"} \cup InteractorType
    PROVE  ObjectOK(c) /\ c.type = t /\ DOMAIN c = ObjectFields
BY DEF ObjectOK, newGObject, ObjectFields

\* The same of the one in Java.
LEMMA PlainJavaObject ==
    ASSUME NEW t \in FillableType \ {"GPolygon"}, NEW size,
           NEW j, j = (NotFilled ++ OfSize(size)) ++ NewGObject(t)
    PROVE  JavaObjectOK(j) /\ j.type = t /\ j.parent = Null
BY DEF JavaObjectOK, NewGObject, NotFilled, OfSize, ++, FillableType, InteractorType

\* A shape: C stores the location at once, Java is sent it.
LEMMA ShapeMade ==
    ASSUME NEW t \in FillableType \ {"GPolygon"}, NEW pt \in Points, NEW size,
           NEW c, c = (At(pt) ++ Sized(size)) ++ newGObject(t),
           NEW j, j = (NotFilled ++ OfSize(size)) ++ NewGObject(t)
    PROVE  /\ ObjectOK(c) /\ c.type = t /\ JavaObjectOK(j) /\ j.type = t
           /\ j.parent = Null
           /\ Agree(c, At(pt) ++ j) /\ (At(pt) ++ j).parent = Null
<1>1. t \in AnyType /\ t \notin {"GLabel", "GImage", "GPolygon", "GCompound"} \cup InteractorType
  BY DEF AnyType, FillableType, InteractorType
<1>2. PICK c0 : c0 = newGObject(t) /\ ObjectOK(c0) /\ c0.type = t
  BY <1>1, PlainObject
<1>3. JavaObjectOK(j) /\ j.type = t /\ j.parent = Null
  BY PlainJavaObject
<1>4. FieldsOK(At(pt)) /\ DOMAIN At(pt) = {"x", "y"} /\ FieldsOK(Sized(size))
      /\ FieldsOK(At(pt) ++ Sized(size)) /\ DOMAIN Sized(size) = {"width", "height"}
  BY PointFields, SizeFields, FieldsOfBoth
<1>5. ObjectOK(c) /\ c.type = t
  BY <1>2, <1>4, FieldsOfC
<1>6. PICK c1 : c1 = Sized(size) ++ c0 /\ ObjectOK(c1) /\ c1.type = t
  BY <1>2, <1>4, FieldsOfC
<1>7. c = At(pt) ++ c1
  BY <1>2, <1>6, OneAfterTheOther
<1>8. SameFields(c1, j)
  <2>1. DOMAIN NotFilled \cap DOMAIN OfSize(size) = {}
    BY DEF NotFilled, OfSize
  <2>2. j = OfSize(size) ++ (NotFilled ++ NewGObject(t))
    BY <2>1, FieldsInTurn
  <2>3. Sized(size) = OfSize(size)
    BY DEF Sized, OfSize
  <2> QED
    BY <1>2, <1>6, <2>2, <2>3, MadeAlike, SameFieldsMore
<1>9. Agree(c1, j)
  BY <1>1, <1>3, <1>6, <1>8 DEF Agree
<1>10. Agree(c, At(pt) ++ j)
  BY <1>3, <1>4, <1>6, <1>7, <1>9, SameFieldsSet
<1>11. (At(pt) ++ j).parent = Null
  BY <1>3, <1>4, FieldsOfJava
<1> QED
  BY <1>3, <1>5, <1>10, <1>11

\* A shape with more fields, which both get in the constructor.
LEMMA ShapeMadeWith ==
    ASSUME NEW t \in FillableType \ {"GPolygon"}, NEW pt \in Points, NEW size,
           NEW e, FieldsOK(e), DOMAIN e \cap {"x", "y"} = {},
           NEW c, c = ((e ++ At(pt)) ++ Sized(size)) ++ newGObject(t),
           NEW j, j = ((e ++ NotFilled) ++ OfSize(size)) ++ NewGObject(t)
    PROVE  /\ ObjectOK(c) /\ c.type = t /\ j.type = t
           /\ Agree(c, At(pt) ++ j) /\ (At(pt) ++ j).parent = Null
<1>1. PICK c0, j0 : /\ c0 = (At(pt) ++ Sized(size)) ++ newGObject(t)
                    /\ j0 = (NotFilled ++ OfSize(size)) ++ NewGObject(t)
  OBVIOUS
<1>2. /\ ObjectOK(c0) /\ c0.type = t /\ JavaObjectOK(j0) /\ j0.type = t
      /\ Agree(c0, At(pt) ++ j0) /\ (At(pt) ++ j0).parent = Null
  BY <1>1, ShapeMade
<1>3. c = e ++ c0 /\ j = e ++ j0
  BY <1>1, OneAfterTheOther
<1>4. ObjectOK(c) /\ c.type = t
  BY <1>2, <1>3, FieldsOfC
<1>5. PICK j1 : j1 = At(pt) ++ j0 /\ JavaObjectOK(j1) /\ j1.type = t
  BY <1>2 DEF Agree
<1>6. t \in FillableType /\ t # "GLabel"
  BY DEF FillableType
<1>7. Agree(e ++ c0, e ++ j1) /\ (e ++ j1).parent = Null
  BY <1>2, <1>5, <1>6, SameFieldsSet, FieldsOfJava
<1>8. At(pt) ++ j = e ++ j1
  <2>1. DOMAIN At(pt) \cap DOMAIN e = {}
    BY PointFields
  <2> QED
    BY <2>1, <1>3, <1>5, FieldsInTurn, OneAfterTheOther
<1>9. j.type = t
  <2>1. "type" \in DOMAIN j0 /\ "type" \notin DOMAIN e
    BY <1>2 DEF JavaObjectOK, FieldsOK, NotSet
  <2> QED
    BY <2>1, <1>2, <1>3 DEF ++
<1> QED
  BY <1>3, <1>4, <1>7, <1>8, <1>9

\* A shape is made and then put to its place.
LEMMA MakingShape ==
    ASSUME IInv, UNCHANGED backEndVars, NEW op, May(op), NEW pt \in Points, NEW g \in Free,
           NEW c, NEW j, NEW k, MadeBy(g, c, <<k, setLocationOp(g, pt)>>, <<>>),
           \A b : Handle(b, k) = defineGObject(b, g, j),
           ObjectOK(c), c.type \in FillableType, j.type = c.type,
           Agree(c, At(pt) ++ j), (At(pt) ++ j).parent = Null
    PROVE  IInv'
<1>1. PICK m : m = setLocationOp(g, pt)
  OBVIOUS
<1>2. \A b : Handle(b, m) = Update(b, g, AnyType, At(pt))
  BY <1>1 DEF Handle, setLocationOp, Command, GObject_setLocation, At
<1>3. c.type \notin {"GLabel", "GCompound"} /\ j.type \in AnyType
  BY DEF AnyType, FillableType
<1>4. PICK fields : fields = At(pt)
  OBVIOUS
<1>5. AsNew(fields ++ j, c) /\ AsksOfNew(g, c, <<>>) /\ NonePending(<<>>)
  BY <1>3, <1>4, AsksNothing, NothingPending DEF AsNew
<1>6. MadeBy(g, c, <<k, m>>, <<>>) /\ \A b : Handle(b, m) = Update(b, g, AnyType, fields)
  BY <1>1, <1>2, <1>4
<1>7. c.type = "GCompound" => c.contents = <<>>
  BY <1>3
<1> QED
  BY ONLY <1>3, <1>5, <1>6, <1>7, IInv, UNCHANGED backEndVars, May(op), g \in Free,
          ObjectOK(c), \A b : Handle(b, k) = defineGObject(b, g, j), MakingByTwo

\* Rectangles and ovals.
LEMMA MakingShapes ==
    ASSUME IInv, UNCHANGED backEndVars, NEW pt \in Points, NEW size \in Sizes,
           newGRect(pt, size) \/ newGRoundRect(pt, size) \/ newGOval(pt, size)
    PROVE  IInv'
<1>1. CASE newGRect(pt, size)
  <2>1. PICK g, k : /\ g \in Free
                    /\ k = createGRectOp(g, size)
                    /\ Make(g, "GRect", At(pt) ++ Sized(size), TRUE,
                            <<k, setLocationOp(g, pt)>>, <<>>)
    BY <1>1 DEF newGRect
  <2>free. g \in Free
    BY <2>1
  <2>2. PICK c, j : /\ c = (At(pt) ++ Sized(size)) ++ newGObject("GRect")
                    /\ j = (NotFilled ++ OfSize(size)) ++ NewGObject("GRect")
    OBVIOUS
  <2>3. MadeBy(g, c, <<k, setLocationOp(g, pt)>>, <<>>) /\ May("newGRect")
    BY <1>1, <2>1, <2>2, MakeMakes DEF newGRect
  <2>4. \A b : Handle(b, k) = defineGObject(b, g, j)
    BY <2>1, <2>2 DEF Handle, createGRectOp, Command, GRect_create
  <2>5. "GRect" \in FillableType \ {"GPolygon"}
    BY DEF FillableType
  <2> QED
    BY <2>free, <2>2, <2>3, <2>4, <2>5, ShapeMade, MakingShape
<1>2. CASE newGRoundRect(pt, size)
  <2>1. PICK g, k : /\ g \in Free
                    /\ k = createGRoundRectOp(g, size)
                    /\ Make(g, "GRoundRect", At(pt) ++ Sized(size), TRUE,
                            <<k, setLocationOp(g, pt)>>, <<>>)
    BY <1>2 DEF newGRoundRect
  <2>free. g \in Free
    BY <2>1
  <2>2. PICK c, j : /\ c = (At(pt) ++ Sized(size)) ++ newGObject("GRoundRect")
                    /\ j = (NotFilled ++ OfSize(size)) ++ NewGObject("GRoundRect")
    OBVIOUS
  <2>3. MadeBy(g, c, <<k, setLocationOp(g, pt)>>, <<>>) /\ May("newGRoundRect")
    BY <1>2, <2>1, <2>2, MakeMakes DEF newGRoundRect
  <2>4. \A b : Handle(b, k) = defineGObject(b, g, j)
    BY <2>1, <2>2 DEF Handle, createGRoundRectOp, Command, GRoundRect_create
  <2>5. "GRoundRect" \in FillableType \ {"GPolygon"}
    BY DEF FillableType
  <2> QED
    BY <2>free, <2>2, <2>3, <2>4, <2>5, ShapeMade, MakingShape
<1>3. CASE newGOval(pt, size)
  <2>1. PICK g, k : /\ g \in Free
                    /\ k = createGOvalOp(g, size)
                    /\ Make(g, "GOval", At(pt) ++ Sized(size), TRUE,
                            <<k, setLocationOp(g, pt)>>, <<>>)
    BY <1>3 DEF newGOval
  <2>free. g \in Free
    BY <2>1
  <2>2. PICK c, j : /\ c = (At(pt) ++ Sized(size)) ++ newGObject("GOval")
                    /\ j = (NotFilled ++ OfSize(size)) ++ NewGObject("GOval")
    OBVIOUS
  <2>3. MadeBy(g, c, <<k, setLocationOp(g, pt)>>, <<>>) /\ May("newGOval")
    BY <1>3, <2>1, <2>2, MakeMakes DEF newGOval
  <2>4. \A b : Handle(b, k) = defineGObject(b, g, j)
    BY <2>1, <2>2 DEF Handle, createGOvalOp, Command, GOval_create
  <2>5. "GOval" \in FillableType \ {"GPolygon"}
    BY DEF FillableType
  <2> QED
    BY <2>free, <2>2, <2>3, <2>4, <2>5, ShapeMade, MakingShape
<1> QED
  BY <1>1, <1>2, <1>3

\* 3D rectangles and arcs, which have further fields.
LEMMA MakingArcs ==
    ASSUME IInv, UNCHANGED backEndVars, NEW pt \in Points, NEW size \in Sizes
    PROVE  /\ \A raised \in BOOLEAN : newG3DRect(pt, size, raised) => IInv'
           /\ \A angles : newGArc(pt, size, angles) => IInv'
<1>1. ASSUME NEW raised \in BOOLEAN, newG3DRect(pt, size, raised) PROVE IInv'
  <2>1. PICK g, k, e : /\ g \in Free
                       /\ k = createG3DRectOp(g, size, raised) /\ e = [raised |-> raised]
                       /\ Make(g, "G3DRect", (e ++ At(pt)) ++ Sized(size), TRUE,
                               <<k, setLocationOp(g, pt)>>, <<>>)
    BY <1>1 DEF newG3DRect
  <2>free. g \in Free
    BY <2>1
  <2>2. PICK c, j : /\ c = ((e ++ At(pt)) ++ Sized(size)) ++ newGObject("G3DRect")
                    /\ j = ((e ++ NotFilled) ++ OfSize(size)) ++ NewGObject("G3DRect")
    OBVIOUS
  <2>3. MadeBy(g, c, <<k, setLocationOp(g, pt)>>, <<>>) /\ May("newG3DRect")
    BY <1>1, <2>1, <2>2, MakeMakes DEF newG3DRect
  <2>4. \A b : Handle(b, k) = defineGObject(b, g, j)
    BY <2>1, <2>2 DEF Handle, createG3DRectOp, Command, G3DRect_create
  <2>5. "G3DRect" \in FillableType \ {"GPolygon"}
    BY DEF FillableType
  <2>6. FieldsOK(e) /\ DOMAIN e \cap {"x", "y"} = {}
    BY <2>1 DEF FieldsOK, NotSet
  <2> QED
    BY <2>free, <2>2, <2>3, <2>4, <2>5, <2>6, ShapeMadeWith, MakingShape
<1>2. ASSUME NEW angles, newGArc(pt, size, angles) PROVE IInv'
  <2>1. PICK g, k, e : /\ g \in Free
                       /\ k = createGArcOp(g, size, angles)
                       /\ e = [start |-> angles.x, sweep |-> angles.y]
                       /\ Make(g, "GArc", (e ++ At(pt)) ++ Sized(size), FALSE,
                               <<k, setLocationOp(g, pt)>>, <<>>)
    BY <1>2 DEF newGArc
  <2>free. g \in Free
    BY <2>1
  <2>2. PICK c, j : /\ c = ((e ++ At(pt)) ++ Sized(size)) ++ newGObject("GArc")
                    /\ j = ((e ++ NotFilled) ++ OfSize(size)) ++ NewGObject("GArc")
    OBVIOUS
  <2>3. MadeBy(g, c, <<k, setLocationOp(g, pt)>>, <<>>) /\ May("newGArc")
    BY <1>2, <2>1, <2>2, MakeMakes DEF newGArc
  <2>4. \A b : Handle(b, k) = defineGObject(b, g, j)
    BY <2>1, <2>2 DEF Handle, createGArcOp, Command, GArc_create
  <2>5. "GArc" \in FillableType \ {"GPolygon"}
    BY DEF FillableType
  <2>6. FieldsOK(e) /\ DOMAIN e \cap {"x", "y"} = {}
    BY <2>1 DEF FieldsOK, NotSet
  <2> QED
    BY <2>free, <2>2, <2>3, <2>4, <2>5, <2>6, ShapeMadeWith, MakingShape
<1> QED
  BY <1>1, <1>2

\* Lines.
LEMMA LineMade ==
    ASSUME NEW pt0 \in Points, NEW pt1 \in Points,
           NEW c, c = LineFields(pt0, pt1) ++ newGObject("GLine"),
           NEW j, j = OfLine(pt0, pt1) ++ NewGObject("GLine")
    PROVE  ObjectOK(c) /\ c.type = "GLine" /\ Agree(c, j) /\ j.parent = Null
<1>1. PICK fields : /\ fields = LineFields(pt0, pt1) /\ fields = OfLine(pt0, pt1)
                    /\ DOMAIN fields = {"x", "y", "width", "height"} /\ FieldsOK(fields)
  <2>1. pt0.x \in Int /\ pt0.y \in Int
    BY PointsAssumption DEF Pair
  <2> QED
    BY <2>1, SameLine
<1>2. PICK c0, j0 : /\ c0 = newGObject("GLine") /\ j0 = NewGObject("GLine")
                    /\ ObjectOK(c0) /\ c0.type = "GLine" /\ SameFields(c0, j0)
  <2>1. /\ "GLine" \in AnyType
        /\ "GLine" \notin {"GLabel", "GImage", "GPolygon", "GCompound"} \cup InteractorType
    BY DEF AnyType, InteractorType
  <2> QED
    BY <2>1, PlainObject, MadeAlike
<1>3. ObjectOK(c) /\ c.type = "GLine"
  BY <1>1, <1>2, FieldsOfC
<1>4. SameFields(c, j)
  BY <1>1, <1>2, SameFieldsMore
<1>5. /\ DOMAIN j0 = {"type", "x", "y", "color", "visible", "parent"} /\ j0.parent = Null
      /\ j0.type = "GLine"
  BY <1>2 DEF NewGObject
<1>6. /\ DOMAIN j = {"type", "x", "y", "color", "visible", "parent", "width", "height"}
      /\ j.parent = Null /\ j.type = "GLine"
  BY <1>1, <1>5, <1>2 DEF ++
<1>7. JavaObjectOK(j)
  BY <1>6 DEF JavaObjectOK, InteractorType
<1> QED
  BY <1>3, <1>4, <1>6, <1>7 DEF Agree, InteractorType

\* newGLine sends one command.
LEMMA MakingLines ==
    ASSUME IInv, UNCHANGED backEndVars, NEW pt0 \in Points, NEW pt1 \in Points,
           newGLine(pt0, pt1)
    PROVE  IInv'
<1>1. PICK g, k : /\ g \in Free
                  /\ k = createGLineOp(g, pt0, pt1)
                  /\ Make(g, "GLine", LineFields(pt0, pt1), TRUE, <<k>>, <<>>)
  BY DEF newGLine
<1>free. g \in Free
  BY <1>1
<1>2. PICK c, j : /\ c = LineFields(pt0, pt1) ++ newGObject("GLine")
                  /\ j = OfLine(pt0, pt1) ++ NewGObject("GLine")
  OBVIOUS
<1>3. MadeBy(g, c, <<k>>, <<>>) /\ May("newGLine")
  BY <1>1, <1>2, MakeMakes DEF newGLine
<1>4. \A b : Handle(b, k) = defineGObject(b, g, j)
  BY <1>1, <1>2 DEF Handle, createGLineOp, Command, GLine_create
<1>5. ObjectOK(c) /\ c.type = "GLine" /\ Agree(c, j) /\ j.parent = Null
  BY <1>2, LineMade
<1>6. AsNew(j, c) /\ AsksOfNew(g, c, <<>>) /\ NonePending(<<>>)
  BY <1>5, AsksNothing, NothingPending DEF AsNew
<1>7. c.type = "GCompound" => c.contents = <<>>
  BY <1>5
<1> QED
  BY ONLY <1>3, <1>4, <1>5, <1>6, <1>7, IInv, UNCHANGED backEndVars, <1>free, MakingByOne

\* Objects with one field of their own, in C, Java or both.
LEMMA PolygonMade ==
    ASSUME NEW c, c = [vertices |-> <<>>] ++ newGObject("GPolygon"),
           NEW j, j = ([vertices |-> <<>>] ++ NotFilled) ++ NewGObject("GPolygon")
    PROVE  ObjectOK(c) /\ c.type = "GPolygon" /\ Agree(c, j) /\ j.parent = Null
<1>1. PICK fields : fields = [vertices |-> <<>>] /\ DOMAIN fields = {"vertices"}
  OBVIOUS
<1>2. PICK c0, j0 : /\ c0 = newGObject("GPolygon") /\ j0 = NotFilled ++ NewGObject("GPolygon")
                    /\ SameFields(c0, j0)
  BY MadeAlike
<1>3. /\ DOMAIN c0 = ObjectFields /\ c0.type = "GPolygon" /\ c0.x = 0 /\ c0.y = 0
      /\ c0.color = "BLACK"
  BY <1>2 DEF newGObject, ObjectFields
<1>4. /\ DOMAIN c = ObjectFields \cup {"vertices"} /\ c.type = "GPolygon" /\ c.x = 0 /\ c.y = 0
      /\ c.color = "BLACK"
  BY <1>1, <1>2, <1>3 DEF ++, ObjectFields
<1>5. ObjectOK(c)
  BY <1>4 DEF ObjectOK, AnyType, FillableType, InteractorType, ObjectFields
<1>6. j = fields ++ j0
  BY <1>1, <1>2, OneAfterTheOther
<1>7. SameFields(c, j)
  BY <1>1, <1>2, <1>6, SameFieldsMore
<1>8. /\ DOMAIN j0 = {"type", "x", "y", "color", "visible", "parent", "filled", "fillColor"}
      /\ j0.parent = Null /\ j0.type = "GPolygon"
  BY <1>2 DEF NewGObject, NotFilled, ++
<1>9. /\ DOMAIN j = {"type", "x", "y", "color", "visible", "parent", "filled", "fillColor",
                     "vertices"}
      /\ j.parent = Null /\ j.type = "GPolygon"
  BY <1>1, <1>6, <1>8 DEF ++
<1>10. JavaObjectOK(j)
  BY <1>9 DEF JavaObjectOK, InteractorType, FillableType
<1> QED
  BY <1>4, <1>5, <1>7, <1>9, <1>10 DEF Agree, InteractorType

\* A new compound is empty on both sides.
LEMMA CompoundMade ==
    ASSUME NEW c, c = [contents |-> <<>>] ++ newGObject("GCompound"),
           NEW j, j = [children |-> <<>>] ++ NewGObject("GCompound")
    PROVE  /\ ObjectOK(c) /\ c.type = "GCompound" /\ c.contents = <<>>
           /\ AsNew(j, c)
<1>1. PICK f1, f2 : /\ f1 = [contents |-> <<>>] /\ DOMAIN f1 = {"contents"}
                    /\ f2 = [children |-> <<>>] /\ DOMAIN f2 = {"children"}
                    /\ f1.contents = <<>> /\ f2.children = <<>>
  OBVIOUS
<1>2. PICK c0, j0 : /\ c0 = newGObject("GCompound") /\ j0 = NewGObject("GCompound")
                    /\ SameFields(c0, j0)
  BY MadeAlike
<1>3. /\ DOMAIN c0 = ObjectFields /\ c0.type = "GCompound" /\ c0.x = 0 /\ c0.y = 0
      /\ c0.color = "BLACK"
  BY <1>2 DEF newGObject, ObjectFields
<1>4. /\ DOMAIN c = ObjectFields \cup {"contents"} /\ c.type = "GCompound" /\ c.x = 0 /\ c.y = 0
      /\ c.color = "BLACK" /\ c.contents = <<>>
  BY <1>1, <1>2, <1>3 DEF ++, ObjectFields
<1>5. ObjectOK(c)
  BY <1>4 DEF ObjectOK, AnyType, FillableType, InteractorType, ObjectFields
<1>6. /\ DOMAIN j0 = {"type", "x", "y", "color", "visible", "parent"}
      /\ j0.parent = Null /\ j0.type = "GCompound"
  BY <1>2 DEF NewGObject
<1>7. /\ DOMAIN j = {"type", "x", "y", "color", "visible", "parent", "children"}
      /\ j.parent = Null /\ j.type = "GCompound" /\ j.children = <<>>
      /\ \A f \in DOMAIN j0 : j[f] = j0[f]
  BY <1>1, <1>2, <1>6 DEF ++
<1>8. \A f \in DOMAIN c0 : c[f] = c0[f]
  BY <1>1, <1>2, <1>3 DEF ++, ObjectFields
<1>9. SameFields(c, j)
  BY <1>2, <1>3, <1>4, <1>6, <1>7, <1>8 DEF SameFields, ObjectFields
<1>10. JavaObjectOK(j)
  BY <1>7 DEF JavaObjectOK, InteractorType, FillableType
<1> QED
  BY <1>4, <1>5, <1>7, <1>9, <1>10 DEF Agree, AsNew, InteractorType

\* newGPolygon.
LEMMA MakingPolygons ==
    ASSUME IInv, UNCHANGED backEndVars, newGPolygon
    PROVE  IInv'
<1>1. PICK g, k : /\ g \in Free
                  /\ k = createGPolygonOp(g)
                  /\ Make(g, "GPolygon", [vertices |-> <<>>], FALSE, <<k>>, <<>>)
  BY DEF newGPolygon
<1>free. g \in Free
  BY <1>1
<1>2. PICK c, j : /\ c = [vertices |-> <<>>] ++ newGObject("GPolygon")
                  /\ j = ([vertices |-> <<>>] ++ NotFilled) ++ NewGObject("GPolygon")
  OBVIOUS
<1>3. MadeBy(g, c, <<k>>, <<>>) /\ May("newGPolygon")
  BY <1>1, <1>2, MakeMakes DEF newGPolygon
<1>4. \A b : Handle(b, k) = defineGObject(b, g, j)
  BY <1>1, <1>2 DEF Handle, createGPolygonOp, Command, GPolygon_create
<1>5. ObjectOK(c) /\ c.type = "GPolygon" /\ Agree(c, j) /\ j.parent = Null
  BY <1>2, PolygonMade
<1>6. AsNew(j, c) /\ AsksOfNew(g, c, <<>>) /\ NonePending(<<>>)
  BY <1>5, AsksNothing, NothingPending DEF AsNew
<1>7. c.type = "GCompound" => c.contents = <<>>
  BY <1>5
<1> QED
  BY ONLY <1>3, <1>4, <1>5, <1>6, <1>7, IInv, UNCHANGED backEndVars, <1>free, MakingByOne

\* newGCompound, which calls initPlatform first.
LEMMA MakingCompounds ==
    ASSUME IInv, UNCHANGED backEndVars, newGCompound
    PROVE  IInv'
<1>1. PICK g, k : /\ g \in Free
                  /\ k = createGCompoundOp(g)
                  /\ Make(g, "GCompound", [contents |-> <<>>], TRUE, <<k>>, <<>>)
  BY DEF newGCompound
<1>free. g \in Free
  BY <1>1
<1>2. PICK c, j : /\ c = [contents |-> <<>>] ++ newGObject("GCompound")
                  /\ j = [children |-> <<>>] ++ NewGObject("GCompound")
  OBVIOUS
<1>3. MadeBy(g, c, <<k>>, <<>>) /\ May("newGCompound")
  BY <1>1, <1>2, MakeMakes DEF newGCompound
<1>4. \A b : Handle(b, k) = defineGObject(b, g, j)
  BY <1>1, <1>2 DEF Handle, createGCompoundOp, Command, GCompound_create
<1>5. ObjectOK(c) /\ c.type = "GCompound" /\ c.contents = <<>> /\ AsNew(j, c)
  BY <1>2, CompoundMade
<1>6. AsksOfNew(g, c, <<>>) /\ NonePending(<<>>)
  BY <1>5, AsksNothing, NothingPending
<1>7. c.type = "GCompound" => c.contents = <<>>
  BY <1>5
<1> QED
  BY ONLY <1>3, <1>4, <1>5, <1>6, <1>7, IInv, UNCHANGED backEndVars, <1>free, MakingByOne

\* Labels, whose ascent, descent and size are asked for.
LEMMA LabelMade ==
    ASSUME NEW str \in Strings,
           NEW c, c = [str |-> str, font |-> NoFont, ascent |-> 0, descent |-> 0] ++ newGObject("GLabel"),
           NEW j, j = [str |-> str, font |-> Null] ++ NewGObject("GLabel"),
           NEW fields, fields = [font |-> NoFont]
    PROVE  /\ ObjectOK(c) /\ c.type = "GLabel" /\ j.type = "GLabel"
           /\ AsNew(fields ++ j, c)
<1>1. PICK f1, f2 : /\ f1 = [str |-> str, font |-> NoFont, ascent |-> 0, descent |-> 0]
                    /\ f2 = [str |-> str, font |-> Null]
                    /\ DOMAIN f1 = {"str", "font", "ascent", "descent"} /\ DOMAIN f2 = {"str", "font"}
                    /\ f1["str"] = str /\ f1["font"] = NoFont /\ f2["str"] = str
                    /\ DOMAIN fields = {"font"} /\ fields["font"] = NoFont
  OBVIOUS
<1>2. PICK c0, j0 : /\ c0 = newGObject("GLabel") /\ j0 = NewGObject("GLabel")
                    /\ SameFields(c0, j0)
  BY MadeAlike
<1>3. /\ DOMAIN c0 = ObjectFields /\ c0.type = "GLabel" /\ c0.x = 0 /\ c0.y = 0
      /\ c0.color = "BLACK"
  BY <1>2 DEF newGObject, ObjectFields
<1>4. /\ DOMAIN c = ObjectFields \cup {"str", "font", "ascent", "descent"} /\ c.type = "GLabel"
      /\ c.x = 0 /\ c.y = 0 /\ c.color = "BLACK" /\ c["str"] = str /\ c["font"] = NoFont
      /\ \A f \in DOMAIN c0 : c[f] = c0[f]
  BY <1>1, <1>2, <1>3 DEF ++, ObjectFields
<1>5. ObjectOK(c)
  BY <1>4 DEF ObjectOK, AnyType, FillableType, InteractorType, ObjectFields
<1>6. /\ DOMAIN j0 = {"type", "x", "y", "color", "visible", "parent"}
      /\ j0.parent = Null /\ j0.type = "GLabel"
  BY <1>2 DEF NewGObject
<1>7. PICK j1 : j1 = fields ++ j
  OBVIOUS
<1>8. DOMAIN j = DOMAIN j0 \cup {"str", "font"} /\ j["str"] = str /\ j.type = "GLabel"
      /\ \A f \in DOMAIN j0 : j[f] = j0[f]
  BY <1>1, <1>2, <1>6 DEF ++
<1>9. /\ DOMAIN j1 = DOMAIN j0 \cup {"str", "font"} /\ j1["str"] = str /\ j1["font"] = NoFont
      /\ \A f \in DOMAIN j0 : j1[f] = j0[f]
  BY <1>1, <1>6, <1>7, <1>8 DEF ++
<1>10. SameFields(c, j1)
  BY <1>2, <1>3, <1>4, <1>6, <1>9 DEF SameFields, ObjectFields
<1>11. j1.type = "GLabel" /\ j1.parent = Null
  BY <1>6, <1>9
<1>12. JavaObjectOK(j1)
  BY <1>6, <1>9, <1>11 DEF JavaObjectOK, InteractorType, FillableType
<1> QED
  BY <1>4, <1>5, <1>7, <1>8, <1>10, <1>11, <1>12 DEF Agree, AsNew, InteractorType

\* newGLabel sends the default font and asks for ascent, descent and size.
LEMMA MakingLabels ==
    ASSUME IInv, UNCHANGED backEndVars, NEW str \in Strings, newGLabel(str)
    PROVE  IInv'
<1>1. PICK g, k, l, q :
          /\ g \in Free
          /\ k = createGLabelOp(g, str) /\ l = setFontOp(g, NoFont) /\ q = FontQueries(g)
          /\ Make(g, "GLabel", [str |-> str, font |-> NoFont, ascent |-> 0, descent |-> 0], FALSE,
                  <<k, l>>, q)
  BY DEF newGLabel
<1>free. g \in Free
  BY <1>1
<1>2. PICK c, j, fields :
          /\ c = [str |-> str, font |-> NoFont, ascent |-> 0, descent |-> 0] ++ newGObject("GLabel")
          /\ j = [str |-> str, font |-> Null] ++ NewGObject("GLabel")
          /\ fields = [font |-> NoFont]
  OBVIOUS
<1>3. MadeBy(g, c, <<k, l>>, q) /\ May("newGLabel")
  BY <1>1, <1>2, MakeMakes DEF newGLabel
<1>4. \A b : Handle(b, k) = defineGObject(b, g, j)
  BY <1>1, <1>2 DEF Handle, createGLabelOp, Command, GLabel_create
<1>5. \A b : Handle(b, l) = Update(b, g, {"GLabel"}, fields)
  BY <1>1, <1>2 DEF Handle, setFontOp, Command, GLabel_setFont
<1>6. ObjectOK(c) /\ c.type = "GLabel" /\ j.type = "GLabel" /\ AsNew(fields ++ j, c)
  BY <1>2, LabelMade
<1>7. NonePending(q)
  <2>1. AsksOf(c, g, q)
    BY <1>1, <1>6 DEF AsksOf, LabelQueries
  <2> QED
    BY <2>1, AsksForNoImage
<1>8. AsksOfNew(g, c, q)
  <2>1. Measured(g, c, q)
    BY <1>1 DEF Measured, LabelQueries
  <2>2. ASSUME NEW objs, NEW window, g \in DOMAIN objs, objs[g] = c
        PROVE  QuestionOK(objs, q, window)
    BY <1>1, <1>6, <2>2 DEF QuestionOK, LabelQueries
  <2> QED
    BY <1>7, <2>1, <2>2 DEF AsksOfNew, NonePending
<1>9. (c.type = "GCompound" => c.contents = <<>>) /\ j.type \in {"GLabel"}
  BY <1>6
<1> QED
  BY ONLY <1>3, <1>4, <1>5, <1>6, <1>7, <1>8, <1>9, IInv, UNCHANGED backEndVars, <1>free,
          MakingByTwo

\* Images, of which the back end says whether it has them.
LEMMA MakingImages ==
    ASSUME IInv, UNCHANGED backEndVars, NEW filename \in Strings, newGImage(filename)
    PROVE  IInv'
<1>1. PICK g, q :
          /\ g \in Free
          /\ q = ImageQuery(g, filename)
          /\ Make(g, "GImage", [filename |-> filename], FALSE, <<>>, q)
  BY DEF newGImage, ImageQuery
<1>free. g \in Free
  BY <1>1
<1>2. PICK c, c0 : c = [filename |-> filename] ++ c0 /\ c0 = newGObject("GImage")
  OBVIOUS
<1>3. MadeBy(g, c, <<>>, q) /\ May("newGImage")
  BY <1>1, <1>2, MakeMakes DEF newGImage
<1>4. ObjectOK(c) /\ c.type = "GImage"
  <2> DEFINE new == [filename |-> filename]
  <2>1. PICK fields : fields = new /\ DOMAIN fields = {"filename"} /\ c = fields ++ c0
    BY <1>2
  <2>2. /\ DOMAIN c0 = ObjectFields /\ c0.type = "GImage" /\ c0.x = 0 /\ c0.y = 0
        /\ c0.color = "BLACK"
    BY <1>2 DEF newGObject, ObjectFields
  <2>3. /\ DOMAIN c = ObjectFields \cup {"filename"} /\ c.type = "GImage" /\ c.x = 0 /\ c.y = 0
        /\ c.color = "BLACK"
    BY <1>2, <2>1, <2>2 DEF ++, ObjectFields
  <2> QED
    BY <2>3 DEF ObjectOK, AnyType, FillableType, InteractorType, ObjectFields
<1>5. Head(q) = Query(createGImageOp(g, filename), "size") /\ q # <<>>
  BY <1>1 DEF ImageQuery
<1>6. Pending(q, g) /\ \A h : Pending(q, h) => h = g
  BY <1>5 DEF Pending, Query, createGImageOp, Command
<1>7. AsksOfNew(g, c, q)
  <2>1. ASSUME NEW objs, NEW window, g \in DOMAIN objs, objs[g] = c
        PROVE  QuestionOK(objs, q, window)
    BY <1>1, <1>2, <1>4, <2>1 DEF QuestionOK
  <2> QED
    BY <1>4, <1>6, <2>1 DEF AsksOfNew
<1>8. IsSeq(<<>>) /\ Len(<<>>) <= 5 /\ \A i \in 1..Len(<<>>) : EditsOnly(<<>>[i], g)
  BY LeadsNothing DEF Leads
<1>9. ASSUME NEW b, IsBackEnd(b)
      PROVE  \E d : Leads(b, <<>>, d) /\ Edits(b, d, g) /\ Made(b, d, g, c, q)
  BY <1>6, <1>9, LeadsNothing, EditsNothing DEF Made
<1>10. /\ c.type = "GCompound" => c.contents = <<>>
       /\ c.type = "GCompound" => ~Pending(q, g)
  BY <1>4
<1> QED
  BY ONLY <1>3, <1>4, <1>7, <1>8, <1>9, <1>10, IInv, UNCHANGED backEndVars, <1>free, Making

\* Interactors: the back end has fields of which C knows nothing.
newActor(t, cmd) == [actionCommand |-> cmd] ++ newGObject(t)
NewActor(t, cmd) == [actionCommand |-> cmd] ++ NewGObject(t)

\* C keeps of an interactor only the action command, which may be unset.
LEMMA InteractorMade ==
    ASSUME NEW t \in InteractorType, NEW cmd, NEW cmd2, cmd \in {Unset, cmd2},
           NEW e, DOMAIN e \subseteq {"items", "selected", "text"},
           NEW c, c = newActor(t, cmd), NEW a, a = NewActor(t, cmd2), NEW j, j = e ++ a
    PROVE  ObjectOK(c) /\ c.type = t /\ Agree(c, j) /\ j.parent = Null
<1> DEFINE f1 == [actionCommand |-> cmd]
           f2 == [actionCommand |-> cmd2]
<1>1. /\ DOMAIN f1 = {"actionCommand"} /\ DOMAIN f2 = {"actionCommand"}
      /\ f1["actionCommand"] = cmd /\ f2["actionCommand"] = cmd2
      /\ c = f1 ++ newGObject(t) /\ j = e ++ (f2 ++ NewGObject(t))
  BY DEF newActor, NewActor
<1> HIDE DEF f1, f2
<1>2. PICK c0, j0 : c0 = newGObject(t) /\ j0 = NewGObject(t) /\ SameFields(c0, j0)
  BY MadeAlike
<1>3. DOMAIN c0 = ObjectFields /\ c0.type = t /\ c0.x = 0 /\ c0.y = 0 /\ c0.color = "BLACK"
  BY <1>2 DEF newGObject, ObjectFields
<1>4. /\ DOMAIN c = ObjectFields \cup {"actionCommand"} /\ c["actionCommand"] = cmd
      /\ \A f \in DOMAIN c0 : c[f] = c0[f]
  BY <1>1, <1>2, <1>3 DEF ++, ObjectFields
<1>5. c.type = t /\ c.x = 0 /\ c.y = 0 /\ c.color = "BLACK"
  BY <1>3, <1>4 DEF ObjectFields
<1>6. /\ t \in AnyType /\ t \notin FillableType
      /\ t \notin {"GLabel", "GLine", "GImage", "GPolygon", "GCompound"}
  BY DEF AnyType, InteractorType, FillableType
<1>7. ObjectOK(c)
  BY <1>4, <1>5, <1>6 DEF ObjectOK, ObjectFields
<1>8. /\ DOMAIN j0 = {"type", "x", "y", "color", "visible", "parent"}
      /\ j0.parent = Null /\ j0.type = t
  BY <1>2 DEF NewGObject
<1>9. /\ DOMAIN j = DOMAIN e \cup {"actionCommand"} \cup DOMAIN j0 /\ j["actionCommand"] = cmd2
      /\ \A f \in DOMAIN j0 : j[f] = j0[f]
  BY <1>1, <1>2, <1>8 DEF ++
<1>10. j.type = t /\ j.parent = Null
  BY <1>8, <1>9
<1>11. JavaObjectOK(j)
  <2>1. t \notin {"GLine", "GRect", "GOval"}
    BY DEF InteractorType
  <2> QED
    BY <2>1, <1>6, <1>8, <1>9, <1>10 DEF JavaObjectOK
<1>12. SameFields(c, j)
  BY <1>2, <1>3, <1>4, <1>8, <1>9 DEF SameFields, ObjectFields
<1> QED
  BY <1>4, <1>5, <1>7, <1>9, <1>10, <1>11, <1>12 DEF Agree

\* An interactor made by one command.
LEMMA MakingInteractor ==
    ASSUME IInv, UNCHANGED backEndVars, NEW op, May(op), NEW g \in Free, NEW c, NEW k, NEW j,
           MadeBy(g, c, <<k>>, <<>>), \A b : Handle(b, k) = defineGObject(b, g, j),
           ObjectOK(c), c.type \in InteractorType, Agree(c, j), j.parent = Null
    PROVE  IInv'
<1>1. c.type \notin {"GLabel", "GCompound"}
  BY DEF InteractorType
<1>2. AsNew(j, c) /\ AsksOfNew(g, c, <<>>) /\ NonePending(<<>>)
  BY <1>1, AsksNothing, NothingPending DEF AsNew
<1>3. c.type = "GCompound" => c.contents = <<>>
  BY <1>1
<1> QED
  BY ONLY <1>2, <1>3, IInv, UNCHANGED backEndVars, May(op), g \in Free, ObjectOK(c),
          MadeBy(g, c, <<k>>, <<>>), \A b : Handle(b, k) = defineGObject(b, g, j), MakingByOne

\* A button, whose action command is its label.
LEMMA MakingButtons ==
    ASSUME IInv, UNCHANGED backEndVars, NEW label \in Strings, newGButton(label)
    PROVE  IInv'
<1>1. PICK g, k, l, fields :
          /\ g \in Free
          /\ k = createGButtonOp(g, label) /\ l = setActionCommandOp(g, label)
          /\ fields = [actionCommand |-> label]
          /\ Make(g, "GButton", fields, FALSE, <<k, l>>, <<>>)
  BY DEF newGButton
<1>free. g \in Free
  BY <1>1
<1>2. PICK c, j, j0 : /\ c = fields ++ newGObject("GButton")
                      /\ j = fields ++ ([actionCommand |-> ""] ++ j0)
                      /\ j0 = NewGObject("GButton")
  OBVIOUS
<1>3. MadeBy(g, c, <<k, l>>, <<>>) /\ May("newGButton")
  BY <1>1, <1>2, MakeMakes DEF newGButton
<1>4. \A b : Handle(b, k) = defineGObject(b, g, j)
  BY <1>1, <1>2 DEF Handle, createGButtonOp, Command, GButton_create, Interactor
<1>5. \A b : Handle(b, l) = Update(b, g, InteractorType, fields)
  BY <1>1, <1>2 DEF Handle, setActionCommandOp, Command, GInteractor_setActionCommand
<1>6. PICK e : e = [f \in {} |-> f] /\ DOMAIN e = {}
  OBVIOUS
<1>7. DOMAIN fields = {"actionCommand"} /\ fields = [actionCommand |-> label]
  BY <1>1
<1>8. fields ++ j = e ++ (fields ++ j0)
  BY <1>2, <1>6, <1>7 DEF ++
<1>9. "GButton" \in InteractorType
  BY DEF InteractorType
<1>10. PICK j1 : j1 = fields ++ j
  OBVIOUS
<1>11. ObjectOK(c) /\ c.type = "GButton" /\ Agree(c, j1) /\ j1.parent = Null
  <2>1. PICK a : a = NewActor("GButton", label) /\ j1 = e ++ a
    BY <1>2, <1>7, <1>8, <1>10 DEF NewActor
  <2>2. c = newActor("GButton", label)
    BY <1>2, <1>7 DEF newActor
  <2>3. DOMAIN e \subseteq {"items", "selected", "text"} /\ label \in {Unset, label}
    BY <1>6
  <2> QED
    BY ONLY <1>9, <2>1, <2>2, <2>3, InteractorMade
<1>12. AsNew(fields ++ j, c) /\ AsksOfNew(g, c, <<>>) /\ NonePending(<<>>)
  BY <1>10, <1>11, AsksNothing, NothingPending DEF AsNew
<1>13. (c.type = "GCompound" => c.contents = <<>>) /\ j.type \in InteractorType
  <2>1. "type" \in DOMAIN j0 /\ j0["type"] = "GButton"
    BY <1>2 DEF NewGObject
  <2>2. j.type = "GButton"
    BY <1>2, <1>7, <2>1 DEF ++
  <2> QED
    BY <1>9, <1>11, <2>2
<1> QED
  BY ONLY <1>3, <1>4, <1>5, <1>11, <1>12, <1>13, IInv, UNCHANGED backEndVars, <1>free,
          MakingByTwo

\* The other interactors; a slider has its value in C too.
LEMMA MakingInteractors ==
    ASSUME IInv, UNCHANGED backEndVars, newGCheckBox \/ newGTextField \/ newGChooser
    PROVE  IInv'
<1> DEFINE C(t) == newActor(t, Unset)
           J(e, t) == e ++ NewActor(t, "")
<1>1. ASSUME NEW t \in InteractorType, NEW e, DOMAIN e \subseteq {"items", "selected", "text"},
             NEW op, May(op), NEW g \in Free, NEW k, NEW c, c = C(t), MadeBy(g, c, <<k>>, <<>>),
             NEW j, j = J(e, t), \A b : Handle(b, k) = defineGObject(b, g, j)
      PROVE  IInv'
  <2>1. Unset \in {Unset, ""}
    OBVIOUS
  <2>2. ObjectOK(c) /\ c.type = t /\ Agree(c, j) /\ j.parent = Null
    <3>1. PICK a, cmd, cmd2 : /\ a = NewActor(t, cmd2) /\ j = e ++ a /\ c = newActor(t, cmd)
                              /\ cmd \in {Unset, cmd2}
      BY <1>1
    <3>2. t \in InteractorType /\ DOMAIN e \subseteq {"items", "selected", "text"}
      BY <1>1
    <3> QED
      BY ONLY <3>1, <3>2, InteractorMade
  <2> QED
    BY <1>1, <2>2, MakingInteractor
<1>2. {"GCheckBox", "GTextField", "GChooser"} \subseteq InteractorType
  BY DEF InteractorType
<1>3. CASE newGCheckBox
  <2>1. PICK g, k, e, c, j :
            /\ g \in Free
            /\ k = createGCheckBoxOp(g) /\ e = [selected |-> FALSE]
            /\ Make(g, "GCheckBox", [actionCommand |-> Unset], FALSE, <<k>>, <<>>)
            /\ c = C("GCheckBox") /\ j = J(e, "GCheckBox")
    BY <1>3 DEF newGCheckBox
  <2>2. MadeBy(g, c, <<k>>, <<>>) /\ May("newGCheckBox")
    BY <1>3, <2>1, MakeMakes DEF newActor, newGCheckBox
  <2>3. \A b : Handle(b, k) = defineGObject(b, g, j)
    BY <2>1 DEF Handle, createGCheckBoxOp, Command, GCheckBox_create, Interactor, NewActor
  <2>4. DOMAIN e \subseteq {"items", "selected", "text"}
    BY <2>1
  <2>5. c = C("GCheckBox") /\ j = J(e, "GCheckBox") /\ g \in Free
    BY <2>1
  <2> HIDE DEF C, J
  <2> QED
    BY ONLY <1>1, <1>2, <2>2, <2>3, <2>4, <2>5
<1>4. CASE newGTextField
  <2>1. PICK g, k, e, c, j :
            /\ g \in Free
            /\ k = createGTextFieldOp(g) /\ e = [text |-> ""]
            /\ Make(g, "GTextField", [actionCommand |-> Unset], FALSE, <<k>>, <<>>)
            /\ c = C("GTextField") /\ j = J(e, "GTextField")
    BY <1>4 DEF newGTextField
  <2>2. MadeBy(g, c, <<k>>, <<>>) /\ May("newGTextField")
    BY <1>4, <2>1, MakeMakes DEF newActor, newGTextField
  <2>3. \A b : Handle(b, k) = defineGObject(b, g, j)
    BY <2>1 DEF Handle, createGTextFieldOp, Command, GTextField_create, Interactor, NewActor
  <2>4. DOMAIN e \subseteq {"items", "selected", "text"}
    BY <2>1
  <2>5. c = C("GTextField") /\ j = J(e, "GTextField") /\ g \in Free
    BY <2>1
  <2> HIDE DEF C, J
  <2> QED
    BY ONLY <1>1, <1>2, <2>2, <2>3, <2>4, <2>5
<1>5. CASE newGChooser
  <2>1. PICK g, k, e, c, j :
            /\ g \in Free
            /\ k = createGChooserOp(g) /\ e = [items |-> {}, selected |-> "null"]
            /\ Make(g, "GChooser", [actionCommand |-> Unset], FALSE, <<k>>, <<>>)
            /\ c = C("GChooser") /\ j = J(e, "GChooser")
    BY <1>5 DEF newGChooser
  <2>2. MadeBy(g, c, <<k>>, <<>>) /\ May("newGChooser")
    BY <1>5, <2>1, MakeMakes DEF newActor, newGChooser
  <2>3. \A b : Handle(b, k) = defineGObject(b, g, j)
    BY <2>1 DEF Handle, createGChooserOp, Command, GChooser_create, Interactor, NewActor
  <2>4. DOMAIN e \subseteq {"items", "selected", "text"}
    BY <2>1
  <2>5. c = C("GChooser") /\ j = J(e, "GChooser") /\ g \in Free
    BY <2>1
  <2> HIDE DEF C, J
  <2> QED
    BY ONLY <1>1, <1>2, <2>2, <2>3, <2>4, <2>5
<1> QED
  BY <1>3, <1>4, <1>5

\* newGSlider, whose value is kept on both sides.
LEMMA MakingSliders ==
    ASSUME IInv, UNCHANGED backEndVars, NEW value \in Angles, newGSlider(value)
    PROVE  IInv'
<1>1. PICK g, k :
          /\ g \in Free
          /\ k = createGSliderOp(g, value)
          /\ Make(g, "GSlider", [actionCommand |-> Unset, value |-> value], FALSE, <<k>>, <<>>)
  BY DEF newGSlider
<1>free. g \in Free
  BY <1>1
<1>2. PICK c, j, c0, j0, fields, e :
          /\ c = [actionCommand |-> Unset, value |-> value] ++ newGObject("GSlider")
          /\ j = fields ++ NewActor("GSlider", "")
          /\ fields = [value |-> value] /\ e = [f \in {} |-> f]
          /\ c0 = newActor("GSlider", Unset)
          /\ j0 = e ++ NewActor("GSlider", "")
  OBVIOUS
<1>3. MadeBy(g, c, <<k>>, <<>>) /\ May("newGSlider")
  BY <1>1, <1>2, MakeMakes DEF newGSlider
<1>4. \A b : Handle(b, k) = defineGObject(b, g, j)
  BY <1>1, <1>2 DEF Handle, createGSliderOp, Command, GSlider_create, Interactor, NewActor
<1>5. "GSlider" \in InteractorType /\ Unset \in {Unset, ""}
  BY DEF InteractorType
<1>6. DOMAIN e \subseteq {"items", "selected", "text"} /\ DOMAIN e = {}
  BY <1>2
<1>7. ObjectOK(c0) /\ c0.type = "GSlider" /\ Agree(c0, j0) /\ j0.parent = Null
  <2>1. PICK a, cmd, cmd2 : /\ a = NewActor("GSlider", cmd2) /\ j0 = e ++ a
                            /\ c0 = newActor("GSlider", cmd) /\ cmd \in {Unset, cmd2}
    BY <1>2
  <2> QED
    BY ONLY <1>5, <1>6, <2>1, InteractorMade
<1>8. j = fields ++ j0
  <2>1. PICK r : r = NewActor("GSlider", "")
    OBVIOUS
  <2> QED
    BY <1>2, <1>6, <2>1 DEF ++
<1>9. c = fields ++ c0
  <2> DEFINE f == [actionCommand |-> Unset, value |-> value]
             f0 == [actionCommand |-> Unset]
  <2>1. /\ DOMAIN f = {"actionCommand", "value"} /\ DOMAIN f0 = {"actionCommand"}
        /\ DOMAIN fields = {"value"} /\ f["value"] = fields["value"]
        /\ f["actionCommand"] = f0["actionCommand"]
    BY <1>2
  <2>2. PICK r : c = f ++ r /\ c0 = f0 ++ r
    BY <1>2 DEF newActor
  <2> HIDE DEF f, f0
  <2> QED
    BY <2>1, <2>2 DEF ++
<1>10. FieldsOK(fields) /\ DOMAIN fields = {"value"}
  BY <1>2 DEF FieldsOK, NotSet
<1>11. ObjectOK(c) /\ c.type = "GSlider"
  BY <1>7, <1>9, <1>10, FieldsOfC
<1>12. JavaObjectOK(j0) /\ j0.type = "GSlider"
  BY <1>7 DEF Agree
<1>13. Agree(c, j) /\ j.parent = Null
  BY <1>7, <1>8, <1>9, <1>10, <1>12, SameFieldsSet, FieldsOfJava
<1>14. c.type \in InteractorType
  BY <1>5, <1>11
<1> QED
  BY ONLY <1>3, <1>4, <1>11, <1>13, <1>14, IInv, UNCHANGED backEndVars, <1>free,
          MakingInteractor

-----------------------------------------------------------------------------
(* The window. *)
\* Making a window asks for no image.
LEMMA WindowAsked ==
    ASSUME NEW g
    PROVE  NonePending(WindowQuery(g)) /\ WindowQuery(g) # <<>>
<1>1. /\ WindowQuery(g) # <<>> /\ Head(WindowQuery(g)) = Query(createGWindowOp(g), "none")
  BY DEF WindowQuery
<1>2. Query(createGWindowOp(g), "none").command.op # "GImage.create"
  BY DEF Query, createGWindowOp, Command
<1> QED
  BY <1>1, <1>2 DEF NonePending, Pending

\* The window is asked for; until it is there its compound is.
LEMMA MakingWindow ==
    ASSUME IInv, UNCHANGED backEndVars, newGWindow
    PROVE  IInv'
<1>1. PICK b : Leads(backEnd, pipe, b) /\ Mirrors(b)
  BY DEF IInv
<1>2. PICK g, k, c, q :
          /\ g \in Free
          /\ k = createGCompoundOp(g) /\ c = [contents |-> <<>>] ++ newGObject("GCompound")
          /\ q = WindowQuery(g)
          /\ gw' = [top |-> g, color |-> "BLACK"] /\ objects' = With(objects, g, c)
          /\ putPipe(<<k>>) /\ todo' = q
  BY DEF newGWindow, WindowQuery
<1>free. g \in Free
  BY <1>2
<1>3. /\ May("newGWindow") /\ initialized' = TRUE
      /\ UNCHANGED <<program, status, drawn, restacked, replies, awaiting>>
  BY DEF newGWindow, sentVars
<1>4. /\ todo = <<>> /\ ~awaiting /\ NonePending(todo) /\ g \in Ids /\ g \notin DOMAIN objects
      /\ SameObjects(objects, todo, restacked, b.table) /\ IsBackEnd(b)
  BY <1>free, <1>1, <1>3, NothingPending DEF May, Mirrors, Free
<1>5. PICK j : j = [children |-> <<>>] ++ NewGObject("GCompound")
  OBVIOUS
<1>6. \A e : Handle(e, k) = defineGObject(e, g, j)
  BY <1>2, <1>5 DEF Handle, createGCompoundOp, Command, GCompound_create
<1>7. ObjectOK(c) /\ c.type = "GCompound" /\ c.contents = <<>> /\ AsNew(j, c)
  BY <1>2, <1>5, CompoundMade
<1>8. PICK d : d = Handle(b, k) /\ Edits(b, d, g) /\ Known(d, g) /\ d.table[g] = j
  BY <1>4, <1>6, Defines
<1>9. PICK s : s = <<k>> /\ IsSeq(s) /\ Len(s) = 1 /\ s[1] = k /\ Leads(b, s, d)
  <2>1. Leads(b, <<k>>, d)
    BY <1>8, LeadsOne
  <2>2. IsSeq(<<k>>) /\ Len(<<k>>) = 1 /\ <<k>>[1] = k
    BY <2>1 DEF Leads
  <2> QED
    BY <2>1, <2>2
<1>10. Proper(k) /\ Silent(k)
  BY <1>4, <1>6, Defines, EditsOnlyIsProper DEF EditsOnly
<1>11. \A i \in 1..Len(s) : Proper(s[i]) /\ Silent(s[i])
  BY <1>9, <1>10
<1>12. PipeOK' /\ Leads(backEnd', pipe', d)
  <2>1. putPipe(s) /\ Len(s) <= 5
    BY <1>2, <1>9
  <2> QED
    BY <2>1, <1>1, <1>3, <1>4, <1>9, <1>11, Sending DEF IInv
<1>13. SameObjects(objects', todo', restacked', d.table)
  <2>1. /\ DOMAIN b.table \subseteq DOMAIN d.table
        /\ DOMAIN d.table \subseteq DOMAIN b.table \cup {g}
        /\ \A h \in DOMAIN b.table \ {g} : d.table[h] = b.table[h]
    BY <1>8 DEF Edits
  <2>2. \A h : Pending(q, h) => h = g
    BY <1>2, WindowAsked DEF NonePending
  <2>3. /\ c.type = "GLabel" => Measured(g, c, q)
        /\ c.type = "GCompound" => c.contents = <<>> /\ ~Pending(q, g)
    BY <1>2, <1>7, WindowAsked DEF NonePending
  <2>4. \/ Pending(q, g) /\ d.table = b.table
        \/ /\ g \in DOMAIN d.table /\ Agree(c, d.table[g])
           /\ d.table[g].parent = Null
           /\ c.type = "GCompound" => d.table[g].children = <<>>
    BY <1>7, <1>8 DEF AsNew, Known
  <2>5. SameObjects(With(objects, g, c), q, restacked, d.table)
    BY ONLY <1>4, <1>7, <2>1, <2>2, <2>3, <2>4, NewStep
  <2> QED
    BY <1>2, <1>3, <2>5
<1>14. /\ g \in DOMAIN objects' /\ objects'[g] = c
  BY <1>2 DEF With
<1>15. gw'.top = g /\ gw'.color = "BLACK" /\ gw' = [top |-> gw'.top, color |-> gw'.color]
  BY <1>2
<1>16. QuestionOK(objects', todo', gw')
  BY <1>2, <1>14, <1>15 DEF QuestionOK
<1>17. ResultOK(todo', awaiting', d)
  BY <1>1, <1>3, <1>4, <1>8 DEF Mirrors, ResultOK, Edits
<1>18. WindowOK(objects', todo', gw', awaiting', d)
  BY <1>2, <1>3, <1>4, <1>7, <1>14, <1>15 DEF WindowOK, Compounds
<1>19. Pictured(drawn', d)
  BY <1>1, <1>3, <1>8 DEF Mirrors, Pictured, Edits
<1>20. Own'
  BY <1>3 DEF IInv, Own, backEndVars
<1>21. Mirrors(d)'
  BY <1>8, <1>13, <1>16, <1>17, <1>18, <1>19 DEF Mirrors, Edits
<1> QED
  BY <1>12, <1>20, <1>21 DEF IInv

\* An object of the back end that is in no compound and may be replaced.
Loose(j) == Placed(j) /\ j.parent = Null /\ j.type \notin InteractorType

\* The table has changed at an address that no object has.
LEMMA OtherAddress ==
    ASSUME NEW objs, NEW stacked, NEW table, SameObjects(objs, <<>>, stacked, table),
           NEW g, g \notin DOMAIN objs, NEW table2, DOMAIN table \subseteq DOMAIN table2,
           DOMAIN table2 \subseteq DOMAIN table \cup {g},
           \A h \in DOMAIN table \ {g} : table2[h] = table[h],
           g \in DOMAIN table2 => Loose(table2[g])
    PROVE  SameObjects(objs, <<>>, stacked, table2)
<1>1. ASSUME NEW c \in Compounds(objs)
      PROVE  /\ c \in DOMAIN table /\ table2[c] = table[c]
             /\ ~Holds(objs[c].contents, g)
  <2>1. c \in DOMAIN objs /\ c \in DOMAIN table
    BY NothingPending, CompoundsThere
  <2>2. objs[c].contents \in Seq(DOMAIN objs \ {c})
    BY DEF SameObjects, ContentsOK
  <2> QED
    BY <2>1, <2>2 DEF Holds
<1>2. AllAgree(objs, <<>>, table2)
  BY NothingPending DEF SameObjects, AllAgree, NonePending
<1>3. ChildrenAgree(objs, stacked, table2)
  <2>1. ASSUME NEW c \in Compounds(objs)
        PROVE  /\ SameParts(objs[c].contents, table2[c].children, DOMAIN table2)
               /\ c \notin stacked =>
                      SameOrder(objs[c].contents, table2[c].children, DOMAIN table2)
    <3>1. PICK s, t, known, known2 :
              /\ s = objs[c].contents /\ t = table[c].children /\ t = table2[c].children
              /\ known = DOMAIN table /\ known2 = DOMAIN table2
      BY <1>1
    <3>2. SameParts(s, t, known) /\ (c \notin stacked => SameOrder(s, t, known))
      BY <3>1 DEF SameObjects, ChildrenAgree
    <3>3. ~Holds(s, g) /\ known \subseteq known2 /\ known2 \subseteq known \cup {g}
      BY <1>1, <3>1
    <3>4. /\ SameParts(s, t, known2)
          /\ SameOrder(s, t, known) => SameOrder(s, t, known2)
      BY ONLY <3>2, <3>3, MoreKnown
    <3> QED
      BY <3>1, <3>2, <3>4
  <2> QED
    BY <2>1 DEF ChildrenAgree
<1>4. ParentsAgree(objs, <<>>, table2)
  <2>1. ASSUME NEW h \in DOMAIN table2
        PROVE  /\ Placed(table2[h]) /\ ParentOK(objs, h, table2[h].parent)
               /\ table2[h].type \in InteractorType => Actor(objs, h)
    <3>1. CASE h = g
      BY <1>1, <3>1 DEF Loose, ParentOK, Actor, Alone
    <3>2. CASE h # g
      BY <3>2 DEF SameObjects, ParentsAgree
    <3> QED
      BY <3>1, <3>2
  <2> QED
    BY <2>1, NothingPending DEF ParentsAgree, NonePending
<1> QED
  BY <1>2, <1>3, <1>4 DEF SameObjects

\* What was drawn, and one more.
LEMMA PicturedMore ==
    ASSUME NEW shown, NEW b, NEW d, Pictured(shown, b), NEW o, NEW p, SameLook(o, p),
           d.image = Append(b.image, p)
    PROVE  Pictured(shown \o <<o>>, d)
<1>1. IsSeq(shown) /\ IsSeq(b.image) /\ IsSeq(<<o>>) /\ Len(<<o>>) = 1 /\ <<o>>[1] = o
  BY LeadsOne DEF Pictured, Leads
<1>2. PICK S : b.image \in Seq(S)
  BY <1>1 DEF IsSeq
<1>3. b.image \in Seq(S \cup {p})
  BY <1>2, SeqMonotonic
<1>4. d.image \in Seq(S \cup {p}) /\ Len(d.image) = Len(b.image) + 1 /\ Len(b.image) \in Nat
      /\ d.image[Len(b.image) + 1] = p /\ \A i \in 1..Len(b.image) : d.image[i] = b.image[i]
  BY <1>3
<1>5. /\ IsSeq(shown \o <<o>>) /\ Len(shown \o <<o>>) = Len(shown) + 1
      /\ \A i \in 1..Len(shown) : (shown \o <<o>>)[i] = shown[i]
      /\ (shown \o <<o>>)[Len(shown) + 1] = o
  BY <1>1, JoinSeqs
<1>6. Len(b.image) = Len(shown) /\ \A i \in 1..Len(shown) : SameLook(shown[i], b.image[i])
  BY DEF Pictured
<1>7. \A i \in 1..Len(shown) + 1 : SameLook((shown \o <<o>>)[i], d.image[i])
  BY <1>4, <1>5, <1>6
<1>8. IsSeq(d.image)
  BY <1>4 DEF IsSeq
<1> QED
  BY <1>4, <1>5, <1>6, <1>7, <1>8 DEF Pictured

\* An object as the program sees it and as the back end paints it.
LEMMA LooksAlike ==
    ASSUME NEW c, NEW j, ObjectOK(c), Agree(c, j), c.type \notin InteractorType
    PROVE  SameLook(c, Appearance(j)) /\ c.visible = j.visible
<1>1. "actionCommand" \notin DOMAIN c
  BY DEF ObjectOK
<1>2. DOMAIN Appearance(j) = DOMAIN j \ {"parent", "children"}
      /\ \A f \in DOMAIN Appearance(j) : Appearance(j)[f] = j[f]
  BY DEF Appearance
<1>3. SameLook(c, Appearance(j))
  BY <1>1, <1>2 DEF SameLook, Agree, SameFields
<1>4. "visible" \in DOMAIN c /\ "visible" \in DOMAIN j /\ "visible" # "actionCommand"
  BY DEF ObjectOK, ObjectFields, Agree, JavaObjectOK
<1>5. c["visible"] = j["visible"]
  BY <1>4 DEF Agree, SameFields
<1> QED
  BY <1>3, <1>5

\* The back end d has painted what the program takes for o, and else is b.
Painted(objs, stacked, b, d, o) ==
    /\ IsBackEnd(d) /\ d.canvas = b.canvas /\ d.replies = b.replies
    /\ SameObjects(objs, <<>>, stacked, d.table)
    /\ IF o.visible THEN \E p : SameLook(o, p) /\ d.image = Append(b.image, p)
       ELSE d.image = b.image

\* The command that paints.
LEMMA DrawIsProper == ASSUME NEW g PROVE Proper(drawOp(g)) /\ Silent(drawOp(g))
<1>1. \A b : Handle(b, drawOp(g)) = GWindow_draw(b, g)
  BY DEF Handle, drawOp, Command
<1>2. ASSUME NEW b, IsBackEnd(b)
      PROVE  /\ IsBackEnd(GWindow_draw(b, g)) /\ GWindow_draw(b, g).replies = b.replies
             /\ GWindow_draw(b, g).table = b.table
  <2>1. CASE b.canvas # Null /\ Known(b, g) /\ b.table[g].visible
    <3>1. GWindow_draw(b, g) = [b EXCEPT !.image = Append(@, Appearance(b.table[g]))]
      BY <2>1 DEF GWindow_draw
    <3> QED
      BY <1>2, <3>1 DEF IsBackEnd
  <2>2. CASE ~(b.canvas # Null /\ Known(b, g) /\ b.table[g].visible)
    <3>1. GWindow_draw(b, g) = b
      BY <2>2 DEF GWindow_draw
    <3> QED
      BY <1>2, <3>1
  <2> QED
    BY <2>1, <2>2
<1> QED
  BY <1>1, <1>2 DEF Proper, Silent

\* GWindow.draw paints what the object in C looks like.
LEMMA Paints ==
    ASSUME NEW objs, NEW stacked, NEW b, IsBackEnd(b), b.canvas # Null,
           SameObjects(objs, <<>>, stacked, b.table),
           NEW g, Known(b, g), NEW o, ObjectOK(o), Agree(o, b.table[g]), o.type \notin InteractorType
    PROVE  Painted(objs, stacked, b, Handle(b, drawOp(g)), o)
<1>1. PICK d : d = Handle(b, drawOp(g)) /\ d = GWindow_draw(b, g)
  BY DEF Handle, drawOp, Command
<1>2. PICK j : j = b.table[g]
  OBVIOUS
<1>3. SameLook(o, Appearance(j)) /\ o.visible = j.visible
  BY <1>2, LooksAlike
<1>4. CASE o.visible
  <2>1. d = [b EXCEPT !.image = Append(@, Appearance(j))]
    BY <1>1, <1>2, <1>3, <1>4 DEF GWindow_draw
  <2>2. /\ IsBackEnd(d) /\ d.canvas = b.canvas /\ d.replies = b.replies /\ d.table = b.table
        /\ d.image = Append(b.image, Appearance(j))
    BY <2>1 DEF IsBackEnd
  <2> QED
    BY <1>1, <1>3, <1>4, <2>2 DEF Painted
<1>5. CASE ~o.visible
  <2>1. d = b
    BY <1>1, <1>2, <1>3, <1>5 DEF GWindow_draw
  <2> QED
    BY <1>1, <1>5, <2>1 DEF Painted
<1> QED
  BY <1>4, <1>5

\* An operation that draws.
LEMMA Drawing ==
    ASSUME IInv, UNCHANGED backEndVars, NEW op, May(op), NEW o, NEW s, Draw(o, s),
           IsSeq(s), Len(s) <= 5, \A i \in 1..Len(s) : Proper(s[i]) /\ Silent(s[i]),
           \A b : IsBackEnd(b) /\ b.canvas # Null /\ SameObjects(objects, <<>>, restacked, b.table) =>
                      \E d : Leads(b, s, d) /\ Painted(objects, restacked, b, d, o)
    PROVE  IInv'
<1>1. PICK b : Leads(backEnd, pipe, b) /\ Mirrors(b)
  BY DEF IInv
<1>2. /\ todo = <<>> /\ ~awaiting /\ SameObjects(objects, <<>>, restacked, b.table)
      /\ IsBackEnd(b)
  BY <1>1 DEF May, Mirrors
<1>3. /\ gw.top # Null /\ Len(drawn) < MaxDrawn /\ drawn' = drawn \o Snapshot(o) /\ putPipe(s)
      /\ UNCHANGED <<program, status, initialized, gw, objects, todo, restacked, replies, awaiting>>
  BY DEF Draw, sentVars
<1>4. b.canvas # Null
  BY <1>1, <1>2, <1>3 DEF Mirrors, WindowOK, WindowQuery
<1>5. PICK d : Leads(b, s, d) /\ Painted(objects, restacked, b, d, o)
  BY <1>2, <1>4
<1>6. PipeOK' /\ Leads(backEnd', pipe', d)
  BY <1>1, <1>2, <1>3, <1>5, Sending DEF IInv
<1>7. Pictured(drawn, b)
  BY <1>1 DEF Mirrors
<1>8. Pictured(drawn', d) /\ Len(drawn') <= Len(drawn) + 1
  <2>1. CASE o.visible
    <3>1. PICK p : SameLook(o, p) /\ d.image = Append(b.image, p)
      BY <1>5, <2>1 DEF Painted
    <3>2. drawn' = drawn \o <<o>>
      BY <1>3, <2>1 DEF Snapshot
    <3>3. IsSeq(drawn) /\ IsSeq(<<o>>) /\ Len(<<o>>) = 1
      BY <1>7, LeadsOne DEF Pictured, Leads
    <3>4. Len(drawn') = Len(drawn) + 1 /\ Len(drawn) \in Nat
      BY <3>2, <3>3, JoinSeqs
    <3>5. Pictured(drawn', d)
      BY <1>7, <3>1, <3>2, PicturedMore
    <3> QED
      BY <3>4, <3>5
  <2>2. CASE ~o.visible
    <3>1. d.image = b.image
      BY <1>5, <2>2 DEF Painted
    <3>2. drawn' = drawn
      <4>1. PICK S : drawn \in Seq(S)
        BY <1>7 DEF Pictured, IsSeq
      <4>2. drawn' = drawn \o <<>>
        BY <1>3, <2>2 DEF Snapshot
      <4> QED
        BY <4>1, <4>2, ConcatEmptySeq
    <3>3. Len(drawn) \in Nat
      BY <1>7 DEF Pictured, IsSeq
    <3> QED
      BY <1>7, <3>1, <3>2, <3>3 DEF Pictured
  <2> QED
    BY <2>1, <2>2
<1>9. ResultOK(todo', awaiting', d)
  BY <1>1, <1>2, <1>3, <1>5 DEF Mirrors, ResultOK, Painted
<1>10. WindowOK(objects', todo', gw', awaiting', d)
  BY <1>1, <1>2, <1>3, <1>5 DEF Mirrors, WindowOK, Painted
<1>11. Own'
  <2>1. Len(drawn) \in Nat
    BY <1>7 DEF Pictured, IsSeq
  <2>2. Len(drawn') \in Nat
    BY <1>8 DEF Pictured, IsSeq
  <2>3. Len(drawn') <= MaxDrawn
    BY <1>3, <1>8, <2>1, <2>2, BoundsAssumption
  <2> QED
    BY <1>3, <2>3 DEF IInv, Own, backEndVars
<1>12. SameObjects(objects', todo', restacked', d.table) /\ QuestionOK(objects', todo', gw')
  BY <1>1, <1>2, <1>3, <1>5 DEF Mirrors, Painted
<1>13. Mirrors(d)'
  BY <1>5, <1>8, <1>9, <1>10, <1>12 DEF Mirrors, Painted
<1> QED
  BY <1>6, <1>11, <1>13 DEF IInv

\* draw: the snapshot in C and the painted object are alike.
LEMMA DrawingObjects ==
    ASSUME IInv, UNCHANGED backEndVars, NEW g \in DOMAIN objects, draw(g)
    PROVE  IInv'
<1>1. PICK o, k, s : o = objects[g] /\ k = drawOp(g) /\ s = <<k>> /\ Draw(o, s)
  BY DEF draw
<1>2. IsSeq(s) /\ Len(s) = 1 /\ s[1] = k
  BY <1>1, LeadsOne DEF Leads
<1>3. \A i \in 1..Len(s) : Proper(s[i]) /\ Silent(s[i])
  BY <1>1, <1>2, DrawIsProper
<1>4. May("draw") /\ ObjectOK(o) /\ o.type \notin InteractorType
  BY <1>1, LiveObjects DEF draw, Of, FillableType, InteractorType
<1>5. ASSUME NEW b, IsBackEnd(b), b.canvas # Null, SameObjects(objects, <<>>, restacked, b.table)
      PROVE  \E d : Leads(b, s, d) /\ Painted(objects, restacked, b, d, o)
  <2>img. ~Unreadable(o)
    BY <1>1 DEF draw, Of, Unreadable, FillableType
  <2>1. Known(b, g) /\ Agree(o, b.table[g])
    BY <1>1, <1>5, <2>img, NothingPending DEF SameObjects, AllAgree, Known, NonePending
  <2>2. Painted(objects, restacked, b, Handle(b, k), o)
    BY <1>1, <1>4, <1>5, <2>1, Paints
  <2> QED
    BY <1>1, <2>2, LeadsOne
<1>6. Len(s) <= 5
  BY <1>2
<1> QED
  BY ONLY <1>1, <1>2, <1>3, <1>4, <1>5, <1>6, IInv, UNCHANGED backEndVars, Drawing

\* Commands about the address of the shape, of which no object is left, and then
\* the one that paints it.
Modest(k) == Proper(k) /\ Silent(k)

\* Modest commands, one list after another.
LEMMA JoinModest ==
    ASSUME NEW s, NEW t, IsSeq(s), IsSeq(t),
           \A i \in 1..Len(s) : Modest(s[i]), \A i \in 1..Len(t) : Modest(t[i])
    PROVE  /\ IsSeq(s \o t) /\ Len(s \o t) = Len(s) + Len(t)
           /\ \A i \in 1..Len(s \o t) : Modest((s \o t)[i])
<1>1. /\ IsSeq(s \o t) /\ Len(s \o t) = Len(s) + Len(t)
      /\ Len(s) \in Nat /\ Len(t) \in Nat
      /\ \A i \in 1..Len(s) : (s \o t)[i] = s[i]
      /\ \A i \in 1..Len(t) : (s \o t)[Len(s) + i] = t[i]
  BY JoinSeqs
<1>2. ASSUME NEW i \in 1..Len(s \o t) PROVE Modest((s \o t)[i])
  <2>1. CASE i <= Len(s)
    BY <2>1, <1>1
  <2>2. CASE ~(i <= Len(s))
    <3>1. i - Len(s) \in 1..Len(t) /\ Len(s) + (i - Len(s)) = i
      BY <2>2, <1>1
    <3> QED
      BY <3>1, <1>1
  <2> QED
    BY <2>1, <2>2
<1> QED
  BY <1>1, <1>2

\* One modest command; ...
LEMMA OneModest ==
    ASSUME NEW k, Modest(k), NEW s, s = <<k>>
    PROVE  IsSeq(s) /\ Len(s) = 1 /\ \A i \in 1..Len(s) : Modest(s[i])
<1>1. IsSeq(s) /\ Len(s) = 1 /\ s[1] = k
  BY LeadsOne DEF Leads
<1> QED
  BY <1>1

\* ... two.
LEMMA TwoModest ==
    ASSUME NEW k, NEW l, Modest(k), Modest(l), NEW s, s = <<k, l>>
    PROVE  IsSeq(s) /\ Len(s) = 2 /\ \A i \in 1..Len(s) : Modest(s[i])
<1>1. IsSeq(s) /\ Len(s) = 2 /\ s[1] = k /\ s[2] = l
  BY LeadsTwo DEF Leads
<1>2. \A i \in 1..2 : i = 1 \/ i = 2
  OBVIOUS
<1> QED
  BY <1>1, <1>2

\* One update by which the object at g follows c.
LEMMA UpdateFollows ==
    ASSUME NEW b, NEW g, IsBackEnd(b), Known(b, g), NEW c, ObjectOK(c), Agree(c, b.table[g]),
           NEW types, c.type \in types, c.type \in FillableType, NEW fields, FieldsOK(fields),
           NEW k, \A e : Handle(e, k) = Update(e, g, types, fields)
    PROVE  LET d == Handle(b, k)
           IN  /\ Edits(b, d, g) /\ Known(d, g) /\ Agree(fields ++ c, d.table[g])
               /\ ObjectOK(fields ++ c) /\ (fields ++ c).type = c.type
               /\ d.table[g].parent = b.table[g].parent
<1>1. PICK d, j : d = Update(b, g, types, fields) /\ j = b.table[g] /\ d = Handle(b, k)
  OBVIOUS
<1>2. j.type = c.type /\ c.type # "GLabel"
  BY <1>1 DEF Agree, FillableType
<1>3. Edits(b, d, g) /\ Known(d, g) /\ d.table[g] = fields ++ j
  BY <1>1, <1>2, Updates
<1>4. Agree(fields ++ c, fields ++ j)
  BY <1>1, <1>2, SameFieldsSet
<1>5. ObjectOK(fields ++ c) /\ (fields ++ c).type = c.type
  BY FieldsOfC
<1>6. (fields ++ j).parent = j.parent
  BY <1>1, <1>2, FieldsOfJava DEF Agree
<1> QED
  BY <1>1, <1>3, <1>4, <1>5, <1>6

\* A shape is made, moved, filled or not, colored and drawn, at an address that is free again.
LEMMA DrawingShape ==
    ASSUME IInv, UNCHANGED backEndVars, NEW op, May(op), NEW g \in Free, NEW pt \in Points,
           NEW c0, NEW j, ObjectOK(c0), c0.type \in FillableType, j.type = c0.type,
           Agree(c0, At(pt) ++ j), (At(pt) ++ j).parent = Null,
           NEW k, \A b : Handle(b, k) = defineGObject(b, g, j),
           NEW mid, NEW c1,
           \/ mid = <<>> /\ c1 = c0
           \/ mid = <<setFilledOp(g, TRUE)>> /\ c1 = [filled |-> TRUE] ++ c0,
           NEW o, o = [color |-> gw.color] ++ c1,
           NEW s, s = (<<k, setLocationOp(g, pt)>> \o mid) \o <<setColorOp(g, gw.color), drawOp(g)>>,
           Draw(o, s)
    PROVE  IInv'
<1> DEFINE l == setLocationOp(g, pt)
           m == setFilledOp(g, TRUE)
           n == setColorOp(g, gw.color)
           f1 == At(pt)
           f2 == [filled |-> TRUE]
           f3 == [color |-> gw.color]
<1>1. /\ \A b : Handle(b, l) = Update(b, g, AnyType, f1)
      /\ \A b : Handle(b, m) = Update(b, g, FillableType, f2)
      /\ \A b : Handle(b, n) = Update(b, g, AnyType, f3)
  BY DEF Handle, setLocationOp, setFilledOp, setColorOp, Command, GObject_setLocation,
         GObject_setFilled, GObject_setColor, At
<1>2. gw.color \in Colors \cup {"BLACK"}
  BY DEF IInv, Mirrors, WindowOK
<1>3. FieldsOK(f1) /\ FieldsOK(f2) /\ FieldsOK(f3)
  <2>1. DOMAIN f2 = {"filled"} /\ DOMAIN f3 = {"color"} /\ f3["color"] = gw.color
    OBVIOUS
  <2> HIDE DEF f1, f2, f3
  <2>2. FieldsOK(f2) /\ FieldsOK(f3)
    BY <1>2, <2>1 DEF FieldsOK, NotSet
  <2> QED
    BY <2>2, PointFields DEF f1
<1>4. /\ s = (<<k, l>> \o mid) \o <<n, drawOp(g)>> /\ o = f3 ++ c1
      /\ \/ mid = <<>> /\ c1 = c0
         \/ mid = <<m>> /\ c1 = f2 ++ c0
      /\ Agree(c0, f1 ++ j) /\ (f1 ++ j).parent = Null
  OBVIOUS
<1> HIDE DEF l, m, n, f1, f2, f3
<1>5. g \in Ids /\ g \notin DOMAIN objects /\ FillableType \subseteq AnyType
  BY DEF Free, AnyType
<1>6. Modest(k) /\ Modest(l) /\ Modest(m) /\ Modest(n) /\ Modest(drawOp(g))
  <2>1. EditsOnly(k, g)
    BY Defines DEF EditsOnly
  <2>2. EditsOnly(l, g) /\ EditsOnly(m, g) /\ EditsOnly(n, g)
    BY <1>1, UpdatingEditsOnly DEF Updating
  <2> QED
    BY <1>5, <2>1, <2>2, EditsOnlyIsProper, DrawIsProper DEF Modest
<1>7. PICK s1, s3 : s1 = <<k, l>> /\ s3 = <<n, drawOp(g)>> /\ s = (s1 \o mid) \o s3
  BY <1>4
<1>8. IsSeq(s) /\ Len(s) <= 5 /\ \A i \in 1..Len(s) : Modest(s[i])
  <2>1. IsSeq(s1) /\ Len(s1) = 2 /\ \A i \in 1..Len(s1) : Modest(s1[i])
    BY <1>6, <1>7, TwoModest
  <2>2. IsSeq(s3) /\ Len(s3) = 2 /\ \A i \in 1..Len(s3) : Modest(s3[i])
    BY <1>6, <1>7, TwoModest
  <2>3. IsSeq(mid) /\ Len(mid) \in 0..1 /\ \A i \in 1..Len(mid) : Modest(mid[i])
    <3>1. CASE mid = <<>>
      BY <3>1, LeadsNothing DEF Leads
    <3>2. CASE mid = <<m>>
      <4>1. IsSeq(mid) /\ Len(mid) = 1 /\ \A i \in 1..Len(mid) : Modest(mid[i])
        BY ONLY <3>2, <1>6, OneModest
      <4> QED
        BY ONLY <4>1
    <3> QED
      BY <3>1, <3>2, <1>4
  <2>4. PICK s2 : s2 = s1 \o mid /\ IsSeq(s2) /\ Len(s2) = Len(s1) + Len(mid)
                  /\ \A i \in 1..Len(s2) : Modest(s2[i])
    BY <2>1, <2>3, JoinModest
  <2>5. IsSeq(s2 \o s3) /\ Len(s2 \o s3) = Len(s2) + Len(s3)
        /\ \A i \in 1..Len(s2 \o s3) : Modest((s2 \o s3)[i])
    BY <2>2, <2>4, JoinModest
  <2>6. s = s2 \o s3
    BY ONLY <1>7, <2>4
  <2>7. Len(s2) + Len(s3) <= 5
    BY ONLY <2>1, <2>2, <2>3, <2>4
  <2> QED
    BY ONLY <2>5, <2>6, <2>7
<1>9. ASSUME NEW b, IsBackEnd(b), b.canvas # Null, SameObjects(objects, <<>>, restacked, b.table)
      PROVE  \E d : Leads(b, s, d) /\ Painted(objects, restacked, b, d, o)
  <2>1. PICK e1 : e1 = Handle(b, k) /\ Edits(b, e1, g) /\ Known(e1, g) /\ e1.table[g] = j
    BY <1>9, Defines
  <2>2. PICK e2 : e2 = Handle(e1, l) /\ Edits(e1, e2, g) /\ Known(e2, g)
                  /\ e2.table[g] = f1 ++ j /\ e2.table[g].parent = Null
    BY <1>1, <1>4, <1>5, <2>1, Updates DEF Edits
  <2>3. Leads(b, s1, e2) /\ Edits(b, e2, g) /\ Agree(c0, e2.table[g]) /\ IsBackEnd(e2)
    BY <1>4, <1>7, <2>1, <2>2, LeadsTwo, EditsTwice DEF Edits
  <2>4. PICK e3 : /\ Leads(e2, mid, e3) /\ Edits(e2, e3, g) /\ Known(e3, g)
                  /\ Agree(c1, e3.table[g]) /\ ObjectOK(c1) /\ c1.type = c0.type
                  /\ e3.table[g].parent = Null
    <3>1. CASE mid = <<>> /\ c1 = c0
      BY <2>2, <2>3, <3>1, LeadsNothing, EditsNothing
    <3>2. CASE mid = <<m>> /\ c1 = f2 ++ c0
      <4>1. PICK e3 : e3 = Handle(e2, m)
        OBVIOUS
      <4>2. /\ Edits(e2, e3, g) /\ Known(e3, g) /\ Agree(f2 ++ c0, e3.table[g])
            /\ ObjectOK(f2 ++ c0) /\ (f2 ++ c0).type = c0.type /\ e3.table[g].parent = Null
        BY <1>1, <1>3, <2>2, <2>3, <4>1, UpdateFollows
      <4> QED
        BY <3>2, <4>1, <4>2, LeadsOne
    <3> QED
      BY <1>4, <3>1, <3>2
  <2>5. PICK e4 : /\ e4 = Handle(e3, n) /\ Edits(e3, e4, g) /\ Known(e4, g)
                  /\ Agree(o, e4.table[g]) /\ ObjectOK(o) /\ o.type = c0.type
                  /\ e4.table[g].parent = Null
    <3>1. IsBackEnd(e3) /\ c1.type \in AnyType /\ c1.type \in FillableType
      BY <1>5, <2>4 DEF Edits
    <3>2. PICK e4 : e4 = Handle(e3, n)
      OBVIOUS
    <3>3. /\ Edits(e3, e4, g) /\ Known(e4, g) /\ Agree(f3 ++ c1, e4.table[g])
          /\ ObjectOK(f3 ++ c1) /\ (f3 ++ c1).type = c1.type /\ e4.table[g].parent = Null
      BY <1>1, <1>3, <2>4, <3>1, <3>2, UpdateFollows
    <3> QED
      BY <1>4, <2>4, <3>2, <3>3
  <2>6. Edits(b, e4, g)
    BY <2>3, <2>4, <2>5, EditsTwice
  <2>8. o.type \notin InteractorType
    BY <2>5 DEF FillableType, InteractorType
  <2>loose. Loose(e4.table[g])
    BY <2>5, <2>8 DEF Loose, Placed, Agree, JavaObjectOK
  <2>7. /\ IsBackEnd(e4) /\ e4.canvas = b.canvas /\ e4.image = b.image /\ e4.replies = b.replies
        /\ SameObjects(objects, <<>>, restacked, e4.table)
    BY <1>5, <1>9, <2>6, <2>loose, OtherAddress DEF Edits
  <2>9. PICK d : d = Handle(e4, drawOp(g)) /\ Painted(objects, restacked, e4, d, o)
    BY <1>9, <2>5, <2>7, <2>8, Paints
  <2>10. Painted(objects, restacked, b, d, o)
    BY <2>7, <2>9 DEF Painted
  <2>11. Leads(b, s1 \o mid, e3)
    BY <2>3, <2>4, LeadsOn
  <2>12. Leads(e3, s3, d)
    BY <1>7, <2>5, <2>9, LeadsTwo
  <2>13. Leads(b, s, d)
    BY ONLY <1>7, <2>11, <2>12, LeadsOn
  <2> QED
    BY <2>10, <2>13
<1>10. \A i \in 1..Len(s) : Proper(s[i]) /\ Silent(s[i])
  BY <1>8 DEF Modest
<1> QED
  BY ONLY <1>8, <1>9, <1>10, IInv, UNCHANGED backEndVars, May(op), Draw(o, s), Drawing

\* drawRect, drawOval, fillRect and fillOval: the shape is gone before the back
\* end has it.
LEMMA DrawingShapes ==
    ASSUME IInv, UNCHANGED backEndVars, NEW pt \in Points, NEW size \in Sizes,
           \/ drawOval(pt, size) \/ fillOval(pt, size)
           \/ drawRect(pt, size) \/ fillRect(pt, size)
    PROVE  IInv'
<1> DEFINE C(t) == (At(pt) ++ Sized(size)) ++ newGObject(t)
           J(t) == (NotFilled ++ OfSize(size)) ++ NewGObject(t)
           Create(t, g) == IF t = "GOval" THEN createGOvalOp(g, size) ELSE createGRectOp(g, size)
<1>1. ASSUME NEW t \in {"GRect", "GOval"}
      PROVE  /\ ObjectOK(C(t)) /\ C(t).type \in FillableType /\ J(t).type = C(t).type
             /\ Agree(C(t), At(pt) ++ J(t)) /\ (At(pt) ++ J(t)).parent = Null
             /\ \A g, b : Handle(b, Create(t, g)) = defineGObject(b, g, J(t))
  <2>1. t \in FillableType \ {"GPolygon"}
    BY DEF FillableType
  <2>2. PICK c, j : c = C(t) /\ j = J(t)
    OBVIOUS
  <2>3. /\ ObjectOK(c) /\ c.type = t /\ j.type = t /\ Agree(c, At(pt) ++ j)
        /\ (At(pt) ++ j).parent = Null
    BY <2>1, <2>2, ShapeMade
  <2>4. \A g, b : Handle(b, Create(t, g)) = defineGObject(b, g, J(t))
    BY DEF Handle, createGOvalOp, createGRectOp, Command, GOval_create, GRect_create
  <2> QED
    BY <2>1, <2>2, <2>3, <2>4
<1>2. ASSUME NEW t \in {"GRect", "GOval"}
      PROVE  /\ [color |-> gw.color, filled |-> TRUE] ++ C(t)
                    = [color |-> gw.color] ++ ([filled |-> TRUE] ++ C(t))
             /\ [color |-> gw.color, filled |-> FALSE] ++ C(t) = [color |-> gw.color] ++ C(t)
  <2> DEFINE c == C(t)
             f(e) == [color |-> gw.color, filled |-> e]
             f1 == [color |-> gw.color]
             f2 == [filled |-> TRUE]
  <2>1. "filled" \in DOMAIN c /\ c["filled"] = FALSE
    BY DEF newGObject, At, Sized, ++
  <2>2. /\ DOMAIN f(TRUE) = {"color", "filled"} /\ f(TRUE)["color"] = f1["color"]
        /\ f(TRUE)["filled"] = f2["filled"] /\ DOMAIN f1 = {"color"} /\ DOMAIN f2 = {"filled"}
        /\ DOMAIN f(FALSE) = {"color", "filled"} /\ f(FALSE)["color"] = f1["color"]
        /\ f(FALSE)["filled"] = FALSE
    OBVIOUS
  <2> HIDE DEF c, f, f1, f2
  <2>3. f(TRUE) ++ c = f1 ++ (f2 ++ c)
    BY <2>2 DEF ++
  <2>4. f(FALSE) ++ c = f1 ++ c
    BY <2>1, <2>2 DEF ++
  <2> QED
    BY <2>3, <2>4 DEF c, f, f1, f2
<1>3. ASSUME NEW t \in {"GRect", "GOval"}, NEW op, May(op),
             DrawShape(t, TRUE, pt, size) \/ DrawShape(t, FALSE, pt, size)
      PROVE  IInv'
  <2>1. PICK g, mid, c1, o, s :
            /\ g \in Free
            /\ \/ mid = <<>> /\ c1 = C(t)
               \/ mid = <<setFilledOp(g, TRUE)>> /\ c1 = [filled |-> TRUE] ++ C(t)
            /\ o = [color |-> gw.color] ++ c1
            /\ s = (<<Create(t, g), setLocationOp(g, pt)>> \o mid)
                       \o <<setColorOp(g, gw.color), drawOp(g)>>
            /\ Draw(o, s)
    <3>1. CASE DrawShape(t, TRUE, pt, size)
      <4>1. PICK g, o, s :
                /\ g \in Free
                /\ o = (([color |-> gw.color, filled |-> TRUE] ++ At(pt)) ++ Sized(size))
                           ++ newGObject(t)
                /\ s = (<<Create(t, g), setLocationOp(g, pt)>> \o <<setFilledOp(g, TRUE)>>)
                           \o <<setColorOp(g, gw.color), drawOp(g)>>
                /\ Draw(o, s)
        BY <3>1 DEF DrawShape
      <4>2. o = [color |-> gw.color, filled |-> TRUE] ++ C(t)
        BY <4>1, OneAfterTheOther
      <4>3. o = [color |-> gw.color] ++ ([filled |-> TRUE] ++ C(t))
        BY <4>2, <1>2
      <4> QED
        BY <4>1, <4>3
    <3>2. CASE DrawShape(t, FALSE, pt, size)
      <4>1. PICK g, o, s :
                /\ g \in Free
                /\ o = (([color |-> gw.color, filled |-> FALSE] ++ At(pt)) ++ Sized(size))
                           ++ newGObject(t)
                /\ s = (<<Create(t, g), setLocationOp(g, pt)>> \o <<>>)
                           \o <<setColorOp(g, gw.color), drawOp(g)>>
                /\ Draw(o, s)
        BY <3>2 DEF DrawShape
      <4>2. o = [color |-> gw.color, filled |-> FALSE] ++ C(t)
        BY <4>1, OneAfterTheOther
      <4>3. o = [color |-> gw.color] ++ C(t)
        BY <4>2, <1>2
      <4> QED
        BY <4>1, <4>3
    <3> QED
      BY <1>3, <3>1, <3>2
  <2>free. g \in Free
    BY <2>1
  <2>2. PICK c0, j, k : c0 = C(t) /\ j = J(t) /\ k = Create(t, g)
    OBVIOUS
  <2>3. /\ ObjectOK(c0) /\ c0.type \in FillableType /\ j.type = c0.type
        /\ Agree(c0, At(pt) ++ j) /\ (At(pt) ++ j).parent = Null
        /\ \A b : Handle(b, k) = defineGObject(b, g, j)
    BY <1>1, <1>3, <2>2
  <2>4. /\ \/ mid = <<>> /\ c1 = c0
           \/ mid = <<setFilledOp(g, TRUE)>> /\ c1 = [filled |-> TRUE] ++ c0
        /\ o = [color |-> gw.color] ++ c1
        /\ s = (<<k, setLocationOp(g, pt)>> \o mid) \o <<setColorOp(g, gw.color), drawOp(g)>>
        /\ Draw(o, s)
    BY <2>1, <2>2
  <2> QED
    BY ONLY <1>3, <2>3, <2>4, IInv, UNCHANGED backEndVars, <2>free, pt \in Points, DrawingShape
<1>4. /\ drawOval(pt, size) => May("drawOval") /\ DrawShape("GOval", FALSE, pt, size)
      /\ fillOval(pt, size) => May("fillOval") /\ DrawShape("GOval", TRUE, pt, size)
      /\ drawRect(pt, size) => May("drawRect") /\ DrawShape("GRect", FALSE, pt, size)
      /\ fillRect(pt, size) => May("fillRect") /\ DrawShape("GRect", TRUE, pt, size)
  BY DEF drawOval, fillOval, drawRect, fillRect
<1> QED
  BY <1>3, <1>4

\* drawLine makes and draws a line in its own color.
LEMMA DrawingLines ==
    ASSUME IInv, UNCHANGED backEndVars, NEW pt0 \in Points, NEW pt1 \in Points, drawLine(pt0, pt1)
    PROVE  IInv'
<1>1. PICK g, k, s, o :
          /\ g \in Free
          /\ k = createGLineOp(g, pt0, pt1) /\ s = <<k, drawOp(g)>>
          /\ o = LineFields(pt0, pt1) ++ newGObject("GLine") /\ Draw(o, s)
  BY DEF drawLine
<1>free. g \in Free
  BY <1>1
<1>2. May("drawLine") /\ g \in Ids /\ g \notin DOMAIN objects
  BY <1>free DEF drawLine, Free
<1>3. PICK j : j = OfLine(pt0, pt1) ++ NewGObject("GLine")
  OBVIOUS
<1>4. ObjectOK(o) /\ o.type = "GLine" /\ Agree(o, j) /\ j.parent = Null
  BY <1>1, <1>3, LineMade
<1>5. \A b : Handle(b, k) = defineGObject(b, g, j)
  BY <1>1, <1>3 DEF Handle, createGLineOp, Command, GLine_create
<1>6. IsSeq(s) /\ Len(s) = 2 /\ \A i \in 1..Len(s) : Modest(s[i])
  <2>1. EditsOnly(k, g)
    BY <1>5, Defines DEF EditsOnly
  <2>2. Modest(k) /\ Modest(drawOp(g))
    BY <1>2, <2>1, EditsOnlyIsProper, DrawIsProper DEF Modest
  <2> QED
    BY <1>1, <2>2, TwoModest
<1>7. ASSUME NEW b, IsBackEnd(b), b.canvas # Null, SameObjects(objects, <<>>, restacked, b.table)
      PROVE  \E d : Leads(b, s, d) /\ Painted(objects, restacked, b, d, o)
  <2>1. PICK e : e = Handle(b, k) /\ Edits(b, e, g) /\ Known(e, g) /\ e.table[g] = j
    BY <1>5, <1>7, Defines
  <2>loose. Loose(e.table[g])
    BY <1>4, <2>1 DEF Loose, Placed, Agree, JavaObjectOK, InteractorType
  <2>2. /\ IsBackEnd(e) /\ e.canvas = b.canvas /\ e.image = b.image /\ e.replies = b.replies
        /\ SameObjects(objects, <<>>, restacked, e.table)
    BY <1>2, <1>7, <2>1, <2>loose, OtherAddress DEF Edits
  <2>3. o.type \notin InteractorType /\ Agree(o, e.table[g])
    BY <1>4, <2>1 DEF InteractorType
  <2>4. PICK d : d = Handle(e, drawOp(g)) /\ Painted(objects, restacked, e, d, o)
    BY <1>4, <1>7, <2>1, <2>2, <2>3, Paints
  <2>5. Painted(objects, restacked, b, d, o)
    BY <2>2, <2>4 DEF Painted
  <2>6. Leads(b, s, d)
    BY <1>1, <2>1, <2>4, LeadsTwo
  <2> QED
    BY <2>5, <2>6
<1>8. (\A i \in 1..Len(s) : Proper(s[i]) /\ Silent(s[i])) /\ Len(s) <= 5
  BY <1>6 DEF Modest
<1> QED
  BY ONLY <1>1, <1>2, <1>6, <1>7, <1>8, IInv, UNCHANGED backEndVars, Drawing

\* The window is cleared, and nothing is drawn any more.
LEMMA Clearing ==
    ASSUME IInv, UNCHANGED backEndVars, clearGWindow
    PROVE  IInv'
<1>1. PICK b : Leads(backEnd, pipe, b) /\ Mirrors(b)
  BY DEF IInv
<1>2. /\ May("clear") /\ gw.top # Null /\ drawn' = <<>> /\ putPipe(<<clearOp>>)
      /\ UNCHANGED <<program, status, initialized, gw, objects, todo, restacked, replies, awaiting>>
  BY DEF clearGWindow, sentVars
<1>3. todo = <<>> /\ ~awaiting /\ IsBackEnd(b)
  BY <1>1, <1>2 DEF May, Mirrors
<1>4. b.canvas # Null
  BY <1>1, <1>2, <1>3 DEF Mirrors, WindowOK, WindowQuery
<1>5. \A e : Handle(e, clearOp) = GWindow_clear(e)
  BY DEF Handle, clearOp, Command
<1>6. ASSUME NEW e, IsBackEnd(e)
      PROVE  /\ IsBackEnd(GWindow_clear(e)) /\ GWindow_clear(e).replies = e.replies
             /\ GWindow_clear(e).table = e.table /\ GWindow_clear(e).canvas = e.canvas
             /\ e.canvas # Null => GWindow_clear(e).image = <<>>
  BY <1>6 DEF GWindow_clear, IsBackEnd
<1>7. Modest(clearOp)
  BY <1>5, <1>6 DEF Modest, Proper, Silent
<1>8. PICK s : s = <<clearOp>> /\ IsSeq(s) /\ Len(s) = 1 /\ \A i \in 1..Len(s) : Modest(s[i])
  BY <1>7, OneModest
<1>9. PICK d : d = Handle(b, clearOp) /\ Leads(b, s, d)
  BY <1>8, LeadsOne
<1>10. /\ IsBackEnd(d) /\ d.replies = b.replies /\ d.table = b.table /\ d.canvas = b.canvas
       /\ d.image = <<>>
  BY <1>3, <1>4, <1>5, <1>6, <1>9
<1>11. (\A i \in 1..Len(s) : Proper(s[i]) /\ Silent(s[i])) /\ Len(s) <= 5 /\ putPipe(s)
  BY <1>2, <1>8 DEF Modest
<1>12. PipeOK' /\ Leads(backEnd', pipe', d)
  BY <1>1, <1>2, <1>3, <1>8, <1>9, <1>11, Sending DEF IInv
<1>13. IsSeq(<<>>) /\ Len(<<>>) = 0
  BY LeadsNothing DEF Leads
<1>14. Pictured(drawn', d)
  BY <1>2, <1>10, <1>13 DEF Pictured
<1>15. Own'
  BY <1>2, <1>13, BoundsAssumption DEF IInv, Own, backEndVars
<1>16. Mirrors(d)'
  BY <1>1, <1>2, <1>3, <1>10, <1>14 DEF Mirrors, ResultOK, WindowOK
<1> QED
  BY <1>12, <1>15, <1>16 DEF IInv

-----------------------------------------------------------------------------
(* Lists of parts. *)
\* An element of a list has its place there.
LEMMA PlaceFound ==
    ASSUME NEW S, NEW s \in Seq(S), NEW g, Holds(s, g)
    PROVE  PlaceOf(s, g) \in 1..Len(s) /\ s[PlaceOf(s, g)] = g
BY DEF Holds, PlaceOf

\* The list without an element closes the gap.
LEMMA WithoutCloses ==
    ASSUME NEW S, NEW s \in Seq(S), NEW g, Holds(s, g)
    PROVE  /\ Without(s, g) \in Seq(S) /\ Len(Without(s, g)) = Len(s) - 1 /\ Len(s) \in Nat \ {0}
           /\ \A i \in 1..Len(s) - 1 :
                  Without(s, g)[i] = IF i < PlaceOf(s, g) THEN s[i] ELSE s[i + 1]
<1>1. PICK p : p = PlaceOf(s, g) /\ p \in 1..Len(s)
  BY PlaceFound
<1>2. PICK n \in Nat : n = Len(s) /\ p \in 1..n
  BY <1>1
<1>3. PICK u : u = SubSeq(s, 1, p - 1)
  OBVIOUS
<1>4. PICK v : v = SubSeq(s, p + 1, n)
  OBVIOUS
<1>5. u \in Seq(S) /\ Len(u) = p - 1 /\ \A i \in 1..p - 1 : u[i] = s[i]
  BY <1>2, <1>3
<1>6. v \in Seq(S) /\ Len(v) = n - p /\ \A i \in 1..n - p : v[i] = s[p + i]
  BY <1>2, <1>4
<1>7. Without(s, g) = u \o v
  BY <1>1, <1>2, <1>3, <1>4 DEF Without
<1>8. /\ u \o v \in Seq(S) /\ Len(u \o v) = n - 1
      /\ \A i \in 1..n - 1 : (u \o v)[i] = IF i < p THEN u[i] ELSE v[i - (p - 1)]
  <2>1. /\ u \o v \in Seq(S) /\ Len(u \o v) = Len(u) + Len(v)
        /\ \A i \in 1..Len(u) + Len(v) : (u \o v)[i] = IF i <= Len(u) THEN u[i] ELSE v[i - Len(u)]
    BY <1>5, <1>6, ConcatProperties
  <2>2. Len(u) + Len(v) = n - 1 /\ \A i \in 1..n - 1 : i <= Len(u) <=> i < p
    BY <1>2, <1>5, <1>6
  <2> QED
    BY <2>1, <2>2, <1>5
<1>9. ASSUME NEW i \in 1..n - 1 PROVE (u \o v)[i] = IF i < p THEN s[i] ELSE s[i + 1]
  <2>1. CASE i < p
    BY <2>1, <1>2, <1>5, <1>8
  <2>2. CASE ~(i < p)
    <3>1. i - (p - 1) \in 1..n - p /\ p + (i - (p - 1)) = i + 1
      BY <2>2, <1>2
    <3> QED
      BY <3>1, <2>2, <1>6, <1>8
  <2> QED
    BY <2>1, <2>2
<1> QED
  BY <1>1, <1>2, <1>7, <1>8, <1>9

\* An element that occurs once is gone, and no other.
LEMMA WithoutHolds ==
    ASSUME NEW S, NEW s \in Seq(S), Once(s), NEW g, Holds(s, g)
    PROVE  /\ Once(Without(s, g)) /\ Without(s, g) \in Seq(S \ {g})
           /\ \A h : Holds(Without(s, g), h) <=> Holds(s, h) /\ h # g
<1>1. PICK p : p = PlaceOf(s, g) /\ p \in 1..Len(s) /\ s[p] = g
  BY PlaceFound
<1>2. PICK n \in Nat, w \in Seq(S) :
          /\ n = Len(s) /\ w = Without(s, g) /\ Len(w) = n - 1 /\ n > 0
          /\ \A i \in 1..n - 1 : w[i] = IF i < p THEN s[i] ELSE s[i + 1]
  BY <1>1, WithoutCloses
<1>3. \A i, j \in 1..n : s[i] = s[j] => i = j
  BY <1>2 DEF Once
<1>4. Once(w)
  <2> SUFFICES ASSUME NEW i \in 1..n - 1, NEW j \in 1..n - 1, w[i] = w[j] PROVE i = j
    BY <1>2 DEF Once
  <2>1. i \in 1..n /\ j \in 1..n /\ i + 1 \in 1..n /\ j + 1 \in 1..n /\ p \in Int
    BY <1>1, <1>2
  <2>2. CASE i < p /\ j < p
    BY <2>1, <2>2, <1>2, <1>3
  <2>3. CASE i < p /\ ~(j < p)
    <3>1. s[i] = s[j + 1]
      BY <2>1, <2>3, <1>2
    <3>2. i = j + 1
      BY <3>1, <2>1, <1>3
    <3> QED
      BY <3>2, <2>1, <2>3
  <2>4. CASE ~(i < p) /\ j < p
    <3>1. s[i + 1] = s[j]
      BY <2>1, <2>4, <1>2
    <3>2. i + 1 = j
      BY <3>1, <2>1, <1>3
    <3> QED
      BY <3>2, <2>1, <2>4
  <2>5. CASE ~(i < p) /\ ~(j < p)
    <3>1. s[i + 1] = s[j + 1]
      BY <2>1, <2>5, <1>2
    <3>2. i + 1 = j + 1
      BY <3>1, <2>1, <1>3
    <3> QED
      BY <3>2, <2>1
  <2> QED
    BY <2>2, <2>3, <2>4, <2>5
<1>5. ASSUME NEW h, Holds(w, h) PROVE Holds(s, h) /\ h # g
  <2>1. PICK i \in 1..n - 1 : w[i] = h
    BY <1>2, <1>5 DEF Holds
  <2>2. i \in 1..n /\ i + 1 \in 1..n /\ p \in 1..n
    BY <1>1, <1>2
  <2>3. CASE i < p
    <3>1. h = s[i] /\ i # p
      BY <2>1, <2>2, <2>3, <1>2
    <3> QED
      BY <3>1, <2>2, <1>1, <1>2, <1>3 DEF Holds
  <2>4. CASE ~(i < p)
    <3>1. h = s[i + 1] /\ i + 1 # p
      BY <2>1, <2>2, <2>4, <1>2
    <3> QED
      BY <3>1, <2>2, <1>1, <1>2, <1>3 DEF Holds
  <2> QED
    BY <2>3, <2>4
<1>6. ASSUME NEW h, Holds(s, h), h # g PROVE Holds(w, h)
  <2>1. PICK i \in 1..n : s[i] = h
    BY <1>2, <1>6 DEF Holds
  <2>2. i # p /\ p \in 1..n
    BY <2>1, <1>1, <1>2, <1>6
  <2>3. CASE i < p
    <3>1. i \in 1..n - 1 /\ w[i] = h
      BY <2>1, <2>2, <2>3, <1>2
    <3> QED
      BY <3>1, <1>2 DEF Holds
  <2>4. CASE i > p
    <3>1. i - 1 \in 1..n - 1 /\ ~(i - 1 < p) /\ (i - 1) + 1 = i
      BY <2>1, <2>2, <2>4
    <3>2. w[i - 1] = h
      BY <3>1, <2>1, <1>2
    <3> QED
      BY <3>1, <3>2, <1>2 DEF Holds
  <2> QED
    BY <2>2, <2>3, <2>4
<1>7. w \in Seq(S \ {g})
  <2>1. ASSUME NEW i \in 1..Len(w) PROVE w[i] \in S \ {g}
    <3>1. Holds(w, w[i]) /\ w[i] \in S
      BY DEF Holds
    <3> QED
      BY <3>1, <1>5
  <2> QED
    BY <2>1, SeqOf
<1> QED
  BY <1>2, <1>4, <1>5, <1>6, <1>7

\* An element more, at the end or at the beginning.
LEMMA AppendHolds ==
    ASSUME NEW S, NEW s \in Seq(S), Once(s), NEW g, ~Holds(s, g)
    PROVE  /\ Once(Append(s, g)) /\ Append(s, g) \in Seq(S \cup {g})
           /\ Len(Append(s, g)) = Len(s) + 1
           /\ \A h : Holds(Append(s, g), h) <=> Holds(s, h) \/ h = g
<1>1. s \in Seq(S \cup {g})
  BY SeqMonotonic
<1>2. PICK n \in Nat, t \in Seq(S \cup {g}) :
          /\ n = Len(s) /\ t = Append(s, g) /\ Len(t) = n + 1 /\ t[n + 1] = g
          /\ \A i \in 1..n : t[i] = s[i]
  <2>1. g \in S \cup {g} /\ Len(s) \in Nat
    OBVIOUS
  <2>2. /\ Append(s, g) \in Seq(S \cup {g}) /\ Len(Append(s, g)) = Len(s) + 1
        /\ Append(s, g)[Len(s) + 1] = g
        /\ \A i \in 1..Len(s) : Append(s, g)[i] = s[i]
    BY ONLY <1>1, <2>1, AppendProperties
  <2> QED
    BY <2>1, <2>2
<1>3. \A i \in 1..n : s[i] # g
  BY <1>2 DEF Holds
<1>4. \A i \in 1..n + 1 : i \in 1..n \/ i = n + 1
  BY <1>2
<1>5. \A i, j \in 1..n : s[i] = s[j] => i = j
  BY <1>2 DEF Once
<1>6. Once(t)
  BY <1>2, <1>3, <1>4, <1>5 DEF Once
<1>7. n + 1 \in 1..n + 1 /\ \A i \in 1..n : i \in 1..n + 1
  BY <1>2
<1>8. \A h : Holds(t, h) <=> Holds(s, h) \/ h = g
  BY <1>2, <1>4, <1>7 DEF Holds
<1> QED
  BY <1>2, <1>6, <1>8

\* The same, put in front.
LEMMA PrependHolds ==
    ASSUME NEW S, NEW s \in Seq(S), Once(s), NEW g, ~Holds(s, g)
    PROVE  /\ Once(<<g>> \o s) /\ <<g>> \o s \in Seq(S \cup {g})
           /\ Len(<<g>> \o s) = Len(s) + 1
           /\ \A h : Holds(<<g>> \o s, h) <=> Holds(s, h) \/ h = g
<1>1. s \in Seq(S \cup {g}) /\ <<g>> \in Seq(S \cup {g})
  BY SeqMonotonic
<1>2. PICK n \in Nat, t \in Seq(S \cup {g}) :
          /\ n = Len(s) /\ t = <<g>> \o s /\ Len(t) = n + 1 /\ t[1] = g
          /\ \A i \in 1..n : t[i + 1] = s[i]
  <2>1. /\ Len(<<g>> \o s) = Len(s) + 1 /\ (<<g>> \o s)[1] = g /\ <<g>> \o s \in Seq(S \cup {g})
        /\ Len(s) \in Nat
    BY <1>1
  <2>2. \A i \in 1..Len(s) : (<<g>> \o s)[i + 1] = s[i]
    BY <1>1
  <2> QED
    BY <2>1, <2>2
<1>3. \A i \in 1..n : s[i] # g
  BY <1>2 DEF Holds
<1>4. \A i \in 1..n + 1 : i = 1 \/ (i - 1 \in 1..n /\ t[i] = s[i - 1])
  <2> SUFFICES ASSUME NEW i \in 1..n + 1, i # 1 PROVE i - 1 \in 1..n /\ t[i] = s[i - 1]
    OBVIOUS
  <2>1. i - 1 \in 1..n /\ (i - 1) + 1 = i
    BY <1>2
  <2> QED
    BY <2>1, <1>2
<1>5. \A i, j \in 1..n : s[i] = s[j] => i = j
  BY <1>2 DEF Once
<1>6. Once(t)
  <2> SUFFICES ASSUME NEW i \in 1..n + 1, NEW j \in 1..n + 1, t[i] = t[j] PROVE i = j
    BY <1>2 DEF Once
  <2>1. CASE i = 1 \/ j = 1
    BY <2>1, <1>2, <1>3, <1>4
  <2>2. CASE i # 1 /\ j # 1
    <3>1. i - 1 = j - 1
      BY <2>2, <1>4, <1>5
    <3> QED
      BY <3>1, <1>2
  <2> QED
    BY <2>1, <2>2
<1>7. 1 \in 1..n + 1 /\ \A i \in 1..n : i + 1 \in 1..n + 1
  BY <1>2
<1>8. \A h : Holds(t, h) <=> Holds(s, h) \/ h = g
  <2>1. ASSUME NEW h, Holds(t, h) PROVE Holds(s, h) \/ h = g
    <3>1. PICK i \in 1..n + 1 : t[i] = h
      BY <2>1, <1>2 DEF Holds
    <3> QED
      BY <3>1, <1>2, <1>4 DEF Holds
  <2>2. ASSUME NEW h, Holds(s, h) \/ h = g PROVE Holds(t, h)
    <3>1. CASE h = g
      BY <3>1, <1>2, <1>7 DEF Holds
    <3>2. CASE Holds(s, h)
      <4>1. PICK i \in 1..n : s[i] = h
        BY <3>2, <1>2 DEF Holds
      <4>2. t[i + 1] = h /\ i + 1 \in 1..Len(t)
        BY <4>1, <1>2, <1>7
      <4> QED
        BY <4>2 DEF Holds
    <3> QED
      BY <2>2, <3>1, <3>2
  <2> QED
    BY <2>1, <2>2
<1> QED
  BY <1>2, <1>6, <1>8

\* Two elements change places.
LEMMA SwappedHolds ==
    ASSUME NEW S, NEW s \in Seq(S), Once(s), NEW i \in 1..Len(s), NEW j \in 1..Len(s)
    PROVE  /\ Once(Swapped(s, i, j)) /\ Swapped(s, i, j) \in Seq(S)
           /\ Len(Swapped(s, i, j)) = Len(s)
           /\ \A h : Holds(Swapped(s, i, j), h) <=> Holds(s, h)
<1>1. PICK t : t = Swapped(s, i, j)
  OBVIOUS
<1>2. t = [[s EXCEPT ![i] = s[j]] EXCEPT ![j] = s[i]]
  BY <1>1 DEF Swapped
<1>3. [s EXCEPT ![i] = s[j]] \in Seq(S) /\ Len([s EXCEPT ![i] = s[j]]) = Len(s)
  BY ExceptSeq
<1>4. t \in Seq(S) /\ Len(t) = Len(s)
  BY <1>2, <1>3
<1>5. \A k \in 1..Len(s) : t[k] = IF k = j THEN s[i] ELSE IF k = i THEN s[j] ELSE s[k]
  BY <1>2, <1>3
<1>6. Once(t)
  BY <1>4, <1>5 DEF Once
<1>7. \A h : Holds(t, h) <=> Holds(s, h)
  <2>1. ASSUME NEW h, Holds(t, h) PROVE Holds(s, h)
    BY <2>1, <1>4, <1>5 DEF Holds
  <2>2. ASSUME NEW h, Holds(s, h) PROVE Holds(t, h)
    <3>1. PICK k \in 1..Len(s) : s[k] = h
      BY <2>2 DEF Holds
    <3>2. t[IF k = i THEN j ELSE IF k = j THEN i ELSE k] = h
      BY <3>1, <1>5
    <3>3. (IF k = i THEN j ELSE IF k = j THEN i ELSE k) \in 1..Len(t)
      BY <1>4
    <3> QED
      BY <3>2, <3>3 DEF Holds
  <2> QED
    BY <2>1, <2>2
<1> QED
  BY <1>1, <1>4, <1>6, <1>7

\* The same elements in another order.
Permuted(s, t) == t \in Seq(Ids) /\ Once(t) /\ \A g : Holds(t, g) <=> Holds(s, g)

\* What the four stacking commands make of a list.
LEMMA Rearranged ==
    ASSUME NEW s \in Seq(Ids), Once(s), NEW g \in Ids, Holds(s, g), NEW t,
           t \in {Forward(s, g), Backward(s, g), Append(Without(s, g), g), <<g>> \o Without(s, g)}
    PROVE  Permuted(s, t)
<1>1. PICK p : p = PlaceOf(s, g) /\ p \in 1..Len(s) /\ s[p] = g
  BY PlaceFound
<1>2. Permuted(s, s)
  BY DEF Permuted
<1>3. ASSUME NEW i \in 1..Len(s), NEW j \in 1..Len(s) PROVE Permuted(s, Swapped(s, i, j))
  BY SwappedHolds DEF Permuted
<1>4. Permuted(s, Forward(s, g))
  <2>1. CASE p = Len(s)
    BY <2>1, <1>1, <1>2 DEF Forward
  <2>2. CASE p # Len(s)
    <3>1. p + 1 \in 1..Len(s)
      BY <2>2, <1>1
    <3> QED
      BY <3>1, <2>2, <1>1, <1>3 DEF Forward
  <2> QED
    BY <2>1, <2>2
<1>5. Permuted(s, Backward(s, g))
  <2>1. CASE p = 1
    BY <2>1, <1>1, <1>2 DEF Backward
  <2>2. CASE p # 1
    <3>1. p - 1 \in 1..Len(s)
      BY <2>2, <1>1
    <3> QED
      BY <3>1, <2>2, <1>1, <1>3 DEF Backward
  <2> QED
    BY <2>1, <2>2
<1>6. PICK w \in Seq(Ids) : /\ w = Without(s, g) /\ Len(w) = Len(s) - 1 /\ Len(s) \in Nat
                            /\ Once(w) /\ \A h : Holds(w, h) <=> Holds(s, h) /\ h # g
  <2>1. /\ Without(s, g) \in Seq(Ids) /\ Len(Without(s, g)) = Len(s) - 1
        /\ Len(s) \in Nat
    BY WithoutCloses
  <2>2. /\ Once(Without(s, g)) /\ \A h : Holds(Without(s, g), h) <=> Holds(s, h) /\ h # g
    BY WithoutHolds
  <2> QED
    BY <2>1, <2>2
<1>7. Ids \cup {g} = Ids /\ ~Holds(w, g) /\ (Len(s) - 1) + 1 = Len(s)
  BY <1>6
<1>8. Permuted(s, Append(w, g))
  BY <1>6, <1>7, AppendHolds DEF Permuted
<1>9. Permuted(s, <<g>> \o w)
  BY <1>6, <1>7, PrependHolds DEF Permuted
<1> QED
  BY <1>4, <1>5, <1>6, <1>8, <1>9

-----------------------------------------------------------------------------
(* Objects sent forward and back. *)
\* A command on the children of a parent leaves everything else as it was.
LEMMA InParentEdits ==
    ASSUME NEW b, IsBackEnd(b), NEW g, NEW t, NEW d, d = InParent(b, g, t)
    PROVE  /\ IsBackEnd(d) /\ d.canvas = b.canvas /\ d.image = b.image /\ d.replies = b.replies
           /\ DOMAIN d.table = DOMAIN b.table
           /\ IF HasParent(b, g)
              THEN /\ \A h \in DOMAIN b.table \ {b.table[g].parent} : d.table[h] = b.table[h]
                   /\ b.table[g].parent \in DOMAIN b.table =>
                          d.table[b.table[g].parent]
                              = [children |-> t] ++ b.table[b.table[g].parent]
              ELSE d = b
<1>1. CASE HasParent(b, g)
  <2>1. PICK p : p = b.table[g].parent
    OBVIOUS
  <2>2. d = [b EXCEPT !.table[p] = [children |-> t] ++ @]
    BY <1>1, <2>1 DEF InParent, SetFields
  <2>3. /\ IsBackEnd(d) /\ d.canvas = b.canvas /\ d.image = b.image /\ d.replies = b.replies
        /\ d.table = [b.table EXCEPT ![p] = [children |-> t] ++ b.table[p]]
    BY <2>2 DEF IsBackEnd
  <2> QED
    BY <1>1, <2>1, <2>3
<1>2. CASE ~HasParent(b, g)
  BY <1>2 DEF InParent
<1> QED
  BY <1>1, <1>2

\* Changing the children of a parent touches neither the window nor the answers.
LEMMA InParentKeeps ==
    ASSUME NEW b, IsBackEnd(b), NEW g, NEW t, NEW d, d = InParent(b, g, t)
    PROVE  /\ IsBackEnd(d) /\ d.canvas = b.canvas /\ d.image = b.image /\ d.replies = b.replies
           /\ DOMAIN d.table = DOMAIN b.table
<1>1. CASE HasParent(b, g)
  <2>1. PICK p, fields : d = [b EXCEPT !.table[p] = fields ++ @]
    BY <1>1 DEF InParent, SetFields
  <2> QED
    BY <2>1 DEF IsBackEnd
<1>2. CASE ~HasParent(b, g)
  BY <1>2 DEF InParent
<1> QED
  BY <1>1, <1>2

\* The new list of children is an object's only new field.
LEMMA ChildrenSet ==
    ASSUME NEW j, NEW t, JavaObjectOK(j), j.type = "GCompound", NEW j2, j2 = [children |-> t] ++ j,
           NEW c, Agree(c, j), ObjectOK(c)
    PROVE  /\ JavaObjectOK(j2) /\ j2.type = j.type /\ j2.parent = j.parent /\ j2.children = t
           /\ Agree(c, j2)
<1>1. /\ DOMAIN j2 = {"children"} \cup DOMAIN j /\ j2.children = t
      /\ \A f \in DOMAIN j \ {"children"} : j2[f] = j[f]
  BY DEF ++
<1>2. /\ j2.type = j.type /\ j2.parent = j.parent
      /\ j.type \in InteractorType => j2.actionCommand = j.actionCommand
  BY <1>1 DEF JavaObjectOK
<1>3. JavaObjectOK(j2)
  BY <1>1, <1>2 DEF JavaObjectOK
<1>4. SameFields(c, j2)
  BY <1>1 DEF Agree, SameFields, ObjectOK
<1>5. Agree(c, j2)
  BY <1>1, <1>2, <1>3, <1>4 DEF Agree
<1> QED
  BY <1>1, <1>2, <1>3, <1>5

\* The children of one compound are put in another order.
LEMMA StackStep ==
    ASSUME NEW objs, NEW stacked, NEW table, SameObjects(objs, <<>>, stacked, table),
           NEW p \in Compounds(objs), NEW t, Permuted(table[p].children, t), NEW table2,
           DOMAIN table2 = DOMAIN table, \A h \in DOMAIN table \ {p} : table2[h] = table[h],
           table2[p] = [children |-> t] ++ table[p],
           NEW stacked2, stacked \subseteq stacked2, p \in stacked2
    PROVE  SameObjects(objs, <<>>, stacked2, table2)
<1>1. /\ \A h : ~Pending(<<>>, h)
      /\ p \in DOMAIN objs /\ p \in DOMAIN table /\ objs[p].type = "GCompound"
      /\ ObjectOK(objs[p]) /\ Agree(objs[p], table[p])
  BY NothingPending, CompoundsThere DEF NonePending, SameObjects, AllAgree
<1>2. /\ table2[p].parent = table[p].parent /\ table2[p].children = t /\ Agree(objs[p], table2[p])
      /\ KeepsPlace(table[p], table2[p])
  <2>1. PICK c, j : c = objs[p] /\ j = table[p]
    OBVIOUS
  <2>2. JavaObjectOK(j) /\ j.type = "GCompound" /\ Agree(c, j) /\ ObjectOK(c)
    BY <1>1, <2>1 DEF Agree
  <2>3. PICK j2 : j2 = [children |-> t] ++ j
    OBVIOUS
  <2>4. /\ JavaObjectOK(j2) /\ j2.type = j.type /\ j2.parent = j.parent /\ j2.children = t
        /\ Agree(c, j2)
    BY <2>2, <2>3, ChildrenSet
  <2>5. j2 = table2[p]
    BY <2>1, <2>3
  <2> QED
    BY <2>1, <2>4, <2>5 DEF KeepsPlace, Placed, JavaObjectOK
<1>3. AllAgree(objs, <<>>, table2)
  <2> SUFFICES ASSUME NEW h \in DOMAIN objs
               PROVE  /\ ObjectOK(objs[h])
                      /\ ~Pending(<<>>, h) /\ ~Unreadable(objs[h]) =>
                             h \in DOMAIN table2 /\ Agree(objs[h], table2[h])
    BY DEF AllAgree
  <2>1. /\ ObjectOK(objs[h])
        /\ ~Pending(<<>>, h) /\ ~Unreadable(objs[h]) =>
               h \in DOMAIN table /\ Agree(objs[h], table[h])
    BY DEF SameObjects, AllAgree
  <2>2. CASE h = p
    BY <2>1, <2>2, <1>1, <1>2
  <2>3. CASE h # p
    BY <2>1, <2>3
  <2> QED
    BY <2>2, <2>3
<1>4. ChildrenAgree(objs, stacked2, table2)
  <2> SUFFICES ASSUME NEW c \in Compounds(objs)
               PROVE  /\ SameParts(objs[c].contents, table2[c].children, DOMAIN table2)
                      /\ c \notin stacked2 =>
                             SameOrder(objs[c].contents, table2[c].children, DOMAIN table2)
    BY DEF ChildrenAgree
  <2>1. /\ SameParts(objs[c].contents, table[c].children, DOMAIN table)
        /\ c \notin stacked => SameOrder(objs[c].contents, table[c].children, DOMAIN table)
    BY DEF SameObjects, ChildrenAgree
  <2>2. CASE c = p
    BY <2>1, <2>2, <1>2 DEF SameParts, Permuted
  <2>3. CASE c # p
    <3>1. c \in DOMAIN table
      BY NothingPending, CompoundsThere
    <3> QED
      BY <2>1, <2>3, <3>1
  <2> QED
    BY <2>2, <2>3
<1>5. \A h \in DOMAIN table : KeepsPlace(table[h], table2[h])
  BY <1>2 DEF KeepsPlace, SameObjects, ParentsAgree
<1>6. ParentsAgree(objs, <<>>, table2)
  <2>1. NonePending(<<>>)
    BY NothingPending
  <2>2. ParentsAgree(objs, <<>>, table)
    BY DEF SameObjects
  <2> QED
    BY <1>5, <2>1, <2>2, SameParents
<1> QED
  BY <1>3, <1>4, <1>6 DEF SameObjects

\* The compound that holds an object is its parent.
LEMMA ParentHolds ==
    ASSUME NEW objs, NEW stacked, NEW b, SameObjects(objs, <<>>, stacked, b.table),
           NEW g \in DOMAIN objs, HasParent(b, g)
    PROVE  /\ b.table[g].parent \in Compounds(objs) /\ g \in Ids /\ g \in DOMAIN b.table
           /\ objs[g].type \notin InteractorType
           /\ Holds(objs[b.table[g].parent].contents, g)
           /\ Siblings(b, g) \in Seq(Ids) /\ Once(Siblings(b, g)) /\ Holds(Siblings(b, g), g)
<1>1. /\ b.table[g].parent \in Compounds(objs) /\ g \in Ids /\ g \in DOMAIN b.table
      /\ objs[g].type \notin InteractorType
      /\ Holds(objs[b.table[g].parent].contents, g)
  BY DEF SameObjects, ParentsAgree, HasParent, Known, ParentOK, Actor
<1>2. SameParts(objs[b.table[g].parent].contents, b.table[b.table[g].parent].children,
                DOMAIN b.table)
  BY <1>1 DEF SameObjects, ChildrenAgree
<1> QED
  BY <1>1, <1>2 DEF SameParts, Siblings

\* The operations that restack: the parent in Java has the same parts in another order.
LEMMA StackingStep ==
    ASSUME NEW objs, NEW stacked, NEW b, IsBackEnd(b), SameObjects(objs, <<>>, stacked, b.table),
           NEW g \in DOMAIN objs, NEW t,
           LET s == Siblings(b, g)
           IN  t \in {Forward(s, g), Backward(s, g), Append(Without(s, g), g), <<g>> \o Without(s, g)},
           NEW d, d = InParent(b, g, t),
           NEW stacked2,
           stacked2 = stacked \cup {c \in Compounds(objs) : Holds(objs[c].contents, g)}
    PROVE  SameObjects(objs, <<>>, stacked2, d.table)
<1>1. CASE HasParent(b, g)
  <2>1. PICK p, s : p = b.table[g].parent /\ s = Siblings(b, g)
    OBVIOUS
  <2>2. /\ p \in Compounds(objs) /\ g \in Ids /\ Holds(objs[p].contents, g)
        /\ s \in Seq(Ids) /\ Once(s) /\ Holds(s, g)
    BY <1>1, <2>1, ParentHolds
  <2>3. Permuted(s, t)
    BY <2>1, <2>2, Rearranged
  <2>4. s = b.table[p].children
    BY <2>1 DEF Siblings
  <2>5. p \in DOMAIN b.table
    BY <2>2, NothingPending, CompoundsThere
  <2>6. /\ DOMAIN d.table = DOMAIN b.table
        /\ \A h \in DOMAIN b.table \ {p} : d.table[h] = b.table[h]
        /\ d.table[p] = [children |-> t] ++ b.table[p]
    BY <1>1, <2>1, <2>5, InParentEdits
  <2>7. stacked \subseteq stacked2 /\ p \in stacked2
    BY <2>2
  <2> QED
    BY <2>2, <2>3, <2>4, <2>6, <2>7, StackStep
<1>2. CASE ~HasParent(b, g)
  <2>1. \A c \in Compounds(objs) : c \notin stacked2 => c \notin stacked
    OBVIOUS
  <2>2. d = b
    BY <1>2, InParentEdits
  <2>3. ChildrenAgree(objs, stacked2, b.table)
    BY <2>1 DEF SameObjects, ChildrenAgree
  <2> QED
    BY <2>2, <2>3 DEF SameObjects
<1> QED
  BY <1>1, <1>2

\* The command puts the children of the parent of g in another order.
Restacks(k, g) ==
    \A b : LET s == Siblings(b, g)
           IN \E t \in {Forward(s, g), Backward(s, g), Append(Without(s, g), g),
                        <<g>> \o Without(s, g)} :
                  Handle(b, k) = InParent(b, g, t)

\* A stacking operation.
LEMMA Restacking ==
    ASSUME IInv, UNCHANGED backEndVars, NEW name, NEW g \in DOMAIN objects, NEW k,
           Restack(name, g, k), Restacks(k, g)
    PROVE  IInv'
<1>1. PICK b : Leads(backEnd, pipe, b) /\ Mirrors(b)
  BY DEF IInv
<1>2. /\ May(name) /\ putPipe(<<k>>)
      /\ UNCHANGED <<program, status, initialized, gw, objects, todo, drawn, replies, awaiting>>
      /\ restacked' = restacked \cup {c \in Compounds(objects) : Holds(objects[c].contents, g)}
  <2>1. {c \in DOMAIN objects : objects[c].type = "GCompound"
                                /\ g \in {objects[c].contents[i] : i \in 1..Len(objects[c].contents)}}
        = {c \in Compounds(objects) : Holds(objects[c].contents, g)}
    BY DEF Compounds, Holds
  <2> QED
    BY <2>1 DEF Restack, sentVars
<1>3. /\ todo = <<>> /\ ~awaiting /\ SameObjects(objects, <<>>, restacked, b.table)
      /\ IsBackEnd(b)
  BY <1>1, <1>2 DEF May, Mirrors
<1>4. Modest(k)
  <2>1. ASSUME NEW e, IsBackEnd(e)
        PROVE  /\ IsBackEnd(Handle(e, k)) /\ Handle(e, k).replies = e.replies
               /\ DOMAIN Handle(e, k).table = DOMAIN e.table
    <3>1. PICK t : Handle(e, k) = InParent(e, g, t)
      BY DEF Restacks
    <3>2. PICK f : f = Handle(e, k)
      OBVIOUS
    <3>3. f = InParent(e, g, t)
      BY <3>1, <3>2
    <3> QED
      BY <2>1, <3>2, <3>3, InParentKeeps
  <2> QED
    BY <2>1 DEF Modest, Proper, Silent
<1>5. PICK s : s = <<k>> /\ IsSeq(s) /\ Len(s) = 1 /\ \A i \in 1..Len(s) : Modest(s[i])
  BY <1>4, OneModest
<1>6. PICK d : d = Handle(b, k) /\ Leads(b, s, d)
  BY <1>5, LeadsOne
<1>7. PICK t : /\ d = InParent(b, g, t)
               /\ t \in {Forward(Siblings(b, g), g), Backward(Siblings(b, g), g),
                         Append(Without(Siblings(b, g), g), g),
                         <<g>> \o Without(Siblings(b, g), g)}
  BY <1>6 DEF Restacks
<1>8. /\ IsBackEnd(d) /\ d.canvas = b.canvas /\ d.image = b.image /\ d.replies = b.replies
  BY <1>3, <1>7, InParentKeeps
<1>9. (\A i \in 1..Len(s) : Proper(s[i]) /\ Silent(s[i])) /\ Len(s) <= 5 /\ putPipe(s)
  BY <1>2, <1>5 DEF Modest
<1>10. PipeOK' /\ Leads(backEnd', pipe', d)
  BY <1>1, <1>2, <1>3, <1>5, <1>6, <1>9, Sending DEF IInv
<1>11. SameObjects(objects', todo', restacked', d.table)
  <2>1. SameObjects(objects, <<>>, restacked', d.table)
    BY <1>2, <1>3, <1>7, StackingStep
  <2> QED
    BY <1>2, <1>3, <2>1
<1>12. Own'
  BY <1>1, <1>2 DEF IInv, Own, backEndVars, Mirrors, SameObjects, Compounds
<1>13. Mirrors(d)'
  BY <1>1, <1>2, <1>3, <1>8, <1>11 DEF Mirrors, ResultOK, WindowOK, Pictured
<1> QED
  BY <1>10, <1>12, <1>13 DEF IInv

\* sendForward, sendToFront, sendBackward and sendToBack.
LEMMA StackingOperations ==
    ASSUME IInv, UNCHANGED backEndVars, NEW g \in DOMAIN objects,
           sendForward(g) \/ sendToFront(g) \/ sendBackward(g) \/ sendToBack(g)
    PROVE  IInv'
<1>1. CASE sendForward(g)
  <2>1. \A b : Handle(b, sendForwardOp(g)) = InParent(b, g, Forward(Siblings(b, g), g))
    BY DEF Handle, sendForwardOp, Command, GObject_sendForward
  <2>2. Restacks(sendForwardOp(g), g)
    BY <2>1 DEF Restacks
  <2> QED
    BY <1>1, <2>2, Restacking DEF sendForward
<1>2. CASE sendToFront(g)
  <2>1. \A b : Handle(b, sendToFrontOp(g))
               = InParent(b, g, Append(Without(Siblings(b, g), g), g))
    BY DEF Handle, sendToFrontOp, Command, GObject_sendToFront
  <2>2. Restacks(sendToFrontOp(g), g)
    BY <2>1 DEF Restacks
  <2> QED
    BY <1>2, <2>2, Restacking DEF sendToFront
<1>3. CASE sendBackward(g)
  <2>1. \A b : Handle(b, sendBackwardOp(g)) = InParent(b, g, Backward(Siblings(b, g), g))
    BY DEF Handle, sendBackwardOp, Command, GObject_sendBackward
  <2>2. Restacks(sendBackwardOp(g), g)
    BY <2>1 DEF Restacks
  <2> QED
    BY <1>3, <2>2, Restacking DEF sendBackward
<1>4. CASE sendToBack(g)
  <2>1. \A b : Handle(b, sendToBackOp(g))
               = InParent(b, g, <<g>> \o Without(Siblings(b, g), g))
    BY DEF Handle, sendToBackOp, Command, GObject_sendToBack
  <2>2. Restacks(sendToBackOp(g), g)
    BY <2>1 DEF Restacks
  <2> QED
    BY <1>4, <2>2, Restacking DEF sendToBack
<1> QED
  BY <1>1, <1>2, <1>3, <1>4

-----------------------------------------------------------------------------
(* Objects put into a compound and taken out. *)
\* The added element is behind the others.
LEMMA AppendBefore ==
    ASSUME NEW S, NEW s \in Seq(S), NEW g
    PROVE  \A h, k : Before(Append(s, g), h, k) <=>
                     Before(s, h, k) \/ (k = g /\ Holds(s, h))
<1>0. Len(s) \in Nat
  OBVIOUS
<1>1. PICK n \in Nat : n = Len(s)
  BY <1>0
<1>6. PICK t : t = Append(s, g)
  OBVIOUS
<1>2. /\ Len(t) = n + 1 /\ t[n + 1] = g /\ \A i \in 1..n : t[i] = s[i]
  BY <1>1, <1>6
<1>3. ASSUME NEW h, NEW k, Before(t, h, k) PROVE Before(s, h, k) \/ (k = g /\ Holds(s, h))
  <2>1. PICK i \in 1..n + 1, j \in 1..n + 1 : i < j /\ t[i] = h /\ t[j] = k
    BY <1>3, <1>2 DEF Before
  <2>2. i \in 1..n /\ s[i] = h
    BY <2>1, <1>2
  <2>3. CASE j = n + 1
    BY <2>1, <2>2, <2>3, <1>1, <1>2 DEF Holds
  <2>4. CASE j # n + 1
    <3>1. j \in 1..n /\ s[j] = k
      BY <2>1, <2>4, <1>2
    <3> QED
      BY <2>1, <2>2, <3>1, <1>1 DEF Before
  <2> QED
    BY <2>3, <2>4
<1>4. ASSUME NEW h, NEW k, Before(s, h, k) PROVE Before(t, h, k)
  <2>1. PICK i \in 1..n, j \in 1..n : i < j /\ s[i] = h /\ s[j] = k
    BY <1>4, <1>1 DEF Before
  <2>2. i \in 1..Len(t) /\ j \in 1..Len(t) /\ t[i] = h /\ t[j] = k
    BY <2>1, <1>2
  <2> QED
    BY <2>1, <2>2 DEF Before
<1>5. ASSUME NEW h, Holds(s, h) PROVE Before(t, h, g)
  <2>1. PICK i \in 1..n : s[i] = h
    BY <1>5, <1>1 DEF Holds
  <2>2. i \in 1..Len(t) /\ n + 1 \in 1..Len(t) /\ t[i] = h /\ i < n + 1
    BY <2>1, <1>2
  <2> QED
    BY <2>2, <1>2 DEF Before
<1> QED
  BY <1>3, <1>4, <1>5, <1>6

\* Without an element the others keep their order.
LEMMA WithoutBefore ==
    ASSUME NEW S, NEW s \in Seq(S), Once(s), NEW g, Holds(s, g)
    PROVE  \A h, k : Before(Without(s, g), h, k) <=>
                     Before(s, h, k) /\ h # g /\ k # g
<1>1. PICK p : p = PlaceOf(s, g) /\ p \in 1..Len(s) /\ s[p] = g
  BY PlaceFound
<1>2. PICK n \in Nat, w \in Seq(S) :
          /\ n = Len(s) /\ w = Without(s, g) /\ Len(w) = n - 1 /\ n > 0
          /\ \A i \in 1..n - 1 : w[i] = IF i < p THEN s[i] ELSE s[i + 1]
  BY <1>1, WithoutCloses
<1>3. \A h : Holds(w, h) => h # g
  BY <1>2, WithoutHolds
<1>4. ASSUME NEW h, NEW k, Before(w, h, k) PROVE Before(s, h, k) /\ h # g /\ k # g
  <2>1. PICK i \in 1..n - 1, j \in 1..n - 1 : i < j /\ w[i] = h /\ w[j] = k
    BY <1>4, <1>2 DEF Before
  <2>2. h # g /\ k # g
    BY <2>1, <1>2, <1>3 DEF Holds
  <2>3. PICK i2, j2 : i2 = (IF i < p THEN i ELSE i + 1) /\ j2 = (IF j < p THEN j ELSE j + 1)
    OBVIOUS
  <2>4. i2 \in 1..n /\ j2 \in 1..n /\ i2 < j2
    BY <2>1, <2>3, <1>1
  <2>5. s[i2] = h /\ s[j2] = k
    BY <2>1, <2>3, <1>2
  <2> QED
    BY <2>2, <2>4, <2>5, <1>2 DEF Before
<1>5. ASSUME NEW h, NEW k, Before(s, h, k), h # g, k # g PROVE Before(w, h, k)
  <2>1. PICK i \in 1..n, j \in 1..n : i < j /\ s[i] = h /\ s[j] = k
    BY <1>5, <1>2 DEF Before
  <2>2. i # p /\ j # p
    BY <2>1, <1>1, <1>5
  <2>3. PICK i2, j2 : i2 = (IF i < p THEN i ELSE i - 1) /\ j2 = (IF j < p THEN j ELSE j - 1)
    OBVIOUS
  <2>4. i2 \in 1..n - 1 /\ j2 \in 1..n - 1 /\ i2 < j2
    BY <2>1, <2>2, <2>3, <1>1, <1>2
  <2>5. /\ (IF i2 < p THEN i2 ELSE i2 + 1) = i /\ (IF j2 < p THEN j2 ELSE j2 + 1) = j
    BY <2>1, <2>2, <2>3, <1>1, <1>2
  <2>6. w[i2] = h /\ w[j2] = k
    BY <2>1, <2>4, <2>5, <1>2
  <2> QED
    BY <2>4, <2>6, <1>2 DEF Before
<1> QED
  BY <1>2, <1>4, <1>5

\* A part put into the list in C is put into the children if the back end knows it.
LEMMA PartMore ==
    ASSUME NEW s \in Seq(Ids), Once(s), NEW g \in Ids, ~Holds(s, g), NEW t, NEW known,
           SameParts(s, t, known), NEW t2, t2 = IF g \in known THEN Append(t, g) ELSE t
    PROVE  /\ SameParts(Append(s, g), t2, known)
           /\ SameOrder(s, t, known) => SameOrder(Append(s, g), t2, known)
<1>1. t \in Seq(Ids) /\ Once(t) /\ ~Holds(t, g)
  BY DEF SameParts
<1>2. \A h \in known : Holds(t, h) <=> Holds(s, h)
  <2>1. \A h : Holds(t, h) \/ Holds(s, h) => h \in Ids
    BY <1>1 DEF Holds
  <2> QED
    BY <2>1 DEF SameParts
<1>3. \A h : Holds(Append(s, g), h) <=> Holds(s, h) \/ h = g
  BY AppendHolds
<1>4. \A h, k : Before(Append(s, g), h, k) <=> Before(s, h, k) \/ (k = g /\ Holds(s, h))
  BY AppendBefore
<1>5. CASE g \in known
  <2>1. /\ Once(Append(t, g)) /\ Append(t, g) \in Seq(Ids \cup {g})
        /\ \A h : Holds(Append(t, g), h) <=> Holds(t, h) \/ h = g
    BY <1>1, AppendHolds
  <2>2. \A h, k : Before(Append(t, g), h, k) <=> Before(t, h, k) \/ (k = g /\ Holds(t, h))
    BY <1>1, AppendBefore
  <2>3. Ids \cup {g} = Ids /\ t2 = Append(t, g)
    BY <1>5
  <2>4. SameParts(Append(s, g), t2, known)
    BY <2>1, <2>3, <1>3, <1>5 DEF SameParts
  <2>5. SameOrder(s, t, known) => SameOrder(Append(s, g), t2, known)
    BY <2>2, <2>3, <1>2, <1>4 DEF SameOrder
  <2> QED
    BY <2>4, <2>5
<1>6. CASE g \notin known
  <2>1. SameParts(Append(s, g), t2, known)
    BY <1>3, <1>6 DEF SameParts
  <2>2. SameOrder(s, t, known) => SameOrder(Append(s, g), t2, known)
    BY <1>4, <1>6 DEF SameOrder
  <2> QED
    BY <2>1, <2>2
<1> QED
  BY <1>5, <1>6

\* A part taken out of the list in C is taken out of the children if it is there.
LEMMA PartLess ==
    ASSUME NEW s \in Seq(Ids), Once(s), NEW g \in Ids, Holds(s, g), NEW t, NEW known,
           SameParts(s, t, known), NEW t2, t2 = IF g \in known THEN Without(t, g) ELSE t
    PROVE  /\ SameParts(Without(s, g), t2, known)
           /\ SameOrder(s, t, known) => SameOrder(Without(s, g), t2, known)
<1>1. t \in Seq(Ids) /\ Once(t)
  BY DEF SameParts
<1>2. \A h : Holds(Without(s, g), h) <=> Holds(s, h) /\ h # g
  BY WithoutHolds
<1>3. \A h, k : Before(Without(s, g), h, k) <=> Before(s, h, k) /\ h # g /\ k # g
  BY WithoutBefore
<1>4. CASE g \in known
  <2>0. Holds(t, g) /\ t2 = Without(t, g)
    BY <1>4 DEF SameParts
  <2>1. Once(Without(t, g)) /\ \A h : Holds(Without(t, g), h) <=> Holds(t, h) /\ h # g
    BY ONLY <2>0, <1>1, WithoutHolds
  <2>2. Without(t, g) \in Seq(Ids)
    BY ONLY <2>0, <1>1, WithoutCloses
  <2>3. \A h, k : Before(Without(t, g), h, k) <=> Before(t, h, k) /\ h # g /\ k # g
    BY ONLY <2>0, <1>1, WithoutBefore
  <2>4. SameParts(Without(s, g), t2, known)
    BY <2>0, <2>1, <2>2, <1>2 DEF SameParts
  <2>5. SameOrder(s, t, known) => SameOrder(Without(s, g), t2, known)
    BY <2>0, <2>3, <1>3 DEF SameOrder
  <2> QED
    BY <2>4, <2>5
<1>5. CASE g \notin known
  <2>1. SameParts(Without(s, g), t2, known)
    BY <1>2, <1>5 DEF SameParts
  <2>2. SameOrder(s, t, known) => SameOrder(Without(s, g), t2, known)
    BY <1>3, <1>5 DEF SameOrder
  <2> QED
    BY <2>1, <2>2
<1> QED
  BY <1>4, <1>5

\* o2 is o with other values in the fields F.
But(o, o2, F) == DOMAIN o2 = DOMAIN o /\ \A f \in DOMAIN o \ F : o2[f] = o[f]
ButContents(c, c2) == But(c, c2, {"contents"})
ButPlace(j, j2) == But(j, j2, {"children", "parent"})

\* An object whose contents change stays what it is.
LEMMA ButOK ==
    ASSUME NEW c, ObjectOK(c), NEW c2, But(c, c2, {"contents"})
    PROVE  /\ ObjectOK(c2) /\ c2.type = c.type
           /\ Unreadable(c2) <=> Unreadable(c)
<1>1. ObjectOK(c2) /\ c2.type = c.type
  BY DEF But, ObjectOK, ObjectFields
<1>2. c.type = "GImage" => c2.filename = c.filename
  BY DEF But, ObjectOK
<1> QED
  BY <1>1, <1>2 DEF Unreadable

\* An object stays like the other if only what each of them alone has is set.
LEMMA ButAgree ==
    ASSUME NEW c, NEW j, ObjectOK(c), Agree(c, j), NEW c2, NEW j2,
           But(c, c2, {"contents"}), But(j, j2, {"children", "parent"})
    PROVE  Agree(c2, j2)
<1>1. c2.type = c.type
  BY ButOK
<1>2. JavaObjectOK(j2) /\ j2.type = j.type
  BY DEF Agree, But, JavaObjectOK
<1>3. SameFields(c2, j2)
  <2> SUFFICES ASSUME NEW f \in (DOMAIN c2 \cap DOMAIN j2) \ {"actionCommand"} PROVE c2[f] = j2[f]
    BY DEF SameFields
  <2>1. f \in DOMAIN c /\ f \in DOMAIN j
    BY DEF But
  <2>2. f \notin {"contents", "children", "parent"}
    BY <2>1 DEF Agree, JavaObjectOK, ObjectOK
  <2> QED
    BY <2>1, <2>2 DEF But, Agree, SameFields
<1>4. c.type \in InteractorType =>
          c2.actionCommand = c.actionCommand /\ j2.actionCommand = j.actionCommand
  <2> SUFFICES ASSUME c.type \in InteractorType
               PROVE  c2.actionCommand = c.actionCommand /\ j2.actionCommand = j.actionCommand
    OBVIOUS
  <2>1. "actionCommand" \in DOMAIN c /\ "actionCommand" \in DOMAIN j
    BY DEF ObjectOK, Agree, JavaObjectOK
  <2> QED
    BY <2>1 DEF But
<1> QED
  BY <1>1, <1>2, <1>3, <1>4 DEF Agree

\* A label that changes in its contents only, which it has not, stays measured.
LEMMA ButMeasured ==
    ASSUME NEW g, NEW c, NEW c2, ObjectOK(c), c.type = "GLabel", But(c, c2, {"contents"}),
           Measured(g, c, <<>>)
    PROVE  Measured(g, c2, <<>>)
<1>1. /\ c2.str = c.str /\ c2.font = c.font /\ c2.ascent = c.ascent /\ c2.descent = c.descent
      /\ c2.width = c.width /\ c2.height = c.height
  BY DEF But, ObjectOK, ObjectFields
<1> QED
  BY <1>1 DEF Measured

PartsMoved(objs, table, objs2, table2) ==
    /\ DOMAIN objs2 = DOMAIN objs /\ DOMAIN table2 = DOMAIN table
    /\ \A h \in DOMAIN objs : ButContents(objs[h], objs2[h])
    /\ \A h \in DOMAIN table : ButPlace(table[h], table2[h])
StillAgree(objs, objs2, table2) ==
    /\ AllAgree(objs2, <<>>, table2) /\ LabelsMeasured(objs2, <<>>)
    /\ Compounds(objs2) = Compounds(objs) /\ DOMAIN objs2 \subseteq Ids
    /\ \A h \in DOMAIN objs : objs2[h].type = objs[h].type

\* The contents of compounds change, and the children and parents with them.
LEMMA PartsStep ==
    ASSUME NEW objs, NEW stacked, NEW table, SameObjects(objs, <<>>, stacked, table),
           NEW objs2, NEW table2, PartsMoved(objs, table, objs2, table2)
    PROVE  StillAgree(objs, objs2, table2)
<1>0. /\ DOMAIN objs2 = DOMAIN objs /\ DOMAIN table2 = DOMAIN table
      /\ \A h \in DOMAIN objs : ButContents(objs[h], objs2[h])
      /\ \A h \in DOMAIN table : ButPlace(table[h], table2[h])
  BY DEF PartsMoved
<1>1. \A h \in DOMAIN objs :
          /\ ObjectOK(objs[h])
          /\ ~Unreadable(objs[h]) => h \in DOMAIN table /\ Agree(objs[h], table[h])
  BY NothingPending DEF SameObjects, AllAgree, NonePending
<1>2. ASSUME NEW h \in DOMAIN objs
      PROVE  /\ ObjectOK(objs2[h]) /\ objs2[h].type = objs[h].type
             /\ ~Unreadable(objs2[h]) => h \in DOMAIN table2 /\ Agree(objs2[h], table2[h])
  <2>1. PICK c, j, c2, j2 : c = objs[h] /\ j = table[h] /\ c2 = objs2[h] /\ j2 = table2[h]
    OBVIOUS
  <2>2. ObjectOK(c) /\ But(c, c2, {"contents"})
    BY <2>1, <1>0, <1>1 DEF ButContents
  <2>3. ObjectOK(c2) /\ c2.type = c.type /\ (Unreadable(c2) <=> Unreadable(c))
    BY <2>2, ButOK
  <2>4. ASSUME ~Unreadable(c) PROVE h \in DOMAIN table2 /\ Agree(c2, j2)
    <3>1. h \in DOMAIN table2 /\ Agree(c, j) /\ But(j, j2, {"children", "parent"})
      BY <2>1, <2>4, <1>0, <1>1 DEF ButPlace
    <3> QED
      BY <2>2, <3>1, ButAgree
  <2> QED
    BY <2>1, <2>3, <2>4
<1>3. AllAgree(objs2, <<>>, table2)
  BY <1>0, <1>2 DEF AllAgree
<1>4. LabelsMeasured(objs2, <<>>)
  <2> SUFFICES ASSUME NEW h \in DOMAIN objs, objs2[h].type = "GLabel"
               PROVE  Measured(h, objs2[h], <<>>)
    BY <1>0 DEF LabelsMeasured
  <2>1. PICK c, c2 : c = objs[h] /\ c2 = objs2[h]
    OBVIOUS
  <2>2. /\ ObjectOK(c) /\ c.type = "GLabel" /\ But(c, c2, {"contents"})
        /\ Measured(h, c, <<>>)
    BY <2>1, <1>0, <1>1, <1>2 DEF SameObjects, LabelsMeasured, ButContents
  <2> QED
    BY <2>1, <2>2, ButMeasured
<1>5. Compounds(objs2) = Compounds(objs)
  BY <1>0, <1>2 DEF Compounds
<1> QED
  BY <1>0, <1>2, <1>3, <1>4, <1>5 DEF SameObjects, StillAgree

\* g is in no compound; g is in c, from which it can be taken.
Inside(objs, c, g) == Holds(objs[c].contents, g) /\ objs[g].type \notin InteractorType

\* g is put into c, in C and in the back end.
Added(objs, objs2, c, g) ==
    /\ DOMAIN objs2 = DOMAIN objs /\ \A h \in DOMAIN objs \ {c} : objs2[h] = objs[h]
    /\ ButContents(objs[c], objs2[c]) /\ objs2[c].contents = Append(objs[c].contents, g)
AddedThere(objs, table, table2, c, g) ==
    IF g \in DOMAIN table
    THEN /\ DOMAIN table2 = DOMAIN table /\ \A h \in DOMAIN table \ {c, g} : table2[h] = table[h]
         /\ But(table[c], table2[c], {"children"})
         /\ table2[c].children = Append(table[c].children, g)
         /\ But(table[g], table2[g], {"parent"})
         /\ table2[g].parent = IF objs[g].type \in InteractorType THEN Null ELSE c
    ELSE table2 = table

\* An object that is in no compound is put into one.
LEMMA AddStep ==
    ASSUME NEW objs, NEW stacked, NEW table, SameObjects(objs, <<>>, stacked, table),
           NEW c \in Compounds(objs), NEW g \in DOMAIN objs, g # c,
           Alone(objs, g), NEW objs2, NEW table2, Added(objs, objs2, c, g),
           AddedThere(objs, table, table2, c, g)
    PROVE  SameObjects(objs2, <<>>, stacked, table2) /\ Compounds(objs2) = Compounds(objs)
<1> USE DEF Added, AddedThere, Alone
<1>1. /\ c \in DOMAIN table /\ c \in DOMAIN objs /\ objs[c].type = "GCompound"
      /\ c \in Ids /\ g \in Ids /\ \A h : ~Pending(<<>>, h)
  BY NothingPending, CompoundsThere DEF SameObjects, NonePending
<1>0. DOMAIN table2 = DOMAIN table
  OBVIOUS
<1>2. PartsMoved(objs, table, objs2, table2)
  <2>1. ASSUME NEW h \in DOMAIN table PROVE ButPlace(table[h], table2[h])
    BY <2>1 DEF But, ButPlace
  <2>2. ASSUME NEW h \in DOMAIN objs PROVE ButContents(objs[h], objs2[h])
    BY <2>2 DEF But, ButContents
  <2> QED
    BY <2>1, <2>2, <1>0 DEF PartsMoved
<1>3. /\ AllAgree(objs2, <<>>, table2) /\ LabelsMeasured(objs2, <<>>)
      /\ Compounds(objs2) = Compounds(objs) /\ DOMAIN objs2 \subseteq Ids
      /\ \A h \in DOMAIN objs : objs2[h].type = objs[h].type
  BY <1>2, PartsStep DEF StillAgree
<1>4. PICK s : /\ s = objs[c].contents /\ s \in Seq(DOMAIN objs \ {c}) /\ Once(s)
               /\ ~Holds(s, g)
  BY DEF SameObjects, ContentsOK
<1>5. /\ Once(Append(s, g)) /\ Append(s, g) \in Seq((DOMAIN objs \ {c}) \cup {g})
      /\ Len(Append(s, g)) = Len(s) + 1
      /\ \A h : Holds(Append(s, g), h) <=> Holds(s, h) \/ h = g
  BY <1>4, AppendHolds
<1>6. /\ \A d \in Compounds(objs) \ {c} : objs2[d].contents = objs[d].contents
      /\ \A d \in Compounds(objs) : \A h : h # g =>
              (Holds(objs2[d].contents, h) <=> Holds(objs[d].contents, h))
      /\ \A d \in Compounds(objs) : Holds(objs2[d].contents, g) <=> d = c
  <2>1. \A d \in Compounds(objs) \ {c} : objs2[d].contents = objs[d].contents
    BY DEF Compounds
  <2> QED
    BY <2>1, <1>4, <1>5
<1>7. ContentsOK(objs2)
  <2>1. (DOMAIN objs \ {c}) \cup {g} = DOMAIN objs2 \ {c}
    OBVIOUS
  <2>2. objs2[c].contents \in Seq(DOMAIN objs2 \ {c}) /\ Once(objs2[c].contents)
    BY <2>1, <1>4, <1>5
  <2>3. \A d \in Compounds(objs) \ {c} :
            objs2[d].contents \in Seq(DOMAIN objs2 \ {d}) /\ Once(objs2[d].contents)
    BY <1>6 DEF SameObjects, ContentsOK
  <2>4. \A d, e \in Compounds(objs), h \in DOMAIN objs :
            Holds(objs2[d].contents, h) /\ Holds(objs2[e].contents, h) => d = e
    <3> SUFFICES ASSUME NEW d \in Compounds(objs), NEW e \in Compounds(objs), NEW h \in DOMAIN objs,
                        Holds(objs2[d].contents, h), Holds(objs2[e].contents, h)
                 PROVE  d = e
      OBVIOUS
    <3>1. CASE h = g
      BY <3>1, <1>6
    <3>2. CASE h # g
      BY <3>2, <1>6 DEF SameObjects, ContentsOK
    <3> QED
      BY <3>1, <3>2
  <2> QED
    BY <2>2, <2>3, <2>4, <1>3 DEF ContentsOK
<1>8. ChildrenAgree(objs2, stacked, table2)
  <2> SUFFICES ASSUME NEW d \in Compounds(objs)
               PROVE  /\ SameParts(objs2[d].contents, table2[d].children, DOMAIN table)
                      /\ d \notin stacked =>
                             SameOrder(objs2[d].contents, table2[d].children, DOMAIN table)
    BY <1>0, <1>3 DEF ChildrenAgree
  <2>1. /\ SameParts(objs[d].contents, table[d].children, DOMAIN table)
        /\ d \notin stacked => SameOrder(objs[d].contents, table[d].children, DOMAIN table)
    BY DEF SameObjects, ChildrenAgree
  <2>2. CASE d = c
    <3>1. PICK t, t2 : t = table[c].children /\ t2 = table2[c].children
      OBVIOUS
    <3>2. t2 = IF g \in DOMAIN table THEN Append(t, g) ELSE t
      BY <3>1
    <3>3. s \in Seq(Ids) /\ SameParts(s, t, DOMAIN table)
      <4>1. DOMAIN objs \ {c} \subseteq Ids
        BY DEF SameObjects
      <4> QED
        BY <4>1, <3>1, <2>1, <2>2, <1>4, SeqMonotonic
    <3>4. /\ SameParts(Append(s, g), t2, DOMAIN table)
          /\ SameOrder(s, t, DOMAIN table) => SameOrder(Append(s, g), t2, DOMAIN table)
      BY <3>2, <3>3, <1>1, <1>4, PartMore
    <3> QED
      BY <2>1, <2>2, <3>1, <3>4, <1>4
  <2>3. CASE d # c
    <3>1. table2[d].children = table[d].children
      <4>1. d \in DOMAIN table /\ table[d].type = "GCompound" /\ "children" \in DOMAIN table[d]
        BY NothingPending, CompoundsThere DEF Agree, JavaObjectOK
      <4> QED
        BY <4>1, <2>3 DEF But
    <3> QED
      BY <2>1, <2>3, <3>1, <1>6
  <2> QED
    BY <2>2, <2>3
<1>9. ParentsAgree(objs2, <<>>, table2)
  <2> SUFFICES ASSUME NEW h \in DOMAIN table
               PROVE  /\ Placed(table2[h]) /\ ParentOK(objs2, h, table2[h].parent)
                      /\ table2[h].type \in InteractorType => Actor(objs2, h)
    BY <1>0, <1>1 DEF ParentsAgree
  <2>1. /\ Placed(table[h]) /\ ParentOK(objs, h, table[h].parent)
        /\ table[h].type \in InteractorType => Actor(objs, h)
    BY DEF SameObjects, ParentsAgree
  <2>2. Actor(objs2, h) <=> Actor(objs, h)
    BY <1>3, <1>0 DEF Actor
  <2>3. Placed(table2[h]) /\ table2[h].type = table[h].type
    BY <2>1 DEF But, Placed
  <2>4. CASE h = g
    <3>1. ParentOK(objs2, g, table2[g].parent)
      BY <2>4, <1>3, <1>6 DEF ParentOK, Actor
    <3> QED
      BY <2>1, <2>2, <2>3, <2>4, <3>1
  <2>5. CASE h # g
    <3>1. table2[h].parent = table[h].parent
      BY <2>1, <2>5 DEF But, Placed
    <3>2. Alone(objs2, h) <=> Alone(objs, h)
      BY <2>5, <1>3, <1>6 DEF Alone
    <3>3. \A p \in Compounds(objs) : Holds(objs2[p].contents, h) <=> Holds(objs[p].contents, h)
      BY <2>5, <1>6
    <3>4. ParentOK(objs2, h, table2[h].parent)
      BY <2>1, <2>2, <3>1, <3>2, <3>3, <1>3 DEF ParentOK
    <3> QED
      BY <2>1, <2>2, <2>3, <3>4
  <2> QED
    BY <2>4, <2>5
<1> QED
  BY <1>3, <1>7, <1>8, <1>9 DEF SameObjects

\* g is taken out of c, in C and in the back end.
Removed(objs, objs2, c, g) ==
    /\ DOMAIN objs2 = DOMAIN objs /\ \A h \in DOMAIN objs \ {c} : objs2[h] = objs[h]
    /\ ButContents(objs[c], objs2[c]) /\ objs2[c].contents = Without(objs[c].contents, g)
RemovedThere(table, table2, c, g) ==
    IF g \in DOMAIN table
    THEN /\ DOMAIN table2 = DOMAIN table /\ \A h \in DOMAIN table \ {c, g} : table2[h] = table[h]
         /\ But(table[c], table2[c], {"children"})
         /\ table2[c].children = Without(table[c].children, g)
         /\ But(table[g], table2[g], {"parent"}) /\ table2[g].parent = Null
    ELSE table2 = table

\* An object is taken out of the compound that it is in.
LEMMA RemoveStep ==
    ASSUME NEW objs, NEW stacked, NEW table, SameObjects(objs, <<>>, stacked, table),
           NEW c \in Compounds(objs), NEW g \in DOMAIN objs, g # c,
           Inside(objs, c, g),
           NEW objs2, NEW table2, Removed(objs, objs2, c, g), RemovedThere(table, table2, c, g)
    PROVE  SameObjects(objs2, <<>>, stacked, table2) /\ Compounds(objs2) = Compounds(objs)
<1> USE DEF Removed, RemovedThere, Inside
<1>1. /\ c \in DOMAIN table /\ c \in DOMAIN objs /\ objs[c].type = "GCompound"
      /\ c \in Ids /\ g \in Ids /\ \A h : ~Pending(<<>>, h)
  BY NothingPending, CompoundsThere DEF SameObjects, NonePending
<1>0. DOMAIN table2 = DOMAIN table
  OBVIOUS
<1>2. PartsMoved(objs, table, objs2, table2)
  <2>1. ASSUME NEW h \in DOMAIN table PROVE ButPlace(table[h], table2[h])
    BY <2>1 DEF But, ButPlace
  <2>2. ASSUME NEW h \in DOMAIN objs PROVE ButContents(objs[h], objs2[h])
    BY <2>2 DEF But, ButContents
  <2> QED
    BY <2>1, <2>2, <1>0 DEF PartsMoved
<1>3. /\ AllAgree(objs2, <<>>, table2) /\ LabelsMeasured(objs2, <<>>)
      /\ Compounds(objs2) = Compounds(objs) /\ DOMAIN objs2 \subseteq Ids
      /\ \A h \in DOMAIN objs : objs2[h].type = objs[h].type
  BY <1>2, PartsStep DEF StillAgree
<1>4. PICK s : /\ s = objs[c].contents /\ s \in Seq(DOMAIN objs \ {c}) /\ Once(s)
               /\ Holds(s, g)
  BY DEF SameObjects, ContentsOK
<1>5. PICK w : /\ w = Without(s, g) /\ Once(w) /\ w \in Seq((DOMAIN objs \ {c}) \ {g})
               /\ Len(w) = Len(s) - 1
               /\ \A h : Holds(w, h) <=> Holds(s, h) /\ h # g
  <2>1. PICK S : S = DOMAIN objs \ {c}
    OBVIOUS
  <2>2. s \in Seq(S) /\ Once(s) /\ Holds(s, g)
    BY <2>1, <1>4
  <2>3. /\ Once(Without(s, g)) /\ Without(s, g) \in Seq(S \ {g})
        /\ \A h : Holds(Without(s, g), h) <=> Holds(s, h) /\ h # g
    BY ONLY <2>2, WithoutHolds
  <2>4. Len(Without(s, g)) = Len(s) - 1
    BY ONLY <2>2, WithoutCloses
  <2> QED
    BY <2>1, <2>3, <2>4
<1>6. /\ \A d \in Compounds(objs) \ {c} : objs2[d].contents = objs[d].contents
      /\ \A d \in Compounds(objs) : \A h : h # g =>
              (Holds(objs2[d].contents, h) <=> Holds(objs[d].contents, h))
      /\ \A d \in Compounds(objs) : ~Holds(objs2[d].contents, g)
  <2>1. \A d \in Compounds(objs) \ {c} : objs2[d].contents = objs[d].contents
    BY DEF Compounds
  <2>2. \A d \in Compounds(objs) : Holds(objs[d].contents, g) => d = c
    BY DEF SameObjects, ContentsOK
  <2> QED
    BY <2>1, <2>2, <1>4, <1>5
<1>7. ContentsOK(objs2)
  <2>1. (DOMAIN objs \ {c}) \ {g} \subseteq DOMAIN objs2 \ {c}
    OBVIOUS
  <2>2. objs2[c].contents \in Seq(DOMAIN objs2 \ {c}) /\ Once(objs2[c].contents)
    BY <2>1, <1>4, <1>5, SeqMonotonic
  <2>3. \A d \in Compounds(objs) \ {c} :
            objs2[d].contents \in Seq(DOMAIN objs2 \ {d}) /\ Once(objs2[d].contents)
    BY <1>6 DEF SameObjects, ContentsOK
  <2>4. \A d, e \in Compounds(objs), h \in DOMAIN objs :
            Holds(objs2[d].contents, h) /\ Holds(objs2[e].contents, h) => d = e
    BY <1>6 DEF SameObjects, ContentsOK
  <2> QED
    BY <2>2, <2>3, <2>4, <1>3 DEF ContentsOK
<1>8. ChildrenAgree(objs2, stacked, table2)
  <2> SUFFICES ASSUME NEW d \in Compounds(objs)
               PROVE  /\ SameParts(objs2[d].contents, table2[d].children, DOMAIN table)
                      /\ d \notin stacked =>
                             SameOrder(objs2[d].contents, table2[d].children, DOMAIN table)
    BY <1>0, <1>3 DEF ChildrenAgree
  <2>1. /\ SameParts(objs[d].contents, table[d].children, DOMAIN table)
        /\ d \notin stacked => SameOrder(objs[d].contents, table[d].children, DOMAIN table)
    BY DEF SameObjects, ChildrenAgree
  <2>2. CASE d = c
    <3>1. PICK t, t2 : t = table[c].children /\ t2 = table2[c].children
      OBVIOUS
    <3>2. t2 = IF g \in DOMAIN table THEN Without(t, g) ELSE t
      BY <3>1
    <3>3. s \in Seq(Ids) /\ SameParts(s, t, DOMAIN table)
      <4>1. DOMAIN objs \ {c} \subseteq Ids
        BY DEF SameObjects
      <4> QED
        BY <4>1, <3>1, <2>1, <2>2, <1>4, SeqMonotonic
    <3>4. /\ SameParts(Without(s, g), t2, DOMAIN table)
          /\ SameOrder(s, t, DOMAIN table) => SameOrder(Without(s, g), t2, DOMAIN table)
      BY <3>2, <3>3, <1>1, <1>4, PartLess
    <3> QED
      BY <2>1, <2>2, <3>1, <3>4, <1>4, <1>5
  <2>3. CASE d # c
    <3>1. table2[d].children = table[d].children
      <4>1. d \in DOMAIN table /\ table[d].type = "GCompound" /\ "children" \in DOMAIN table[d]
        BY NothingPending, CompoundsThere DEF Agree, JavaObjectOK
      <4> QED
        BY <4>1, <2>3 DEF But
    <3> QED
      BY <2>1, <2>3, <3>1, <1>6
  <2> QED
    BY <2>2, <2>3
<1>9. ParentsAgree(objs2, <<>>, table2)
  <2> SUFFICES ASSUME NEW h \in DOMAIN table
               PROVE  /\ Placed(table2[h]) /\ ParentOK(objs2, h, table2[h].parent)
                      /\ table2[h].type \in InteractorType => Actor(objs2, h)
    BY <1>0, <1>1 DEF ParentsAgree
  <2>1. /\ Placed(table[h]) /\ ParentOK(objs, h, table[h].parent)
        /\ table[h].type \in InteractorType => Actor(objs, h)
    BY DEF SameObjects, ParentsAgree
  <2>2. Actor(objs2, h) <=> Actor(objs, h)
    BY <1>3, <1>0 DEF Actor
  <2>3. Placed(table2[h]) /\ table2[h].type = table[h].type
    BY <2>1 DEF But, Placed
  <2>4. CASE h = g
    <3>1. ParentOK(objs2, g, table2[g].parent)
      BY <2>4, <1>3, <1>6 DEF ParentOK, Actor, Alone
    <3> QED
      BY <2>1, <2>2, <2>3, <2>4, <3>1
  <2>5. CASE h # g
    <3>1. table2[h].parent = table[h].parent
      BY <2>1, <2>5 DEF But, Placed
    <3>2. Alone(objs2, h) <=> Alone(objs, h)
      BY <2>5, <1>3, <1>6 DEF Alone
    <3>3. \A p \in Compounds(objs) : Holds(objs2[p].contents, h) <=> Holds(objs[p].contents, h)
      BY <2>5, <1>6
    <3>4. ParentOK(objs2, h, table2[h].parent)
      BY <2>1, <2>2, <3>1, <3>2, <3>3, <1>3 DEF ParentOK
    <3> QED
      BY <2>1, <2>2, <2>3, <3>4
  <2> QED
    BY <2>4, <2>5
<1> QED
  BY <1>3, <1>7, <1>8, <1>9 DEF SameObjects

\* Fields of two objects are set.
LEMMA SetKeeps ==
    ASSUME NEW b, IsBackEnd(b), NEW g, NEW fields, NEW d, d = SetFields(b, g, fields)
    PROVE  /\ IsBackEnd(d) /\ d.canvas = b.canvas /\ d.image = b.image /\ d.replies = b.replies
           /\ DOMAIN d.table = DOMAIN b.table
           /\ \A h \in DOMAIN b.table \ {g} : d.table[h] = b.table[h]
           /\ g \in DOMAIN b.table => d.table[g] = fields ++ b.table[g]
BY DEF SetFields, IsBackEnd

\* Two objects edited, one after the other.
LEMMA TwoSet ==
    ASSUME NEW b, IsBackEnd(b), NEW c \in DOMAIN b.table, NEW g \in DOMAIN b.table, c # g,
           NEW f1, NEW f2, NEW d, d = SetFields(SetFields(b, c, f1), g, f2)
    PROVE  /\ IsBackEnd(d) /\ d.canvas = b.canvas /\ d.image = b.image /\ d.replies = b.replies
           /\ DOMAIN d.table = DOMAIN b.table
           /\ \A h \in DOMAIN b.table \ {c, g} : d.table[h] = b.table[h]
           /\ d.table[c] = f1 ++ b.table[c] /\ d.table[g] = f2 ++ b.table[g]
<1>1. PICK e : e = SetFields(b, c, f1) /\ d = SetFields(e, g, f2)
  OBVIOUS
<1>2. /\ IsBackEnd(e) /\ e.canvas = b.canvas /\ e.image = b.image /\ e.replies = b.replies
      /\ DOMAIN e.table = DOMAIN b.table
      /\ \A h \in DOMAIN b.table \ {c} : e.table[h] = b.table[h]
      /\ e.table[c] = f1 ++ b.table[c]
  BY <1>1, SetKeeps
<1>3. /\ IsBackEnd(d) /\ d.canvas = e.canvas /\ d.image = e.image /\ d.replies = e.replies
      /\ DOMAIN d.table = DOMAIN e.table
      /\ \A h \in DOMAIN e.table \ {g} : d.table[h] = e.table[h]
      /\ d.table[g] = f2 ++ e.table[g]
  BY <1>1, <1>2, SetKeeps
<1> QED
  BY <1>2, <1>3

\* The commands of compounds print nothing and are about objects that are there.
LEMMA CompoundCommands ==
    ASSUME NEW c, NEW g
    PROVE  Modest(addOp(c, g)) /\ Modest(removeOp(g))
<1>1. /\ \A b : Handle(b, addOp(c, g)) = GCompound_add(b, c, g)
      /\ \A b : Handle(b, removeOp(g)) = GObject_remove(b, g)
  BY DEF Handle, addOp, removeOp, Command
<1>2. ASSUME NEW b, IsBackEnd(b)
      PROVE  \E e : /\ e = Detached(b, g) /\ IsBackEnd(e) /\ e.replies = b.replies
                    /\ DOMAIN e.table = DOMAIN b.table
  <2>1. PICK e, t : e = Detached(b, g) /\ e = InParent(b, g, t)
    BY DEF Detached
  <2> QED
    BY <1>2, <2>1, InParentKeeps
<1>3. ASSUME NEW b, IsBackEnd(b), NEW d, d = GCompound_add(b, c, g)
      PROVE  IsBackEnd(d) /\ d.replies = b.replies /\ DOMAIN d.table = DOMAIN b.table
  <2>1. PICK e : /\ e = Detached(b, g) /\ IsBackEnd(e) /\ e.replies = b.replies
                 /\ DOMAIN e.table = DOMAIN b.table
    BY <1>2, <1>3
  <2>2. CASE Known(b, c) /\ Known(b, g)
    <3>1. PICK f1, f2, put : put = SetFields(e, c, f1) /\ d = SetFields(put, g, f2)
      BY <1>3, <2>1, <2>2 DEF GCompound_add
    <3>2. IsBackEnd(put) /\ put.replies = e.replies /\ DOMAIN put.table = DOMAIN e.table
      BY <2>1, <3>1, SetKeeps
    <3>3. IsBackEnd(d) /\ d.replies = put.replies /\ DOMAIN d.table = DOMAIN put.table
      BY <3>1, <3>2, SetKeeps
    <3> QED
      BY <2>1, <3>2, <3>3
  <2>3. CASE ~(Known(b, c) /\ Known(b, g))
    BY <1>3, <2>3 DEF GCompound_add
  <2> QED
    BY <2>2, <2>3
<1>4. ASSUME NEW b, IsBackEnd(b), NEW d, d = GObject_remove(b, g)
      PROVE  IsBackEnd(d) /\ d.replies = b.replies /\ DOMAIN d.table = DOMAIN b.table
  <2>1. PICK e : /\ e = Detached(b, g) /\ IsBackEnd(e) /\ e.replies = b.replies
                 /\ DOMAIN e.table = DOMAIN b.table
    BY <1>2, <1>4
  <2>2. CASE HasParent(b, g)
    <3>1. PICK f : d = SetFields(e, g, f)
      BY <1>4, <2>1, <2>2 DEF GObject_remove
    <3> QED
      BY <2>1, <3>1, SetKeeps
  <2>3. CASE ~HasParent(b, g)
    BY <1>4, <2>3 DEF GObject_remove
  <2> QED
    BY <2>2, <2>3
<1> QED
  BY <1>1, <1>3, <1>4 DEF Modest, Proper, Silent

\* The back end d has nothing else than other objects.
OtherObjects(b, d) ==
    IsBackEnd(d) /\ d.canvas = b.canvas /\ d.image = b.image /\ d.replies = b.replies

\* An operation on the contents of compounds.
LEMMA Recomposing ==
    ASSUME IInv, UNCHANGED backEndVars, NEW op, May(op), NEW s, NEW objs2, objects' = objs2,
           putPipe(s), IsSeq(s), Len(s) <= 5, \A i \in 1..Len(s) : Modest(s[i]),
           UNCHANGED <<status, initialized, todo>>, Quietly,
           Compounds(objs2) = Compounds(objects),
           \A b : IsBackEnd(b) /\ SameObjects(objects, <<>>, restacked, b.table) =>
                      \E d : /\ Leads(b, s, d) /\ OtherObjects(b, d)
                             /\ SameObjects(objs2, <<>>, restacked, d.table)
    PROVE  IInv'
<1>1. PICK b : Leads(backEnd, pipe, b) /\ Mirrors(b)
  BY DEF IInv
<1>2. /\ todo = <<>> /\ ~awaiting /\ SameObjects(objects, <<>>, restacked, b.table)
      /\ IsBackEnd(b)
      /\ UNCHANGED <<program, status, initialized, gw, todo, drawn, restacked, replies, awaiting>>
  BY <1>1 DEF May, Mirrors, Quietly, sentVars
<1>3. PICK d : /\ Leads(b, s, d) /\ OtherObjects(b, d)
               /\ SameObjects(objs2, <<>>, restacked, d.table)
  BY <1>2
<1>4. \A i \in 1..Len(s) : Proper(s[i]) /\ Silent(s[i])
  BY DEF Modest
<1>5. PipeOK' /\ Leads(backEnd', pipe', d)
  BY <1>1, <1>2, <1>3, <1>4, Sending DEF IInv
<1>6. Own'
  BY <1>2 DEF IInv, Own, backEndVars
<1>7. SameObjects(objects', todo', restacked', d.table) /\ QuestionOK(objects', todo', gw')
  BY <1>2, <1>3 DEF QuestionOK
<1>8. ResultOK(todo', awaiting', d) /\ Pictured(drawn', d)
  BY <1>1, <1>2, <1>3 DEF Mirrors, ResultOK, OtherObjects, Pictured
<1>9. WindowOK(objects', todo', gw', awaiting', d)
  BY <1>1, <1>2, <1>3 DEF Mirrors, WindowOK, OtherObjects
<1>10. Mirrors(d)'
  BY <1>3, <1>7, <1>8, <1>9 DEF Mirrors, OtherObjects
<1> QED
  BY <1>5, <1>6, <1>10 DEF IInv

\* The back end puts g into c where C does.
LEMMA AddFollows ==
    ASSUME NEW b, IsBackEnd(b), NEW objs, NEW stacked, SameObjects(objs, <<>>, stacked, b.table),
           NEW c \in Compounds(objs), NEW g \in DOMAIN objs, g # c,
           Alone(objs, g), NEW objs2, Added(objs, objs2, c, g), NEW d, d = Handle(b, addOp(c, g))
    PROVE  /\ OtherObjects(b, d) /\ SameObjects(objs2, <<>>, stacked, d.table)
           /\ Compounds(objs2) = Compounds(objs)
<1>1. /\ c \in DOMAIN b.table /\ "children" \in DOMAIN b.table[c]
  BY NothingPending, CompoundsThere DEF Agree, JavaObjectOK
<1>2. d = GCompound_add(b, c, g)
  BY DEF Handle, addOp, Command
<1>3. ASSUME g \in DOMAIN b.table
      PROVE  OtherObjects(b, d) /\ AddedThere(objs, b.table, d.table, c, g)
  <2>1. ~HasParent(b, g)
    <3>1. Placed(b.table[g]) /\ ParentOK(objs, g, b.table[g].parent)
      BY <1>3 DEF SameObjects, ParentsAgree
    <3> QED
      BY <3>1 DEF ParentOK, Alone, HasParent
  <2>2. /\ b.table[g].type \in InteractorType <=> objs[g].type \in InteractorType
        /\ "parent" \in DOMAIN b.table[g]
    <3>1. /\ Placed(b.table[g])
          /\ b.table[g].type \in InteractorType => objs[g].type \in InteractorType
      BY <1>3 DEF SameObjects, ParentsAgree, Actor
    <3>2. CASE Unreadable(objs[g])
      BY <3>1, <3>2 DEF Unreadable, InteractorType, Placed
    <3>3. CASE ~Unreadable(objs[g])
      <4>1. Agree(objs[g], b.table[g])
        BY <3>3, NothingPending DEF SameObjects, AllAgree, NonePending
      <4> QED
        BY <3>1, <4>1 DEF Agree, Placed
    <3> QED
      BY <3>2, <3>3
  <2>3. PICK f1, f2 : /\ f1 = [children |-> Append(b.table[c].children, g)]
                      /\ f2 = [parent |-> IF objs[g].type \in InteractorType THEN Null ELSE c]
    OBVIOUS
  <2>4. d = SetFields(SetFields(b, c, f1), g, f2)
    <3>1. Detached(b, g) = b
      BY <2>1 DEF Detached, InParent
    <3> QED
      BY <3>1, <2>2, <2>3, <1>1, <1>2, <1>3 DEF GCompound_add, Known
  <2>5. /\ IsBackEnd(d) /\ d.canvas = b.canvas /\ d.image = b.image /\ d.replies = b.replies
        /\ DOMAIN d.table = DOMAIN b.table
        /\ \A h \in DOMAIN b.table \ {c, g} : d.table[h] = b.table[h]
        /\ d.table[c] = f1 ++ b.table[c] /\ d.table[g] = f2 ++ b.table[g]
    BY <1>1, <1>3, <2>4, TwoSet
  <2>6. /\ But(b.table[c], d.table[c], {"children"})
        /\ d.table[c].children = Append(b.table[c].children, g)
        /\ But(b.table[g], d.table[g], {"parent"})
        /\ d.table[g].parent = IF objs[g].type \in InteractorType THEN Null ELSE c
    BY <1>1, <2>2, <2>3, <2>5 DEF But, ++
  <2> QED
    BY <1>3, <2>5, <2>6 DEF AddedThere, OtherObjects
<1>4. ASSUME g \notin DOMAIN b.table
      PROVE  OtherObjects(b, d) /\ AddedThere(objs, b.table, d.table, c, g)
  BY <1>2, <1>4 DEF GCompound_add, Known, AddedThere, OtherObjects
<1>5. OtherObjects(b, d) /\ AddedThere(objs, b.table, d.table, c, g)
  BY <1>3, <1>4
<1> QED
  BY <1>5, AddStep

\* What InCompound denies.
LEMMA NotInCompound ==
    ASSUME NEW g, ~InCompound(g)
    PROVE  Alone(objects, g)
BY DEF Alone, InCompound, Compounds, Holds

\* add.
LEMMA Adding ==
    ASSUME IInv, UNCHANGED backEndVars, NEW c \in DOMAIN objects, NEW g \in DOMAIN objects,
           addGCompound(c, g)
    PROVE  IInv'
<1>1. PICK k, fields, s : /\ k = addOp(c, g) /\ s = <<k>>
                          /\ fields = [contents |-> Append(objects[c].contents, g)]
                          /\ Change(c, fields, s)
  BY DEF addGCompound
<1>2. /\ May("add") /\ c \in Compounds(objects) /\ g # c
      /\ Alone(objects, g)
  BY NotInCompound DEF addGCompound, Of, MayContain, Compounds
<1>3. PICK objs2 : /\ objects' = objs2 /\ objs2 = [objects EXCEPT ![c] = fields ++ @]
                   /\ putPipe(s) /\ UNCHANGED <<status, initialized, todo>> /\ Quietly
  <2>1. todo = <<>>
    BY <1>2 DEF May
  <2> QED
    BY <1>1, <2>1 DEF Change, Ask
<1>4. Added(objects, objs2, c, g)
  <2>1. objs2[c] = fields ++ objects[c] /\ "contents" \in DOMAIN objects[c]
    BY <1>2, <1>3, LiveObjects DEF ObjectOK, Compounds
  <2>2. ButContents(objects[c], objs2[c]) /\ objs2[c].contents = Append(objects[c].contents, g)
    BY <2>1, <1>1 DEF ButContents, But, ++
  <2> QED
    BY <2>2, <1>3 DEF Added
<1>5. IsSeq(s) /\ Len(s) = 1 /\ \A i \in 1..Len(s) : Modest(s[i])
  BY <1>1, OneModest, CompoundCommands
<1>6. Compounds(objs2) = Compounds(objects)
  <2>1. \A h \in DOMAIN objects : objs2[h].type = objects[h].type
    BY <1>4, LiveObjects DEF Added, ButContents, But, ObjectOK, ObjectFields
  <2> QED
    BY <2>1, <1>4 DEF Added, Compounds
<1>7. ASSUME NEW b, IsBackEnd(b), SameObjects(objects, <<>>, restacked, b.table)
      PROVE  \E d : /\ Leads(b, s, d) /\ OtherObjects(b, d)
                    /\ SameObjects(objs2, <<>>, restacked, d.table)
  <2>1. PICK d : d = Handle(b, addOp(c, g)) /\ Leads(b, s, d)
    BY <1>1, LeadsOne
  <2>2. OtherObjects(b, d) /\ SameObjects(objs2, <<>>, restacked, d.table)
    BY <1>2, <1>4, <1>7, <2>1, AddFollows
  <2> QED
    BY <2>1, <2>2
<1>8. Len(s) <= 5
  BY <1>5
<1> QED
  BY ONLY IInv, UNCHANGED backEndVars, <1>2, <1>3, <1>5, <1>6, <1>7, <1>8, Recomposing

SameContents(objs, objs1) ==
    /\ Compounds(objs1) = Compounds(objs)
    /\ \A h \in Compounds(objs) : objs1[h].contents = objs[h].contents

\* C moves g in its objects objs, the back end b in its own.
Moving(b, objs, g, pt, e, objs1) ==
    e = Handle(b, setLocationOp(g, pt)) /\ objs1 = SetIn(objs, g, At(pt))

\* The back end moves g where C does.
LEMMA MoveFollows ==
    ASSUME NEW b, IsBackEnd(b), NEW objs, NEW stacked, SameObjects(objs, <<>>, stacked, b.table),
           NEW g \in DOMAIN objs, NEW pt \in Points, NEW e, NEW objs1,
           Moving(b, objs, g, pt, e, objs1)
    PROVE  /\ OtherObjects(b, e) /\ SameObjects(objs1, <<>>, stacked, e.table)
           /\ SameContents(objs, objs1)
<1>0. e = Handle(b, setLocationOp(g, pt)) /\ objs1 = SetIn(objs, g, At(pt))
  BY DEF Moving
<1>1. PICK c, fields : c = objs[g] /\ fields = At(pt) /\ ObjectOK(c)
  BY DEF SameObjects, AllAgree
<1>2. FieldsOK(fields) /\ DOMAIN fields = {"x", "y"}
  BY <1>1, PointFields
<1>3. e = Update(b, g, AnyType, fields)
  BY <1>0, <1>1 DEF Handle, setLocationOp, Command, GObject_setLocation, At
<1>4. /\ Edits(b, e, g) /\ DOMAIN e.table = DOMAIN b.table
      /\ Known(b, g) /\ Placed(b.table[g]) => KeepsPlace(b.table[g], e.table[g])
  BY <1>2, <1>3, KeepsAddresses
<1>5. /\ \A h \in DOMAIN b.table \ {g} : e.table[h] = b.table[h]
      /\ g \in DOMAIN b.table => KeepsPlace(b.table[g], e.table[g])
  BY <1>4 DEF Edits, Known, SameObjects, ParentsAgree
<1>6. /\ DOMAIN objs1 = DOMAIN objs /\ objs1[g] = fields ++ c
      /\ \A h \in DOMAIN objs \ {g} : objs1[h] = objs[h]
  BY <1>0, <1>1 DEF SetIn
<1>7. /\ ObjectOK(fields ++ c) /\ (fields ++ c).type = c.type
      /\ c.type = "GCompound" => (fields ++ c).contents = c.contents
      /\ Unreadable(fields ++ c) <=> Unreadable(c)
  BY <1>1, <1>2, FieldsOfC
<1>8. NonePending(<<>>) /\ \A h : Pending(<<>>, h) => h = g
  BY NothingPending DEF NonePending
<1>9. ASSUME Unreadable(c) PROVE SameObjects(objs1, <<>>, stacked, e.table)
  <2>1. Unreadable(objs[g]) /\ Unreadable(objs1[g]) /\ ObjectOK(objs1[g])
    BY <1>1, <1>6, <1>7, <1>9
  <2>2. <<>> \in {<<>>, <<>>}
    OBVIOUS
  <2>3. DOMAIN e.table = DOMAIN b.table
    BY <1>4
  <2> QED
    BY ONLY <1>5, <1>6, <1>8, <2>1, <2>2, <2>3, SameObjects(objs, <<>>, stacked, b.table),
            g \in DOMAIN objs, UnreadableStep
<1>10. ASSUME ~Unreadable(c) PROVE SameObjects(objs1, <<>>, stacked, e.table)
  <2>1. PICK j : j = b.table[g] /\ Agree(c, j) /\ Known(b, g)
    BY <1>1, <1>10, NothingPending DEF SameObjects, AllAgree, NonePending, Known
  <2>2. j.type = c.type /\ JavaObjectOK(j) /\ j.type \in AnyType
    BY <1>1, <2>1 DEF Agree, ObjectOK
  <2>3. e.table[g] = fields ++ j
    BY <1>3, <2>1, <2>2, Updates
  <2>4. Agree(fields ++ c, fields ++ j)
    BY <1>1, <1>2, <2>1, <2>2, SameFieldsSet
  <2>5. /\ (fields ++ j).parent = j.parent
        /\ j.type = "GCompound" => (fields ++ j).children = j.children
    BY <1>1, <1>2, <2>2, FieldsOfJava
  <2>6. Keeps(c, j, fields ++ c, fields ++ j)
    BY <1>7, <2>2, <2>4, <2>5 DEF Keeps
  <2>7. objs[g].type = "GLabel" => Measured(g, objs1[g], <<>>)
    <3> SUFFICES ASSUME c.type = "GLabel" PROVE Measured(g, fields ++ c, <<>>)
      BY <1>1, <1>6
    <3>1. Measured(g, c, <<>>)
      BY <1>1 DEF SameObjects, LabelsMeasured
    <3> QED
      BY <3>1, <1>1, <1>2, StaysMeasured
  <2>8. Keeps(objs[g], b.table[g], objs1[g], e.table[g]) /\ ~Unreadable(objs[g])
    BY <1>1, <1>6, <1>10, <2>1, <2>3, <2>6
  <2>9. /\ DOMAIN b.table \subseteq DOMAIN e.table
        /\ DOMAIN e.table \subseteq DOMAIN b.table \cup {g}
    BY <1>4
  <2>10. <<>> \in {<<>>, <<>>} \/ LabelQueries(<<>>, g)
    OBVIOUS
  <2> QED
    BY ONLY <1>5, <1>6, <1>8, <2>7, <2>8, <2>9, <2>10, SameObjects(objs, <<>>, stacked, b.table),
            g \in DOMAIN objs, ObjectStep
<1>11. SameObjects(objs1, <<>>, stacked, e.table)
  BY <1>9, <1>10
<1>12. \A h \in DOMAIN objs :
          /\ objs1[h].type = objs[h].type
          /\ objs[h].type = "GCompound" => objs1[h].contents = objs[h].contents
  BY <1>1, <1>6, <1>7
<1>13. /\ Compounds(objs1) = Compounds(objs)
       /\ \A h \in Compounds(objs) : objs1[h].contents = objs[h].contents
  BY <1>6, <1>12, CompoundsKept
<1> QED
  BY <1>4, <1>11, <1>13 DEF Edits, OtherObjects, SameContents

\* addAt.
LEMMA AddingAt ==
    ASSUME IInv, UNCHANGED backEndVars, NEW c \in DOMAIN objects, NEW g \in DOMAIN objects,
           NEW pt \in Points, addAt(c, g, pt)
    PROVE  IInv'
<1>1. PICK k1, k2, s : k1 = setLocationOp(g, pt) /\ k2 = addOp(c, g) /\ s = <<k1, k2>>
  OBVIOUS
<1>2. PICK objs2 : /\ objects' = objs2
                   /\ objs2 = [objects EXCEPT ![g] = At(pt) ++ @, ![c].contents = Append(@, g)]
                   /\ putPipe(s) /\ UNCHANGED <<status, initialized, todo>> /\ Quietly
  BY <1>1 DEF addAt
<1>3. /\ May("addAt") /\ c = gw.top /\ g # c
      /\ Alone(objects, g)
  BY NotInCompound DEF addAt
<1>4. c \in Compounds(objects)
  <2>1. gw.top # Null => gw.top \in Compounds(objects)
    BY DEF IInv, Mirrors, WindowOK
  <2>2. c # Null
    BY LiveObjects, IdsAssumption DEF Null
  <2> QED
    BY <2>1, <2>2, <1>3
<1>5. PICK objs1 : objs1 = SetIn(objects, g, At(pt))
  OBVIOUS
<1>6. DOMAIN objs1 = DOMAIN objects
  BY <1>5 DEF SetIn
<1>7. Added(objs1, objs2, c, g)
  <2>1. objs1[g] = At(pt) ++ objects[g] /\ \A h \in DOMAIN objects \ {g} : objs1[h] = objects[h]
    BY <1>5 DEF SetIn
  <2>2. /\ DOMAIN objs2 = DOMAIN objects /\ objs2[g] = At(pt) ++ objects[g]
        /\ \A h \in DOMAIN objects \ {g, c} : objs2[h] = objects[h]
    BY <1>2, <1>3
  <2>3. objs2[c] = [objects[c] EXCEPT !.contents = Append(@, g)]
    BY <1>2, <1>3
  <2>4. "contents" \in DOMAIN objects[c]
    BY <1>4, LiveObjects DEF ObjectOK, Compounds
  <2>5. ButContents(objects[c], objs2[c]) /\ objs2[c].contents = Append(objects[c].contents, g)
    BY <2>3, <2>4 DEF ButContents, But
  <2> QED
    BY <2>1, <2>2, <2>5, <1>3, <1>6 DEF Added
<1>8. IsSeq(s) /\ Len(s) = 2 /\ \A i \in 1..Len(s) : Modest(s[i])
  <2>1. Modest(k2)
    BY <1>1, CompoundCommands
  <2>2. Modest(k1)
    <3>1. \A b : Handle(b, k1) = Update(b, g, AnyType, [x |-> pt.x, y |-> pt.y])
      BY <1>1 DEF Handle, setLocationOp, Command, GObject_setLocation
    <3>2. Updating(k1, g)
      BY <3>1 DEF Updating
    <3> QED
      BY <3>2, UpdatingEditsOnly, EditsOnlyIsProper, LiveObjects DEF Modest
  <2> QED
    BY <2>1, <2>2, <1>1, TwoModest
<1>9. ASSUME NEW b, IsBackEnd(b), SameObjects(objects, <<>>, restacked, b.table)
      PROVE  \E d : /\ Leads(b, s, d) /\ OtherObjects(b, d)
                    /\ SameObjects(objs2, <<>>, restacked, d.table)
                    /\ Compounds(objs2) = Compounds(objects)
  <2>1. PICK e, d : e = Handle(b, k1) /\ d = Handle(e, k2) /\ Leads(b, s, d)
    BY <1>1, LeadsTwo
  <2>2. /\ OtherObjects(b, e) /\ SameObjects(objs1, <<>>, restacked, e.table)
        /\ Compounds(objs1) = Compounds(objects)
        /\ \A h \in Compounds(objects) : objs1[h].contents = objects[h].contents
    <3>1. e = Handle(b, setLocationOp(g, pt))
      BY <1>1, <2>1
    <3> QED
      <4>1. IsBackEnd(b) /\ SameObjects(objects, <<>>, restacked, b.table)
        BY <1>9
      <4>2. Moving(b, objects, g, pt, e, objs1) /\ g \in DOMAIN objects /\ pt \in Points
        BY <1>5, <3>1 DEF Moving
      <4>3. OtherObjects(b, e)
        BY ONLY <4>1, <4>2, MoveFollows
      <4>5. SameObjects(objs1, <<>>, restacked, e.table)
        BY ONLY <4>1, <4>2, MoveFollows
      <4>4. SameContents(objects, objs1)
        BY ONLY <4>1, <4>2, MoveFollows
      <4> QED
        BY ONLY <4>3, <4>4, <4>5 DEF SameContents
  <2>3. IsBackEnd(e) /\ Alone(objs1, g)
    BY <2>2, <1>3 DEF OtherObjects, Alone
  <2>4. c \in Compounds(objs1) /\ g \in DOMAIN objs1 /\ d = Handle(e, addOp(c, g))
    BY <1>1, <1>4, <1>6, <2>1, <2>2
  <2>5. OtherObjects(e, d) /\ SameObjects(objs2, <<>>, restacked, d.table)
        /\ Compounds(objs2) = Compounds(objs1)
    BY ONLY <1>3, <1>7, <2>2, <2>3, <2>4, AddFollows
  <2> QED
    BY <2>1, <2>2, <2>5 DEF OtherObjects
<1>10. Compounds(objs2) = Compounds(objects)
  <2>1. PICK b : Mirrors(b)
    BY DEF IInv
  <2>2. IsBackEnd(b) /\ SameObjects(objects, <<>>, restacked, b.table)
    BY <2>1, <1>3 DEF Mirrors, May
  <2> QED
    BY <2>2, <1>9
<1>11. Len(s) <= 5
  BY <1>8
<1> QED
  BY ONLY IInv, UNCHANGED backEndVars, <1>2, <1>3, <1>8, <1>9, <1>10, <1>11, Recomposing

\* The back end takes g out of c where C does.
LEMMA RemoveFollows ==
    ASSUME NEW b, IsBackEnd(b), NEW objs, NEW stacked, SameObjects(objs, <<>>, stacked, b.table),
           NEW c \in Compounds(objs), NEW g \in DOMAIN objs,
           Holds(objs[c].contents, g), objs[g].type \notin InteractorType,
           NEW objs2, Removed(objs, objs2, c, g), NEW d, d = Handle(b, removeOp(g))
    PROVE  /\ OtherObjects(b, d) /\ SameObjects(objs2, <<>>, stacked, d.table)
           /\ Compounds(objs2) = Compounds(objs)
<1>1. /\ c \in DOMAIN b.table /\ "children" \in DOMAIN b.table[c] /\ c \in Ids
  BY NothingPending, CompoundsThere DEF Agree, JavaObjectOK
<1>2. d = GObject_remove(b, g)
  BY DEF Handle, removeOp, Command
<1>3. g # c
  <2>1. PICK s : s = objs[c].contents /\ s \in Seq(DOMAIN objs \ {c}) /\ Holds(s, g)
    BY DEF SameObjects, ContentsOK
  <2> QED
    BY <2>1 DEF Holds
<1>4. ASSUME g \in DOMAIN b.table
      PROVE  OtherObjects(b, d) /\ RemovedThere(b.table, d.table, c, g)
  <2>1. /\ "parent" \in DOMAIN b.table[g] /\ b.table[g].parent \in Compounds(objs)
        /\ Holds(objs[b.table[g].parent].contents, g)
    <3>1. Placed(b.table[g]) /\ ParentOK(objs, g, b.table[g].parent) /\ ~Actor(objs, g)
      BY <1>4 DEF SameObjects, ParentsAgree, Actor
    <3>2. ~Alone(objs, g)
      BY DEF Alone
    <3> QED
      BY <3>1, <3>2 DEF ParentOK, Placed
  <2>2. b.table[g].parent = c
    BY <2>1 DEF SameObjects, ContentsOK
  <2>3. HasParent(b, g)
    BY <2>2, <1>1, <1>4, IdsAssumption DEF HasParent, Known, Null
  <2>4. PICK f1, f2 : f1 = [children |-> Without(b.table[c].children, g)] /\ f2 = [parent |-> Null]
    OBVIOUS
  <2>5. d = SetFields(SetFields(b, c, f1), g, f2)
    BY <1>2, <2>2, <2>3, <2>4 DEF GObject_remove, Detached, InParent, Siblings
  <2>6. /\ IsBackEnd(d) /\ d.canvas = b.canvas /\ d.image = b.image /\ d.replies = b.replies
        /\ DOMAIN d.table = DOMAIN b.table
        /\ \A h \in DOMAIN b.table \ {c, g} : d.table[h] = b.table[h]
        /\ d.table[c] = f1 ++ b.table[c] /\ d.table[g] = f2 ++ b.table[g]
    BY <1>1, <1>3, <1>4, <2>5, TwoSet
  <2>7. /\ But(b.table[c], d.table[c], {"children"})
        /\ d.table[c].children = Without(b.table[c].children, g)
        /\ But(b.table[g], d.table[g], {"parent"}) /\ d.table[g].parent = Null
    BY <1>1, <2>1, <2>4, <2>6 DEF But, ++
  <2> QED
    BY <1>4, <2>6, <2>7 DEF RemovedThere, OtherObjects
<1>5. ASSUME g \notin DOMAIN b.table
      PROVE  OtherObjects(b, d) /\ RemovedThere(b.table, d.table, c, g)
  BY <1>2, <1>5 DEF GObject_remove, HasParent, Known, RemovedThere, OtherObjects
<1>6. OtherObjects(b, d) /\ RemovedThere(b.table, d.table, c, g)
  BY <1>4, <1>5
<1>7. Inside(objs, c, g)
  BY DEF Inside
<1> QED
  BY <1>3, <1>6, <1>7, RemoveStep

\* remove.
LEMMA Removing ==
    ASSUME IInv, UNCHANGED backEndVars, NEW c \in DOMAIN objects, NEW g \in DOMAIN objects,
           removeGCompound(c, g)
    PROVE  IInv'
<1>1. PICK k, fields, s : /\ k = removeOp(g) /\ s = <<k>>
                          /\ fields = [contents |-> Without(objects[c].contents, g)]
                          /\ Change(c, fields, s)
  BY DEF removeGCompound
<1>2. /\ May("remove") /\ c \in Compounds(objects) /\ objects[g].type \notin InteractorType
      /\ Holds(objects[c].contents, g)
  BY DEF removeGCompound, Of, Compounds, Holds
<1>3. PICK objs2 : /\ objects' = objs2 /\ objs2 = [objects EXCEPT ![c] = fields ++ @]
                   /\ putPipe(s) /\ UNCHANGED <<status, initialized, todo>> /\ Quietly
  <2>1. todo = <<>>
    BY <1>2 DEF May
  <2> QED
    BY <1>1, <2>1 DEF Change, Ask
<1>4. Removed(objects, objs2, c, g)
  <2>1. objs2[c] = fields ++ objects[c] /\ "contents" \in DOMAIN objects[c]
    BY <1>2, <1>3, LiveObjects DEF ObjectOK, Compounds
  <2>2. ButContents(objects[c], objs2[c]) /\ objs2[c].contents = Without(objects[c].contents, g)
    BY <2>1, <1>1 DEF ButContents, But, ++
  <2> QED
    BY <2>2, <1>3 DEF Removed
<1>5. IsSeq(s) /\ Len(s) = 1 /\ \A i \in 1..Len(s) : Modest(s[i])
  BY <1>1, OneModest, CompoundCommands
<1>6. Compounds(objs2) = Compounds(objects)
  <2>1. \A h \in DOMAIN objects : objs2[h].type = objects[h].type
    BY <1>4, LiveObjects DEF Removed, ButContents, But, ObjectOK, ObjectFields
  <2> QED
    BY <2>1, <1>4 DEF Removed, Compounds
<1>7. ASSUME NEW b, IsBackEnd(b), SameObjects(objects, <<>>, restacked, b.table)
      PROVE  \E d : /\ Leads(b, s, d) /\ OtherObjects(b, d)
                    /\ SameObjects(objs2, <<>>, restacked, d.table)
  <2>1. PICK d : d = Handle(b, removeOp(g)) /\ Leads(b, s, d)
    BY <1>1, LeadsOne
  <2>2. OtherObjects(b, d) /\ SameObjects(objs2, <<>>, restacked, d.table)
    BY <1>2, <1>4, <1>7, <2>1, RemoveFollows
  <2> QED
    BY <2>1, <2>2
<1>8. Len(s) <= 5
  BY <1>5
<1> QED
  BY ONLY IInv, UNCHANGED backEndVars, <1>2, <1>3, <1>5, <1>6, <1>7, <1>8, Recomposing

-----------------------------------------------------------------------------
(* The invariant. *)
\* It holds at the start: no objects and an empty pipe.
LEMMA InitInvariant == Init => IInv
<1> SUFFICES ASSUME Init PROVE IInv
  OBVIOUS
<1> USE DEF Init, ClientInit, BackEndInit
<1>1. IsSeq(<<>>) /\ Len(<<>>) = 0 /\ DOMAIN <<>> = {}
  BY LeadsNothing DEF Leads
<1>2. Own
  <2>1. initialized \in BOOLEAN /\ awaiting \in BOOLEAN
    OBVIOUS
  <2>2. program \in Programs /\ status \in {"ok", "crashed"}
    OBVIOUS
  <2>3. DOMAIN gobjTable \subseteq Ids /\ restacked \subseteq Ids
    BY <1>1
  <2>4. Len(drawn) <= MaxDrawn
    BY <1>1, BoundsAssumption
  <2> QED
    BY <2>1, <2>2, <2>3, <2>4 DEF Own
<1>3. PipeOK
  BY <1>1, MaxAheadAssumption DEF PipeOK
<1>4. PICK b : b = backEnd /\ Leads(backEnd, pipe, b)
  BY LeadsNothing
<1>5. /\ IsBackEnd(b) /\ b.replies = <<>> /\ b.table = <<>> /\ b.image = <<>>
  BY <1>4 DEF backEnd, IsBackEnd
<1>6. Compounds(objects) = {} /\ DOMAIN objects = {} /\ DOMAIN b.table = {}
  BY <1>1, <1>5 DEF Compounds
<1>7. SameObjects(objects, todo, restacked, b.table)
  <2>1. ParentsAgree(objects, todo, b.table)
    BY <1>6 DEF ParentsAgree, Pending
  <2> QED
    BY <2>1, <1>6 DEF SameObjects, AllAgree, ContentsOK, ChildrenAgree, LabelsMeasured
<1>8. QuestionOK(objects, todo, gw) /\ ResultOK(todo, awaiting, b) /\ WindowOK(objects, todo, gw, awaiting, b)
  BY <1>5 DEF QuestionOK, ResultOK, WindowOK
<1>9. Pictured(drawn, b)
  BY <1>1, <1>5 DEF Pictured
<1>10. Mirrors(b)
  BY <1>5, <1>7, <1>8, <1>9 DEF Mirrors
<1> QED
  BY <1>2, <1>3, <1>4, <1>10 DEF IInv

\* The operations on an object of the program.
LEMMA ChangeObjectInvariant ==
    ASSUME IInv, UNCHANGED backEndVars, ChangeObject
    PROVE  IInv'
<1>1. PICK g \in DOMAIN objects :
        \/ freeGObject(g) \/ sendForward(g) \/ sendToFront(g)
        \/ sendBackward(g) \/ sendToBack(g) \/ draw(g)
        \/ \E flag \in BOOLEAN : setVisible(g, flag) \/ setFilled(g, flag)
                                 \/ setRaised(g, flag) \/ setSelected(g, flag)
        \/ \E pt \in Points :
               \/ setLocation(g, pt) \/ move(g, pt) \/ addVertex(g, pt) \/ addEdge(g, pt)
               \/ setStartPoint(g, pt) \/ setEndPoint(g, pt)
               \/ \E size \in Sizes : setBounds(g, pt, size)
                                      \/ setFrameRectangle(g, pt, size)
        \/ \E size \in Sizes : setSize(g, size)
        \/ \E c \in Colors : setColor(g, c) \/ setFillColor(g, c)
        \/ \E a \in Angles : setStartAngle(g, a) \/ setSweepAngle(g, a) \/ setValue(g, a)
        \/ \E s \in Strings : \/ setFont(g, s) \/ setLabel(g, s) \/ setText(g, s)
                              \/ addItem(g, s) \/ setSelectedItem(g, s)
                              \/ setActionCommand(g, s)
        \/ getSize(g) \/ isSelected(g) \/ getValue(g) \/ getText(g) \/ getSelectedItem(g)
  BY DEF ChangeObject
<1>2. CASE freeGObject(g)
  BY <1>2, Freeing
<1>3. CASE sendForward(g) \/ sendToFront(g) \/ sendBackward(g) \/ sendToBack(g)
  BY <1>3, StackingOperations
<1>4. CASE draw(g)
  BY <1>4, DrawingObjects
<1>5. CASE \E flag \in BOOLEAN : setVisible(g, flag) \/ setFilled(g, flag)
                                 \/ setRaised(g, flag) \/ setSelected(g, flag)
  BY <1>5, PlainOperations, UnseenOperations
<1>6. CASE \E pt \in Points : setLocation(g, pt) \/ move(g, pt)
  BY <1>6, PlainOperations
<1>7. CASE \E pt \in Points : addVertex(g, pt) \/ addEdge(g, pt)
  BY <1>7, AddingVertices
<1>8. CASE \E pt \in Points : setStartPoint(g, pt) \/ setEndPoint(g, pt)
  BY <1>8, SettingLine
<1>9. CASE \E pt \in Points : \E size \in Sizes : setBounds(g, pt, size)
                                                  \/ setFrameRectangle(g, pt, size)
  BY <1>9, SettingBounds, SettingFrame
<1>10. CASE \E size \in Sizes : setSize(g, size)
  BY <1>10, PlainOperations
<1>11. CASE \E c \in Colors : setColor(g, c) \/ setFillColor(g, c)
  BY <1>11, PlainOperations, SettingFillColor
<1>12. CASE \E a \in Angles : setStartAngle(g, a) \/ setSweepAngle(g, a) \/ setValue(g, a)
  BY <1>12, PlainOperations
<1>13. CASE \E s \in Strings : setFont(g, s) \/ setLabel(g, s)
  BY <1>13, SettingLabels
<1>14. CASE \E s \in Strings : setText(g, s) \/ addItem(g, s) \/ setSelectedItem(g, s)
  BY <1>14, UnseenOperations
<1>15. CASE \E s \in Strings : setActionCommand(g, s)
  BY <1>15, SettingActionCommand
<1>16. CASE getSize(g) \/ isSelected(g) \/ getValue(g) \/ getText(g) \/ getSelectedItem(g)
  BY <1>16, AskingInteractors
<1> QED
  BY <1>1, <1>2, <1>3, <1>4, <1>5, <1>6, <1>7, <1>8, <1>9, <1>10, <1>11, <1>12, <1>13, <1>14,
     <1>15, <1>16

\* The operations that make an object.
LEMMA NewObjectInvariant ==
    ASSUME IInv, UNCHANGED backEndVars, NewObject
    PROVE  IInv'
<1>1. CASE \E pt \in Points, size \in Sizes :
               newGRect(pt, size) \/ newGRoundRect(pt, size) \/ newGOval(pt, size)
  BY <1>1, MakingShapes
<1>2. CASE \E pt \in Points, size \in Sizes :
               \/ \E r \in BOOLEAN : newG3DRect(pt, size, r)
               \/ \E a, b \in Angles : newGArc(pt, size, Point(a, b))
  BY <1>2, MakingArcs
<1>3. CASE \E pt0, pt1 \in Points : newGLine(pt0, pt1)
  BY <1>3, MakingLines
<1>4. CASE \E s \in Strings : newGLabel(s)
  BY <1>4, MakingLabels
<1>5. CASE \E s \in Strings : newGImage(s)
  BY <1>5, MakingImages
<1>6. CASE \E s \in Strings : newGButton(s)
  BY <1>6, MakingButtons
<1>7. CASE \E a \in Angles : newGSlider(a)
  BY <1>7, MakingSliders
<1>8. CASE newGPolygon \/ newGCompound
  BY <1>8, MakingPolygons, MakingCompounds
<1>9. CASE newGCheckBox \/ newGTextField \/ newGChooser
  BY <1>9, MakingInteractors
<1> QED
  BY <1>1, <1>2, <1>3, <1>4, <1>5, <1>6, <1>7, <1>8, <1>9 DEF NewObject

\* The operations on the window.
LEMMA UseWindowInvariant ==
    ASSUME IInv, UNCHANGED backEndVars, UseWindow
    PROVE  IInv'
<1>1. CASE newGWindow \/ clearGWindow
  BY <1>1, MakingWindow, Clearing
<1>2. CASE \E c \in Colors : setColorGWindow(c)
  BY <1>2, SettingWindowColor
<1>3. CASE \E pt \in Points, size \in Sizes : \/ drawOval(pt, size) \/ fillOval(pt, size)
                                              \/ drawRect(pt, size) \/ fillRect(pt, size)
  BY <1>3, DrawingShapes
<1>4. CASE \E pt0, pt1 \in Points : drawLine(pt0, pt1)
  BY <1>4, DrawingLines
<1> QED
  BY <1>1, <1>2, <1>3, <1>4 DEF UseWindow

\* Whatever the program or the back end does next keeps the invariant.
LEMMA NextInvariant == IInv /\ [Next]_vars => IInv'
<1>1. ASSUME IInv, UNCHANGED backEndVars, ClientNext PROVE IInv'
  <2>1. CASE UseCompound
    <3>1. PICK c \in DOMAIN objects, g \in DOMAIN objects :
              \/ addGCompound(c, g) \/ removeGCompound(c, g)
              \/ \E pt \in Points : addAt(c, g, pt)
      BY <2>1 DEF UseCompound
    <3> QED
      BY <1>1, <3>1, Adding, Removing, AddingAt
  <2> QED
    BY <1>1, <2>1, ChangeObjectInvariant, NewObjectInvariant, UseWindowInvariant, SendingQuery,
       GettingResult DEF ClientNext
<1>2. ASSUME IInv, UNCHANGED vars PROVE IInv'
  <2>1. PICK b : Leads(backEnd, pipe, b) /\ Mirrors(b)
    BY <1>2 DEF IInv
  <2>2. backEnd' = backEnd /\ pipe' = pipe
    BY <1>2 DEF vars, backEndVars, backEnd
  <2>3. Leads(backEnd', pipe', b)
    BY <2>1, <2>2
  <2>4. Mirrors(b)'
    BY <1>2, <2>1 DEF vars, clientVars, Mirrors
  <2>5. Own' /\ PipeOK'
    BY <1>2 DEF vars, clientVars, backEndVars, IInv, Own, PipeOK
  <2> QED
    BY <2>3, <2>4, <2>5 DEF IInv
<1> QED
  BY <1>1, <1>2, Obeying DEF Next

\* The back end that has obeyed what is in the pipe mirrors the program's objects,
\* at any time.
THEOREM Invariant == Spec => []IInv
<1>1. Init => IInv
  BY InitInvariant
<1>2. IInv /\ [Next]_vars => IInv'
  BY NextInvariant
<1> QED
  BY <1>1, <1>2, PTL DEF Spec

-----------------------------------------------------------------------------
(* What the invariant says of the two ends of the pipe. *)
\* With the pipe empty, the back end that has obeyed it is the back end.
LEMMA NothingLeft ==
    ASSUME NEW b0, NEW b, Leads(b0, <<>>, b)
    PROVE  b = b0
<1>1. Len(<<>>) = 0
  BY LeadsNothing DEF Leads
<1> QED
  BY <1>1 DEF Leads

\* So it mirrors the objects then.
LEMMA BackEndMirrors ==
    ASSUME IInv, pipe = <<>>
    PROVE  /\ SameObjects(objects, todo, restacked, gobjTable)
           /\ ResultOK(todo, awaiting, backEnd) /\ Pictured(drawn, backEnd)
           /\ backEnd.table = gobjTable /\ backEnd.image = image /\ backEnd.replies = replies
<1>1. PICK b : Leads(backEnd, pipe, b) /\ Mirrors(b)
  BY DEF IInv
<1>2. b = backEnd
  BY <1>1, NothingLeft
<1>3. backEnd.table = gobjTable /\ backEnd.image = image /\ backEnd.replies = replies
  BY DEF backEnd
<1> QED
  BY <1>1, <1>2, <1>3 DEF Mirrors

\* An answer that is there is one.
LEMMA OneAnswer ==
    ASSUME NEW doing, NEW b, AnswerOK(doing, b)
    PROVE  Len(b.replies) = 1
<1>1. ASSUME NEW reply, Says(b, reply) PROVE Len(b.replies) = 1
  BY <1>1 DEF Says
<1>2. \E reply : Says(b, reply)
  BY DEF AnswerOK
<1> QED
  BY <1>1, <1>2

\* Answers are counted: from the answer the back end has given or will give.
LEMMA AnsweredOnce == IInv => Answered
<1> SUFFICES ASSUME IInv PROVE Answered
  OBVIOUS
<1>1. CASE pipe = <<>>
  <2>1. ResultOK(todo, awaiting, backEnd) /\ backEnd.replies = replies
    BY <1>1, BackEndMirrors
  <2>2. awaiting => Len(replies) = 1
    BY <2>1, OneAnswer DEF ResultOK
  <2>3. ~awaiting => replies = <<>>
    BY <2>1 DEF ResultOK
  <2> QED
    BY <2>2, <2>3 DEF Answered
<1>2. CASE pipe # <<>>
  BY <1>2 DEF IInv, PipeOK, Answered
<1> QED
  BY <1>1, <1>2

\* The items of a list are what it holds.
LEMMA ItemsHeld ==
    ASSUME NEW s, NEW S, s \in Seq(S), NEW g
    PROVE  g \in Items(s) <=> g \in S /\ Holds(s, g)
<1>1. Len(s) \in Nat /\ \A i \in 1..Len(s) : s[i] \in S
  OBVIOUS
<1> QED
  BY <1>1 DEF Items, Holds

\* Objects agree in the fields of both.
LEMMA FieldsMirrored == IInv => Mirror
<1> SUFFICES ASSUME IInv, CaughtUp, NEW g \in DOMAIN objects, ~Unreadable(objects[g]),
                    NEW c, NEW j, c = objects[g], j = gobjTable[g]
             PROVE  /\ g \in DOMAIN gobjTable /\ c.type = j.type
                    /\ \A f \in (DOMAIN c \cap DOMAIN j) \ {"actionCommand"} : c[f] = j[f]
                    /\ c.type \in InteractorType =>
                           c.actionCommand \in {Unset, j.actionCommand}
                    /\ c.type = "GLabel" =>
                           /\ Point(c.width, c.height) = Metrics(j.str, j.font)
                           /\ c.ascent = Whole(Ascent(j.font))
                           /\ c.descent = Whole(Descent(j.font))
  BY DEF Mirror
<1>1. SameObjects(objects, todo, restacked, gobjTable) /\ todo = <<>>
  BY BackEndMirrors DEF CaughtUp
<1>2. g \in DOMAIN gobjTable /\ Agree(c, j) /\ ObjectOK(c)
  BY <1>1 DEF SameObjects, AllAgree, Pending
<1>3. SameFields(c, j) /\ JavaObjectOK(j) /\ c.type = j.type
  BY <1>2 DEF Agree
<1>4. c.type \in InteractorType => c.actionCommand \in {Unset, j.actionCommand}
  BY <1>2 DEF Agree
<1>5. ASSUME c.type = "GLabel"
      PROVE  /\ Point(c.width, c.height) = Metrics(j.str, j.font)
             /\ c.ascent = Whole(Ascent(j.font)) /\ c.descent = Whole(Descent(j.font))
  <2>1. c.str = j.str /\ c.font = j.font
    BY <1>2, <1>3, <1>5 DEF SameFields, JavaObjectOK, ObjectOK
  <2>2. Measured(g, c, <<>>)
    BY <1>1, <1>5 DEF SameObjects, LabelsMeasured
  <2>3. <<>> # FontQueries(g) /\ <<>> # DescentQueries(g) /\ <<>> # SizeQuery(g)
    BY LabelQuestions
  <2> QED
    BY <2>1, <2>2, <2>3 DEF Measured, LabelQueries
<1> QED
  BY <1>2, <1>3, <1>4, <1>5 DEF SameFields

\* Compounds agree in their parts, and the parts name their compound.
LEMMA ContentsMirrored == IInv => ContentsMirror
<1> SUFFICES ASSUME IInv, CaughtUp PROVE ContentsMirror
  BY DEF ContentsMirror
<1>1. SameObjects(objects, todo, restacked, gobjTable) /\ \A h : ~Pending(todo, h)
  BY BackEndMirrors, NothingPending DEF CaughtUp, NonePending
<1>2. ASSUME NEW h \in DOMAIN objects, ~Unreadable(objects[h]) PROVE h \in DOMAIN gobjTable
  BY <1>1, <1>2 DEF SameObjects, AllAgree
<1>3. ASSUME NEW c \in Compounds(objects), NEW s, s = objects[c].contents,
             NEW t, t = gobjTable[c].children
      PROVE  /\ Items(t) \subseteq Items(s) /\ Once(t)
             /\ \A g \in Items(s) \ Items(t) : Unreadable(objects[g])
             /\ c \notin restacked =>
                    \A g, h \in Items(t) : Before(t, g, h) => Before(s, g, h)
  <2>1. /\ SameParts(s, t, DOMAIN gobjTable)
        /\ c \notin restacked => SameOrder(s, t, DOMAIN gobjTable)
        /\ s \in Seq(DOMAIN objects \ {c}) /\ DOMAIN objects \subseteq Ids
    BY <1>1, <1>3 DEF SameObjects, ChildrenAgree, ContentsOK
  <2>2. \A g : g \in Items(s) <=> g \in DOMAIN objects \ {c} /\ Holds(s, g)
    BY <2>1, ItemsHeld
  <2>3. \A g : g \in Items(t) <=> g \in Ids /\ Holds(t, g)
    BY <2>1, ItemsHeld DEF SameParts
  <2>4. ASSUME NEW g \in Items(t) PROVE g \in Items(s) /\ g \in DOMAIN gobjTable
    <3>1. Holds(s, g) /\ g \in DOMAIN gobjTable
      BY <2>1, <2>3 DEF SameParts
    <3>2. g \in DOMAIN objects \ {c}
      BY <2>1, <3>1 DEF Holds
    <3> QED
      BY <3>1, <3>2, <2>2
  <2>5. ASSUME NEW g \in Items(s) \ Items(t) PROVE Unreadable(objects[g])
    <3>1. g \notin DOMAIN gobjTable /\ g \in DOMAIN objects
      BY <2>1, <2>2, <2>3 DEF SameParts
    <3> QED
      BY <3>1, <1>2
  <2> QED
    BY <2>1, <2>4, <2>5 DEF SameParts, SameOrder
<1>4. ASSUME NEW g \in DOMAIN objects, ~Unreadable(objects[g])
      PROVE  LET holders == {c \in Compounds(objects) : g \in Items(objects[c].contents)}
             IN gobjTable[g].parent \in IF holders = {} \/ Of(g, InteractorType)
                                        THEN {Null} ELSE holders
  <2>1. ParentOK(objects, g, gobjTable[g].parent)
    BY <1>1, <1>2, <1>4 DEF SameObjects, ParentsAgree
  <2>2. \A c \in Compounds(objects) : g \in Items(objects[c].contents) <=> Holds(objects[c].contents, g)
    BY DEF Items, Holds
  <2> QED
    BY <2>1, <2>2 DEF ParentOK, Actor, Of, Alone
<1> QED
  BY <1>3, <1>4 DEF ContentsMirror

\* The picture agrees.
LEMMA ImageMirrored == IInv => ImageMirror
<1> SUFFICES ASSUME IInv, CaughtUp
             PROVE  Len(image) = Len(drawn) /\ \A i \in 1..Len(drawn) : SameLook(drawn[i], image[i])
  BY DEF ImageMirror
<1>1. Pictured(drawn, backEnd) /\ backEnd.image = image
  BY BackEndMirrors DEF CaughtUp
<1> QED
  BY <1>1 DEF Pictured

\* A set of places that is not empty has a last one.
LEMMA LastPlace ==
    ASSUME NEW n \in Nat, NEW S, S \subseteq 1..n, S # {}
    PROVE  \E i \in S : \A k \in S : k <= i
<1> DEFINE D == {n - i : i \in S}
<1>1. D \subseteq Nat /\ D # {}
  <2>1. ASSUME NEW i \in S PROVE n - i \in Nat
    <3>1. i \in 1..n
      OBVIOUS
    <3> QED
      BY <3>1
  <2>2. PICK i : i \in S
    OBVIOUS
  <2>3. n - i \in D
    BY <2>2
  <2> QED
    BY <2>1, <2>3
<1>2. IsWellFoundedOn(OpToRel(<, Nat), Nat)
  BY NatLessThanWellFounded
<1>3. PICK d \in D : \A e \in D : <<e, d>> \notin OpToRel(<, Nat)
  BY <1>1, <1>2, WFMin
<1>4. \A e \in D : ~(e < d)
  BY <1>1, <1>3 DEF OpToRel
<1>5. PICK i \in S : d = n - i
  OBVIOUS
<1>6. ASSUME NEW k \in S PROVE k <= i
  <2>1. n - k \in D /\ k \in Int /\ i \in Int
    OBVIOUS
  <2> QED
    BY <2>1, <1>4, <1>5
<1> QED
  BY <1>6

\* A point is in the object in C if it is in the one in Java; they are seen or not.
LEMMA SameShape ==
    ASSUME NEW c, NEW j, ObjectOK(c), Agree(c, j), j.type \in {"GRect", "GOval"}, NEW pt
    PROVE  (Contains(c, pt) <=> Contains(j, pt)) /\ c.visible = j.visible
<1>1. /\ {"type", "x", "y", "width", "height", "visible"} \subseteq DOMAIN c
      /\ {"type", "x", "y", "width", "height", "visible"} \subseteq DOMAIN j
  BY DEF ObjectOK, ObjectFields, Agree, JavaObjectOK
<1>2. /\ c.type = j.type /\ c.x = j.x /\ c.y = j.y /\ c.width = j.width /\ c.height = j.height
      /\ c.visible = j.visible
  BY <1>1 DEF Agree, SameFields
<1> QED
  BY <1>2 DEF Contains

\* What getGObjectCompound finds: the last of the hits.
HitsIn(s, pt) == {i \in 1..Len(s) : Contains(objects[s[i]], pt)}
Last(hits) == CHOOSE i \in hits : \A k \in hits : i >= k
Finds(s, hits) == IF hits = {} THEN Null ELSE s[Last(hits)]

\* The search of C in these words.
LEMMA Found ==
    ASSUME NEW c, NEW pt
    PROVE  getGObjectCompound(c, pt)
               = Finds(objects[c].contents, HitsIn(objects[c].contents, pt))
BY DEF getGObjectCompound, Finds, HitsIn, Last

\* The last hit is the last.
LEMMA LastHit ==
    ASSUME NEW s, NEW S, s \in Seq(S), NEW pt, HitsIn(s, pt) # {}
    PROVE  /\ Last(HitsIn(s, pt)) \in HitsIn(s, pt) /\ HitsIn(s, pt) \subseteq 1..Len(s)
           /\ \A k \in HitsIn(s, pt) : k <= Last(HitsIn(s, pt))
<1> DEFINE hits == HitsIn(s, pt)
<1>1. hits \subseteq 1..Len(s) /\ hits # {} /\ Len(s) \in Nat
  BY DEF HitsIn
<1> HIDE DEF hits
<1>2. PICK i \in hits : \A k \in hits : k <= i
  BY <1>1, LastPlace
<1>3. \A k \in hits : i >= k
  BY <1>1, <1>2
<1>4. Last(hits) \in hits /\ \A k \in hits : Last(hits) >= k
  BY <1>3 DEF Last
<1>5. \A k \in hits : k <= Last(hits)
  BY <1>1, <1>4
<1> QED
  BY <1>1, <1>4, <1>5 DEF hits

\* One that stands behind no other in one list does so in the other.
LEMMA StaysLast ==
    ASSUME NEW s, NEW t, NEW S, s \in Seq(S), NEW T, t \in Seq(T), NEW known,
           SameOrder(s, t, known), Once(s),
           NEW i \in 1..Len(s), NEW k \in 1..Len(t), t[k] = s[i],
           NEW i2 \in 1..Len(s), NEW k2 \in 1..Len(t), t[k2] = s[i2], i2 <= i,
           t[k] \in known, t[k2] \in known
    PROVE  k2 <= k
<1> SUFFICES ASSUME ~(k2 <= k) PROVE FALSE
  OBVIOUS
<1>1. Len(s) \in Nat /\ Len(t) \in Nat
  OBVIOUS
<1>2. k < k2
  BY <1>1
<1>3. Before(t, t[k], t[k2])
  BY <1>2 DEF Before
<1>4. Before(s, s[i], s[i2])
  BY <1>3 DEF SameOrder
<1>5. PICK m, n \in 1..Len(s) : m < n /\ s[m] = s[i] /\ s[n] = s[i2]
  BY <1>4 DEF Before
<1>6. m = i /\ n = i2
  BY <1>5 DEF Once
<1> QED
  BY <1>1, <1>5, <1>6

\* What is seen of the children at a point, and that the hit is on top of it.
SeenIn(t, pt) == {i \in 1..Len(t) : /\ gobjTable[t[i]].visible
                                    /\ Contains(gobjTable[t[i]], pt)}
OnTop(t, seen, hit) == \/ hit # Null /\ ~objects[hit].visible
                       \/ seen = {} /\ hit = Null
                       \/ \E i \in seen : hit = t[i] /\ \A k \in seen : k <= i
TopAt(c, pt) == LET t == gobjTable[c].children
                IN OnTop(t, SeenIn(t, pt), getGObjectCompound(c, pt))

\* The hit is what is seen on top, when nothing was restacked and the parts are of
\* known extent, or else it is invisible.
LEMMA HitsMirrored == IInv => HitIsTopmost
<1> SUFFICES ASSUME IInv, CaughtUp, NEW c \in Compounds(objects), c \notin restacked,
                    \A g \in Items(objects[c].contents) : objects[g].type \in {"GRect", "GOval"},
                    NEW pt \in Points
             PROVE  TopAt(c, pt)
  BY DEF HitIsTopmost, TopAt, OnTop, SeenIn
<1>0. PICK t, seen, hit : /\ t = gobjTable[c].children /\ seen = SeenIn(t, pt)
                          /\ hit = getGObjectCompound(c, pt)
  OBVIOUS
<1>1. PICK s : s = objects[c].contents
  OBVIOUS
<1>2. SameObjects(objects, todo, restacked, gobjTable) /\ \A h : ~Pending(todo, h)
  BY BackEndMirrors, NothingPending DEF CaughtUp, NonePending
<1>3. /\ SameParts(s, t, DOMAIN gobjTable) /\ SameOrder(s, t, DOMAIN gobjTable)
      /\ s \in Seq(DOMAIN objects \ {c}) /\ DOMAIN objects \subseteq Ids /\ Once(s)
  BY <1>0, <1>1, <1>2 DEF SameObjects, ChildrenAgree, ContentsOK
<1>4. t \in Seq(Ids)
  BY <1>3 DEF SameParts
<1>5. ASSUME NEW g, Holds(s, g)
      PROVE  /\ g \in DOMAIN objects /\ g \in Ids /\ g \in DOMAIN gobjTable
             /\ Contains(objects[g], pt) <=> Contains(gobjTable[g], pt)
             /\ objects[g].visible = gobjTable[g].visible
  <2>1. g \in Items(s) /\ g \in DOMAIN objects
    BY <1>3, <1>5 DEF Items, Holds
  <2>2. objects[g].type \in {"GRect", "GOval"}
    BY <1>1, <2>1
  <2>3. /\ g \in DOMAIN gobjTable /\ ObjectOK(objects[g])
        /\ Agree(objects[g], gobjTable[g])
    BY <1>2, <2>1, <2>2 DEF SameObjects, AllAgree, Unreadable
  <2> QED
    BY <1>3, <2>1, <2>2, <2>3, SameShape DEF Agree
<1>6. ASSUME NEW k \in 1..Len(t)
      PROVE  \E i \in 1..Len(s) : s[i] = t[k]
  <2>1. t[k] \in Ids /\ Holds(t, t[k])
    BY <1>4 DEF Holds
  <2> QED
    BY <1>3, <2>1 DEF SameParts, Holds
<1>7. hit = Finds(s, HitsIn(s, pt))
  BY <1>0, <1>1, Found
<1>8. ASSUME HitsIn(s, pt) = {} PROVE OnTop(t, seen, hit)
  <2>1. hit = Null
    BY <1>7, <1>8 DEF Finds
  <2>2. ASSUME NEW k \in seen PROVE FALSE
    <3>1. PICK i \in 1..Len(s) : s[i] = t[k]
      BY <1>0, <1>6, <2>2 DEF SeenIn
    <3>2. Contains(objects[s[i]], pt)
      BY <1>0, <1>5, <2>2, <3>1 DEF Holds, SeenIn
    <3> QED
      BY <3>2, <1>8 DEF HitsIn
  <2> QED
    BY <2>1, <2>2, <1>0 DEF OnTop, SeenIn
<1>9. ASSUME HitsIn(s, pt) # {} PROVE OnTop(t, seen, hit)
  <2>1. PICK i : i = Last(HitsIn(s, pt))
    OBVIOUS
  <2>2. /\ i \in HitsIn(s, pt) /\ i \in 1..Len(s) /\ hit = s[i]
        /\ \A k \in HitsIn(s, pt) : k <= i
    BY <1>3, <1>7, <1>9, <2>1, LastHit DEF Finds
  <2>3. Holds(s, hit) /\ Contains(objects[hit], pt)
    BY <2>2 DEF Holds, HitsIn
  <2>4. hit # Null
    BY <1>5, <2>3, IdsAssumption DEF Null
  <2>5. ASSUME objects[hit].visible
        PROVE  \E k \in seen : hit = t[k] /\ \A k2 \in seen : k2 <= k
    <3>1. PICK k \in 1..Len(t) : t[k] = hit
      BY <1>3, <1>5, <2>3 DEF SameParts, Holds
    <3>2. k \in seen
      BY <1>0, <1>5, <2>3, <2>5, <3>1 DEF SeenIn
    <3>3. ASSUME NEW k2 \in seen PROVE k2 <= k
      <4>1. PICK i2 \in 1..Len(s) : s[i2] = t[k2]
        BY <1>0, <1>6, <3>3 DEF SeenIn
      <4>2. Holds(s, t[k2]) /\ Contains(gobjTable[t[k2]], pt)
        BY <1>0, <3>3, <4>1 DEF Holds, SeenIn
      <4>3. i2 \in HitsIn(s, pt) /\ t[k2] \in DOMAIN gobjTable
        BY <1>5, <4>1, <4>2 DEF HitsIn
      <4>4. i2 <= i /\ t[k] = s[i] /\ t[k] \in DOMAIN gobjTable /\ k2 \in 1..Len(t)
        BY <1>0, <1>5, <2>2, <2>3, <3>1, <3>3, <4>3 DEF SeenIn
      <4> QED
        BY <1>3, <1>4, <2>2, <4>1, <4>3, <4>4, StaysLast
    <3> QED
      BY <3>1, <3>2, <3>3
  <2> QED
    BY <2>4, <2>5 DEF OnTop
<1>10. OnTop(t, seen, hit)
  BY <1>8, <1>9
<1> QED
  BY <1>0, <1>10 DEF TopAt

\* The types follow from the parts of the invariant.
LEMMA TypesOK == IInv => TypeOK
<1> SUFFICES ASSUME IInv PROVE TypeOK
  OBVIOUS
<1>1. PICK b : Mirrors(b)
  BY DEF IInv
<1>2. /\ SameObjects(objects, todo, restacked, b.table)
      /\ WindowOK(objects, todo, gw, awaiting, b)
  BY <1>1 DEF Mirrors
<1>3. /\ program \in Programs /\ status \in {"ok", "crashed"}
      /\ initialized \in BOOLEAN /\ awaiting \in BOOLEAN
      /\ DOMAIN gobjTable \subseteq Ids /\ restacked \subseteq Ids /\ Len(drawn) <= MaxDrawn
  BY DEF IInv, Own
<1>4. DOMAIN objects \subseteq Ids
  BY <1>2 DEF SameObjects
<1>5. ASSUME NEW g \in DOMAIN objects
      PROVE  /\ objects[g].type \in AnyType
             /\ objects[g].x \in Int /\ objects[g].y \in Int
             /\ objects[g].color \in Colors \cup {"BLACK"}
  BY <1>2 DEF SameObjects, AllAgree, ObjectOK
<1>6. ASSUME NEW g \in DOMAIN objects, objects[g].type = "GCompound"
      PROVE  /\ Items(objects[g].contents) \subseteq DOMAIN objects \ {g}
             /\ Once(objects[g].contents)
  <2>1. g \in Compounds(objects)
    BY <1>6 DEF Compounds
  <2>2. objects[g].contents \in Seq(DOMAIN objects \ {g}) /\ Once(objects[g].contents)
    BY <1>2, <2>1 DEF SameObjects, ContentsOK
  <2> QED
    BY <2>2 DEF Items
<1>7. gw.top # Null => gw.top \in DOMAIN objects
  BY <1>2 DEF WindowOK, Compounds
<1>8. Len(pipe) <= MaxAhead + 5
  BY DEF IInv, PipeOK
<1>9. Len(replies) <= 1
  <2>1. Len(<<>>) = 0
    BY LeadsNothing DEF Leads
  <2>2. pipe # <<>> => replies = <<>>
    BY DEF IInv, PipeOK
  <2>3. pipe = <<>> => replies = <<>> \/ Len(replies) = 1
    BY AnsweredOnce DEF Answered
  <2> QED
    BY <2>1, <2>2, <2>3
<1> QED
  BY <1>3, <1>4, <1>5, <1>6, <1>7, <1>8, <1>9 DEF TypeOK, Once

-----------------------------------------------------------------------------
(* The theorems. *)
\* Types, and that a compound holds live objects only, itself not, and each once:
\* what the operations of the client leave, whatever the back end has obeyed.
THEOREM TypeCorrect == Spec => []TypeOK
<1>1. IInv => TypeOK
  BY TypesOK
<1> QED
  BY <1>1, Invariant, PTL

\* The fields kept in C and in Java agree whenever all commands have been obeyed,
\* but for images that could not be read, which the back end lacks.
THEOREM FieldsAgree == Spec => []Mirror
<1>1. IInv => Mirror
  BY FieldsMirrored
<1> QED
  BY <1>1, Invariant, PTL

\* A compound has the same parts in C and in the back end, but for images that
\* could not be read; they are in the same order until one is sent forward or back;
\* and the back end's parts have that compound as their parent.
THEOREM ContentsAgree == Spec => []ContentsMirror
<1>1. IInv => ContentsMirror
  BY ContentsMirrored
<1> QED
  BY <1>1, Invariant, PTL

\* getGObjectAt names what is seen on top of the window at the point, or an object
\* that is invisible.
THEOREM HitsAgree == Spec => []HitIsTopmost
<1>1. IInv => HitIsTopmost
  BY HitsMirrored
<1> QED
  BY <1>1, Invariant, PTL

\* The image shows what the program has drawn, although the addresses of the
\* shapes were free again when the commands about them were still in the pipe.
THEOREM ImageAgrees == Spec => []ImageMirror
<1>1. IInv => ImageMirror
  BY ImageMirrored
<1> QED
  BY <1>1, Invariant, PTL

\* A question has its one answer when the back end has obeyed all commands, and
\* no answer is left when no question is open.
THEOREM OneAnswerEach == Spec => []Answered
<1>1. IInv => Answered
  BY AnsweredOnce
<1> QED
  BY <1>1, Invariant, PTL

=============================================================================
