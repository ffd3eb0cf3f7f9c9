# SPL for C: a verification development

This directory holds TLA+ models of the Stanford Portable Library for C (the C
library under `src/c`, the Java back end under `src/java`), the TLC
configurations that check them, and proofs of their main invariants. The models
are written from the code. Line numbers in the modules' map (`PROJECT.json`) are
those of this checkout.

Contents: 1 the system, 2 the modules, 3 what the runs check, 4 fairness,
5 what is proved, 6 where the code disagrees with its documentation, 7 what is
left out, 8 the plan.

## 1. The system

### 1.1 The parts

A graphics program is two processes. The C program is linked with the library;
the first operation on a graphical object forks a JVM that runs the back end.
Between them are two pipes of text lines: commands one way
(`GWindow.create("0x55..", 500, 300)`), and lines that start with `result:` or
`event:` the other. Everything else in the library is sequential C.

| Part | State | Operations | Interacts with |
| --- | --- | --- | --- |
| Front end protocol (`platform.c`, `gwindow.c`, `gevents.c`, `gtimer.c`) | `windowTable`, `timerTable`, `sourceTable`, `eventQueue`, file descriptors of the pipes | one per command (`createGWindowOp`, `createTimerOp`, `pauseOp`, ...), `getNextEvent`, `waitForEvent`; `putPipe`, `getResult`, `getStatus`, `parseEvent` | writes commands, reads results and events; called by all of the graphics API |
| Back end protocol (`JavaBackEnd.java`, `JBECommand.java`, `JBEWindow.java`) | `windowTable`, `timerTable`, `activeWindowCount`, `eventMask`, `eventAcknowledged`, `eventPending`, the monitor `eventLock`, `System.out` | `commandLoop` and one `execute` per command on the main thread; listeners (`mouseMoved`, `keyTyped`, `actionPerformed`, `componentResized`, `windowClosing`, ...) on the event dispatch thread (EDT) | two threads share all of it; both print to the one pipe |
| Graphical objects (`gobjects.c`, `gwindow.c`, `ginteractors.c`, `gtypes.c`) | a block per object, child lists of compounds, a parent pointer | constructors, setters, `addGObject`, `removeGObject`, stacking, `containsGObject`, drawing on the window's image | each mirrors its change in the back end with a command |
| Back end objects (`JBECommand.java`, `TopCompound`, `JBECanvas`, `GInteractor`) | object table, child lists, the canvas, its off-screen image | create, add, remove, stack, draw, answer queries | obeys commands one after another; painted by the EDT |
| Interactors (`GButton.java`, ...) | the value of a slider, the text of a field, an action command | create, get and set the value | action events, getters with a reply |
| Console and sound | text buffer, clips | print, read a line, play | commands, one with a reply |
| Binary search tree (`bst.c`) | nodes with key, value, balance factor; a count | insert, remove, find, clear, clone, three traversals | maps and sets are built on it |
| Maps and sets (`hashmap.c`, `map.c`, `set.c`, `charset.c`) | buckets, a tree, or an array of bits; a count | put, get, remove, contains, set algebra, iteration | over `bst.c`; used by `platform.c` for its tables |
| Linear collections (`vector.c`, `queue.c`, `stack.c`, `pqueue.c`, `strbuf.c`) | arrays with capacity and count, a list of linked cells, a heap | the usual | `eventQueue` is a `Queue`; lines are read into string buffers |
| Generic functions (`generic.c`) | none | `size`, `add`, `get`, ... for any collection; fetch, store and compare a value of any type | choose the function by the name in a block's header |
| Iterators (`iterator.c`, `foreach.c`) | a list of copied elements and its tail, or a place in a collection | create, add, step, free | snapshot of sets, maps, directories |
| Graph (`graph.c`) | sets of nodes and arcs, a set of arcs in every node, a map of names | add, remove, neighbours, orderings, costs | sets, a map, and the loops that run over them |
| Exceptions (`exception.h`, `exception.c`) | `exceptionStack`, a context block in the C frame of each `try` | the macros `try`, `catch`, `finally`, `endtry`, `throw`; push, pop, throw, unwind, handler lookup | `setjmp`/`longjmp`; `error` throws |
| Token scanner (`tokenscanner.c`) | input, saved tokens, pushed back characters, flags | next token, save, verify, flags | `parseEvent` reads events with it |
| Files (`filelib.c`, `unixfile.c`) | the working directory; the file system | names, patterns, search paths, create, rename, delete, list | iterators, string buffers |
| Strings, console input, options, refs (`strlib.c`, `simpio.c`, `cmdscan.c`, `options.c`, `ref.c`) | option tables, a line being read | functions | called from everywhere |
| Random numbers (`random.c`) | whether the seed is set | integers, reals, chances from `rand` | |
| Memory, program loading, unit tests | little | functions | called from everywhere |

### 1.2 What is hard, and what would make each part correct

*Protocol.* Results carry no tag that says which command they answer. The C
side is one thread that sends and then reads until a line starts with
`result:`; the Java side has two threads that may print such a line, the one
that obeys a command and the one that runs a listener and acknowledges an
awaited event. Correct means: at most one reply is ever outstanding and it is
for the operation in progress; `waitForEvent` is not left asleep with an event
already there; the processes do not block on each other's full pipe; events are
returned once, in their order; operations return; the back end ends with its
last window and not before.

The parts of the code that bear on this and which nobody can test with
confidence: listeners let go of `eventLock` between printing and acknowledging
(`JavaBackEnd.java:387` and after); getters print without the lock
(`JBECommand.java:1224`); `activeWindowCount` has no lock (`:535`); `windowClosing` runs on both threads;
`initPlatform` replaces the C tables at each call (`platform.c:115`).

*Search tree.* AVL rotations with stored balance factors. Correct means: the
tree holds its keys, the balance factors stay right, no rotation follows a NULL
child.

*Exceptions.* Macros over `setjmp` with a linked stack of contexts in C frames.
A throw may happen in a body, a clause, a finally clause or a signal handler.
Correct means: the stack is the list of handlers in force, a throw never uses a
frame that is gone, a finally clause is not skipped.

*Token scanner.* It pushes back what it should not have read, sometimes several
characters, sometimes the end of the input; and there are two stores of what was
pushed back, of characters and of tokens. Correct means: no character is lost or
read twice but by that, a token is the longest there is, every call returns.

*Graphical objects.* The state of an object is kept twice, in C and in Java, and
each operation changes both; the Java side runs behind and works with what
earlier commands left. Correct means: once it has caught up the two agree, what
is on top is what a click finds, and each question has one answer.

*Graph.* It keeps the same arcs in three sets, ordered by comparison functions
that look at the arcs, and removes from a set while a loop runs over it.

*Collections, strings, files.* Sequential code with the usual boundaries: full
arrays, emptied lists, first and last characters, an iterator that is filled and
stepped in turns. Correct means: what the headers say.

`PROJECT.json` lists each hazard at its line with the properties that cover it
or the reason none does.

## 2. The modules

    JBEPipes  <--- FrontEnd  <---+
        ^                        +--- EventProtocol <--- MCEventProtocol
        +-------- BackEnd   <----+        |      ^
                                          |      +--- EventProtocolProofs <--- RepliesProofs
                          EventService <--+                        ^--- EventServiceProofs
                          (INSTANCE, refinement)

    BST                                     TokenScanner <--- MCTokenScanner
    Exceptions <--- MCExceptions                ^--- TokenScannerProofs
        ^--- ExceptionsProofs               Graph <--- MCGraph
                                                ^--- GraphProofs

    GObjectCommands <--- GObjects <--------+
          ^------------- GObjectsBackEnd <-+-- GraphicsMirror <--- MCGraphics
                                                   ^--- GraphicsMirrorProofs

    Blocks <- LinearCollections -----+-- Collections <----+
    MapsAndSets, Generic ------------+        |           +-- MCCollections
                         Promises <-----------+ (INSTANCE)|
    Blocks, Generic <- PriorityQueue <--------------------+
                            |   ^--- PriorityQueueProofs
                            +--> PriorityOrder (INSTANCE)

    Strings <- FileNames <- Files <------------------------+
       ^---- CommandLine, TypedValues, Events <- FunctionCalls <- MCLibrary
             Geometry, Generic <--------------------+
    FileNames, CommandLine, Geometry <- UnitTests <-+
    Strings <- CollectionTests <--------------------+
       (INSTANCE of BST, LinearCollections, MapsAndSets)

**JBEPipes**: the two pipes as bounded sequences (`toJBE`, `fromJBE`), the state
of each process (`client`, `jvm`), the lines. A line keeps the name, the
identifier and, for the two asking commands, the mask; coordinates and text are
left out. `PrintLine` is `println` with the two things that can happen to it: it
blocks on a full pipe, and it vanishes when the reader is gone (a `PrintStream`
does not report a failed write).

**FrontEnd**: `platform.c`. One C thread. A call of the program is one action
(`NewGWindow`, `CloseGWindow`, `NewShape`, `NewGTimer`, `FreeGTimer`, `Pause`,
`GetText`, `AskForEvent`) that changes the C tables and leaves the line to be
sent in `outgoing`; `PutPipe` is the blocking write; `ReadResult`, `ReadEvent`,
`ReadGarbledArguments`, `ReadJunk` and `ReadEOF` are the iterations of
`getResult`'s loop, with what the callers (`getStatus`, `getNextEvent`,
`waitForEvent`) do with the result. `waiting` says which caller it is.
`GetText` stands for the getters whose reply is printed by
`System.out.println` directly, `NewShape` for the constructors that call
`initPlatform` and await no reply. An operation called before the first
`initPlatform` uses tables that do not exist (`CallBeforeInit`). Three history
variables say what the properties need to know of the past: the `masks` the
program asked with, the kinds of the events `parsed`, the sources that
`initPlatform` has `dropped` from the tables.

**BackEnd**: the Java threads. `pc[t]` is where thread `t` is between two points
at which the other can see or disturb it; `eventLock` is the monitor.
`HandleInput`/`IgnoreInput` are Swing calling a listener; `BeginLine`, `EndLine`
and `Acknowledge` are the listener's prints, with the lock held across all
three (`HoldsLock`) or let go before the acknowledgement; `RemoveWindow`,
`StoreCount`, `TestCount`, `ExitJVM` are the rest of `windowClosing`, run by
either thread. The other actions are commands: `GWindow_create` with
`ShowWindow`, `GWindow_close`, `SetTimer`, `GTimer_pause`, `Reply`,
`GEvent_ask`, `AwaitEvent`, `AnswerNow`, `SetMask`. `activeWindowCount++` and
`--` are a load into `register[t]` and a store. `partial` says how far an event
line has been printed: it is flushed in parts, so a line printed without the
lock can fall inside it. Three history variables: `asked`; `stray`, set when
`windowClosing` acknowledges although no event was ever asked for; and
`miscounted`, set when a thread stores a count that the other has changed since
it was loaded, or counts down a window that is no longer in the table.

**EventProtocol** composes the two, and states the properties and the
refinement. **EventService** is the abstract specification: what `gevents.h`
promises, without pipes, threads or acknowledgements: an operation takes the
oldest event its mask covers and leaves the others; `getNextEvent` returns NULL
only if at some moment of the call there was no such event.

**BST**: `bst.c`. Only the order of keys matters, so a tree of n keys has the
keys 1..n and an insertion in the middle renumbers (`Moved`). The operators
`insertTreeNode`, `rotateLeft`, `fixLeftImbalance`, `adjustBF`,
`removeTreeNode`, ... follow the C functions, including which node's balance
factor is read after a rotation (`BFOf`) and where a NULL child would be
followed (`Fault`). Actions: `insertBSTNode` and `insertAgain` (key new or there),
`removeBSTNode` and `removeAbsent`, `clearBST`, `UseAfterClear`.

**Exceptions**: `exception.h` and `exception.c`. `frames` is the stack of `try`
statements in execution, each with its context block, the link to the next
context, `_es`, and the point its macros have reached. Actions: `Try` and
`SetJmp` (the two steps of `try`), `EndBody`, `Catches`, `EndClause`, `Finally`,
`EndCleanup`, `EndTry`, `LeaveTry` (the macros), `Throw`, `Interrupt` (a signal
handler that throws), `JumpOut` (`return`, `break` or `goto` out of a try). What
the program does in its own code is open.

**TokenScanner**: `tokenscanner.c`, a step for each `getChar` with what the code
does on the character. `nextToken` is a machine of the states of the function
(`space`, `word`, the parts of a number, a comment, a string, an operator);
`ungetChar`, `saveToken`, the two kinds of input and the settings are as in C. What was given and what was
taken is history.

**GObjectCommands**, **GObjects**, **GObjectsBackEnd**, **GraphicsMirror**: the
commands about objects and their replies; the C side (`gobjects.c`, `gwindow.c`)
with an object's fields and the commands each operation sends, one after another
(`todo`), as far ahead as the pipe lets it; the Java side, where `Handle` is the
command table, a function from the back end and a command to the back end that has obeyed
it; and the two together with what must agree. On the C side
`Make`, `Change` and `Ask` are the three ways an operation ends: with a new object, with fields set and
commands sent, with a question. `TopCompound`'s lists,
`acm.graphics` and fonts are modelled by what the handlers use of them and are
marked external. What comes back is read as `platform.c` reads it:
`getGDimension` does not ask whether `sscanf` found a dimension, so that an image
whose file cannot be read becomes an object in C that the back end does not have
(`Unreadable`), with a size that is any; `getDouble` returns whole pixels.

**Graph**: `graph.c` with the sets it is made of (`set.c` as its users see it:
nodes of a tree in order, each a cell of memory with the key it holds now) and
the `foreach` loops in progress (`foreach.c`). A removal (`bst.c`) is a search by
comparison, and so is the second one inside it: a node with two children gets
the key of the node before it, and that key is then searched for in the left
subtree. In a set that stands in its own order the search comes to the node the
key was copied from; in another order, or among elements that compare equal, it may come to another
node, which may have two children itself, or to none (`Descends`, `Misses`,
`Unlinked`). Which nodes have two children depends on the tree's shape and is a choice.

**LinearCollections** (vectors, stacks, queues, string buffers), **MapsAndSets**
(hash maps, sets of characters, sets and maps over trees): the collections, each
operation an operator from a representation to the next one. **Blocks** says
what memory holds before it is written to. **Generic** is the choice of a type by
the end of its name (`generic.c`), **Collections** a program that calls the
generic operations on a collection and on its clones. **Promises** is the
abstract specification: the items of a collection as a sequence, function or set,
and what each operation does to them.

**PriorityQueue**: `pqueue.c`, one step for each pass of the loops that sift.
A value is put in by `enqueuePriorityQueue` or by the generic `enqueue`, which reads
its argument as a double and as an int and guesses (`Arguments`, `Guessed`). The `back` of a
clone is not set: the next `enqueue` reads `heap[back]` there, which may end the
program (`ReadOutside`) or give either outcome of the comparison.
**PriorityOrder** is its abstract specification: what `pqueue.h` says.

**Strings**, **FileNames**, **CommandLine**, **TypedValues**, **Geometry**,
**Events**: functions. Strings are sequences of character codes (`strlib.c`);
file names and patterns (`filelib.c`); arguments, options and input lines
(`options.c`, `simpio.c`, `cmdscan.c`); values of C types as bytes, with what the
type functions of `generic.c` and `cmpfn.c` and the refs of `ref.c` do to
them; bounds and hit tests (`gobjects.c`, `gtypes.c`); an event from the test of
the mask in Java to the getters of `gevents.c`. Loops over characters are folds
over a state.

**Files**: `filelib.c` and `unixfile.c` over a tree of directories, and a program
that changes it while an iterator goes through it. **FunctionCalls**: a program
that calls one function after another, with what each call is expected to undo.
**UnitTests**, **CollectionTests**: what the unit tests at the ends of the source
files ask of these functions, of trees and of collections, as pairs of an answer
and what is expected; the hash code of `hashmap.c` is there, too.

Modules whose names begin with `MC` give the constants their small values.

## 3. The runs

All counts are distinct states; each run ends in well under five minutes on two
workers. Where deadlock is not checked the program may stop calling, the user
stop acting, or a crashed program do no more. That is also why progress is
stated as liveness where it matters.

### 3.1 The event protocol

| Run | Instance | Properties | Shows |
| --- | --- | --- | --- |
| `EP_replies` | pipes of 1 and 2 lines, 2 windows (symmetric) and a timer, 5 calls among 11 kinds of operation, 2 inputs (mouse moves, window closings, ticks); about 2,470,000 states | `TypeOK`, `OneOutstanding`, `NoLostWakeup`, `CircularWaitOnlyInClosing`, `ExitsWithLastWindow`, `EventsHaveSources` | replies need no tags, no acknowledgement is lost, circular wait needs a window closing, the back end exits with its last window, an event has its source |
| `EP_service` | pipes of 2 and 3, 1 window, 4 calls, masks of mouse events with and without window events, 2 inputs (mouse moves and window closings), `FairSpec`; about 500,000 states | `ImplementsService`, `OperationReturns`, `WaitServed` | refinement of `EventService`, and liveness |
| `EP_masks` | 4 calls, a mask of mouse events and one of timer events, 3 mouse moves | `ReturnsWhatWasAskedFor` (violated) | section 6 |
| `EP_unlocked` | small | `OperationReturns` (violated) | section 6 |

What the properties say, and why they are not obvious:

- `OneOutstanding`: the answer to the operation in progress is in exactly one
  of the places it can be (a command being written, on the pipe, being obeyed;
  an acknowledgement owed; a reply on the pipe) and it is of the sort the
  program waits for. It is what keeps two printing threads from ever answering
  twice. Its exception, `stray`, is real: `windowClosing` does not ask the
  mask, and before the first event operation `eventAcknowledged` is false, so a
  close prints an `ack` nobody asked for. From then on the protocol is one reply ahead of
  itself, and only the history variable can separate the two worlds.
- `NoLostWakeup`: if an event is at the program or on its way and an
  acknowledgement is owed, then some thread is about to send it. This is where
  the listeners that release the lock between print and acknowledge might have
  failed, and `eventPending` is why they do not.
- `CircularWaitOnlyInClosing`: when both pipes are full and both processes block
  writing, a window is being closed: the command thread is inside
  `windowClosing`, or `getResult` answers a `windowClosed` event. Such a wait is
  possible (section 6). The second way takes three windows, more than
  this run has; the theorem covers it. Pipes of one and two lines are the worst case.
- `ExitsWithLastWindow`: a thread that finds the count at zero, and so goes on to
  print the last line and exit, is right: no window is left, or only one whose
  `createWindow` the command thread has begun meanwhile. Program and user both
  close windows, on two threads and without a lock. `miscounted` is the
  moment one of the two known races (section 6) has happened; nothing
  is claimed after it, and the property says that nothing else upsets the count.
- `EventsHaveSources`: a tick may be on the pipe when its timer is freed, a mouse
  event when its window is closed. The C tables still know the source when the line is parsed,
  because neither operation takes it out (`deleteTimerOp` puts it in); only
  `initPlatform`, which every new window or shape calls, does (`dropped`).
- `ImplementsService` maps `pending` to the parsed events followed by the event
  lines on the pipe, `asking` to `waiting`, `mask` to the mask of the last event
  operation, and `sawEmpty` (the promise that NULL from `getNextEvent` is
  justified) to "the answer is ahead of every event". `Forget` in the service is
  `initPlatform`'s new queue. The service selects by the mask and the code does not
  (`platform.c:1040`): what makes them agree is that the listeners test the
  mask, so that only covered events are ever queued, as long as the mask stays the same.
  The service ends with the program and at the four points where the code leaves
  the header (`Serving`): the stray acknowledgement, from which on an operation gets
  the reply of the one before; a second mask (`EP_masks` is that case); a NULL
  event, queued for the last line, which `parseEvent` does not know; and a
  `windowClosed` event, which `windowClosing` prints without looking at the mask, for a
  program that does not ask for window events. The run has both kinds of program.

Bounds. `MaxCalls` and `MaxInputs` bound a behaviour, `ToCap` and `FromCap`
the pipes. Five calls suffice to create a window and a timer, start it, ask for an event
and get an operation with another kind of reply between, or to create two
windows, wait and close both; two inputs give one event that answers and one that sets
`eventPending` or arrives between the two critical sections of a listener, or
close both windows. One window is enough for the service, whose events are
told apart by their kind; two are used where the count and the tables matter.
`Masks` are those a program would use: `SetMask` and `Selects` tell only
whether a listener's classes are in the mask, and key events are kept out of
the passing runs' inputs (section 6).

### 3.2 The search tree

| Run | Instance | Properties | Shows |
| --- | --- | --- | --- |
| `BST_keys` | every tree reachable with at most 12 keys; 6 calls on a tree whose balance factors are wrong; about 21,000 states | `HoldsItsKeys`, `SpoiltOnlyByLargeRemoval` | keys are never lost, duplicated or misplaced; below twelve keys balance factors are exact |
| `BST_remove` | 12 keys, 12 such calls | `OperationsComplete` (violated) | section 6 |

Twelve is not arbitrary: it is the size of the smallest AVL tree on which the defect of `removeTreeNode`
shows, and the action property says so: no removal from eleven keys spoils a tree.

### 3.3 Exceptions

| Run | Instance | Properties | Shows |
| --- | --- | --- | --- |
| `EX_try` | three nested tries, clauses {}, {error}, {ANY}, with and without finally, two exceptions, one of them also thrown by a signal; about 920,000 states, contexts symmetric | `TypeOK`, `StackMatchesFrames`, `JumpsFindTheirTry`, `FinallyAlwaysBegins` | the stack is what it should be through every throw, rethrow and clause |

Three tries give an innermost, an outermost and one between, whose context can
be popped while another is above and below it. `JumpsFindTheirTry` has two
exceptions: a try left by `return`, `break` or `goto` (the header forbids none
of them; `left` records it), and a signal between `pushExceptionStack` and
`setjmp`. The property and its proof say that there is no third way.

### 3.4 The token scanner

`TS_tokens`: every sequence of calls on two texts, each of at most three to five
characters over the alphabet of one part of the scanner (numbers, comments, operators,
strings, white space, nothing set), as a string and as a file.
`CharactersLostOnlyByPushBack` names the four steps in which a character is lost or
read again: an incomplete exponent, a slash at the end of a string, a file that
is given back another character than it gave, a new text while characters are
still pushed back. `TokensAreLongest` compares a token with a definition of what may follow
it; `PositionIsNextToken` says what `getPosition` returns, saved tokens
included; `CallsReturn` that a call's loop gets closer to its end with every step
(the code can also read one character for ever after the end: `MaxRepeats`
bounds how often, at the start of a call). Operators are two that share a
prefix, since a scanner that takes the longest must give the rest back.

### 3.5 Graphical objects

`GO_mirror`: twenty-four programs, each a group of operations on at most three
objects, with the back end up to one command behind before an operation starts
(and any number within one); about 240,000 states, addresses symmetric. `Mirror`
says that position, size, angles, color, text, font and value of an object in C and in
Java agree when the back end has caught up; `ContentsMirror` the same of the
parts of compounds, in their order, and that an object's parent in Java is the
compound that holds it in C; `HitIsTopmost` that `getGObject` finds
the one on top as long as nobody has changed the stacking, or one that is invisible, about which it does
not ask; `ImageMirror` that what was
drawn and the object freed is on the image, in order; `Answered` that each
question gets one answer, for failing commands too. Groups keep the states a
sum and not a product; an operation is grouped with those that touch the
same fields. Some of the programs make an image whose file cannot be read, and put it into
compounds: it is the one object that has no counterpart, which the first two
properties except by name, and they show that nothing else about the other objects suffers from it.

### 3.6 Graphs

`GR_graph`: graphs of two nodes and three arcs, or one node and four (so loops,
two-way and parallel arcs occur), in seven groups of operations; about 442,000 states. With four
arcs of one cost under an ordering by cost a node with two children may have two nodes in its left
subtree, and the search for the copied key comes to the wrong one. `TypeOK`: each
cell of a tree stands in it once, in whatever order it is. `Consistent`: the arcs of the
graph, of each node and the map of names agree. `EachOnce`: a loop comes to
each element once, although elements are removed while it runs. `FreedOnlyByUpset`: freed
memory is read only after a cost or an ordering was changed under a set that is
sorted by it, or by a program that removes ahead of its own loop. `NeighborsConnected`: `isConnected` and `getNeighbors` agree. Two history variables limit them: `upset` (a set stands in another order than its own, or an order does not
tell two arcs apart) and `reckless` (the program removed ahead of its own loop).

### 3.7 Collections

`COL_promises`: every sequence of calls on a collection of each type and a
second one that clone and the set operations make, with capacities of one, three
keys of which two share a bucket and two are one to the second ordering, and
values that may be NULL; or on a priority queue of at most five entries, two
priorities and a first capacity of two; about 173,000 states. `KeepsPromises`
is the refinement of `Promises`, `ServesInOrder` that of `PriorityOrder`,
`HeapOrder` and `BackInUse` are the heap's invariants. `MCView` leaves out
the last call and its answer, which no action reads; properties over a step still see them.
`KeepsPromises` has three exceptions, each a call that the run makes and that breaks
what the header says: `Overflows` (`printfCapacity` counts too few characters;
the conversions of the run are with and without width and precision, and a number that is
longer than `MaxNumberDigits`), `ReadsFreed` (a map or set after `clear`, whose
tree's root stays), and `IteratesNone` (a loop over a character set). `ServesInOrder` has two: `clear`,
which is an error, and the generic `enqueue` where it has to guess. The
properties say that all other calls keep their promise, also after these.

### 3.8 Files and functions

`LIB_calls`: two programs, one that makes, moves, lists and deletes at most
three files while it goes through a directory and fills and steps an iterator,
and one that calls a function with every small argument; about 31,000 states.
`FilesAsPromised`: a directory path is made whole, a directory and a tree are
listed with all that is in them, a search path finds the first that is there. `IteratesAll`: what is put into an iterator comes out, up to what
is added behind a cell already freed. `FunctionsAsPromised` has a part for each
family of functions, and each part compares the answer with what the caller had put
together: a text quoted and read back, a pattern and the name made from its
parts, a command line and its arguments, an input and its lines, a value kept in
a set or a ref, a point inside an object, an event and what the user did, a
number written and read, a range and what is drawn from it. One part evaluates
the unit tests of the repository and compares what the models return with what
the tests expect: 109 names and 168 primes put into a tree, whose three
traversals, before and after removals, are the tables of the tests; two word
lists and their set algebra; 999 numbers in a string buffer; names, patterns,
options, numbers and texts. They tie the models to values somebody wrote
down for the code. A real is a decimal number of at most six digits, which no
format has to round; the generator of random numbers draws from 0..15.
Arguments are pairs and triples of the pieces that the code distinguishes; arcs
start at multiples of 90 degrees and points lie at multiples of 45, where the
arithmetic is exact. An input that has a line ended by a return before an empty
line ended by a newline is left out: the two cannot be told from one line end.

## 4. Fairness

Only `EP_service` and `EP_unlocked` use fairness (`FairSpec`): weak fairness of
`LibraryStep` (the C library does not stop in the middle of a call) and of each
Java thread's `ThreadStep` (a virtual machine runs its threads). Both are what an operating system
gives any process that can run; a thread that waits for the monitor or for room
in a pipe is not enabled, and no step that takes the lock is assumed to win it.
Nothing obliges the program to call, the user to act, or a timer to tick; so
`WaitServed` is about an event that is already with the library, and `OperationReturns` is
about operations the back end answers without the user.

## 5. What is proved

The theorems hold for every value of the constants that satisfies the named
assumptions (sources are disjoint and differ from `Nobody`; capacities are
positive; calls, inputs and masks are of their kind; the lock's free value is no
thread; the exception contexts differ from NULL; priorities are numbers; the
alphabets of the scanner do not contain the end of the input, and no operator is empty; names
and costs of a graph are integers, so that they can be compared; addresses of
graphical objects are not NULL, points and sizes are pairs in the range that
`%g` writes exactly, and images, texts and fonts have sizes): any number of windows and
timers, any capacity, any calls, any depth of try statements, any entries, any
text and any sequence of calls on it, any graph, any objects with a back end
any number of commands behind.

| Module | Theorem | Says |
| --- | --- | --- |
| `EventProtocolProofs` | `TypeCorrect` | `Spec => []TypeOK` |
| `RepliesProofs` | `OneReplyOutstanding` | `Spec => []OneOutstanding` |
| `RepliesProofs` | `CircularWaitOnlyClosing` | `Spec => []CircularWaitOnlyInClosing` |
| `RepliesProofs` | `NoWakeupIsLost` | `Spec => []NoLostWakeup` |
| `EventServiceProofs` | `ProtocolImplementsService` | `Spec => ImplementsService`, the refinement of `EventService` |
| `EventProtocolProofs` | `ExitIsWithLastWindow` | `Spec => []ExitsWithLastWindow` |
| `EventProtocolProofs` | `EventsAlwaysHaveSources` | `Spec => []EventsHaveSources` |
| `ExceptionsProofs` | `TypeCorrect` | `Spec => []TypeOK` |
| `ExceptionsProofs` | `StackAlwaysMatches` | `Spec => []StackMatchesFrames` |
| `ExceptionsProofs` | `JumpsAlwaysFindTheirTry` | `Spec => JumpsFindTheirTry` |
| `ExceptionsProofs` | `FinallyAlwaysBeginsFirst` | `Spec => FinallyAlwaysBegins` |
| `PriorityQueueProofs` | `QueueTypeCorrect` | `PQSpec => []PQTypeOK`: the places in use hold entries; `index` and `back`, once it is set, are places of the array |
| `PriorityQueueProofs` | `HeapStaysOrdered` | `PQSpec => []HeapOrder` |
| `PriorityQueueProofs` | `BackStaysInUse` | `PQSpec => []BackInUse` |
| `PriorityQueueProofs` | `QueueServesInOrder` | `PQSpec => ServesInOrder`, the refinement of `PriorityOrder` |
| `TokenScannerProofs` | `TypeCorrect` | `Spec => []TypeOK` |
| `TokenScannerProofs` | `PositionCorrect` | `Spec => []PositionIsNextToken` |
| `TokenScannerProofs` | `CharactersKept` | `Spec => CharactersLostOnlyByPushBack` |
| `GraphProofs` | `TypeCorrect` | `Spec => []TypeOK` |
| `GraphProofs` | `AlwaysConsistent` | `Spec => []Consistent` |
| `GraphProofs` | `EachAlwaysOnce` | `Spec => []EachOnce` |
| `GraphProofs` | `FreedAlwaysByUpset` | `Spec => []FreedOnlyByUpset` |
| `GraphProofs` | `NeighborsAlwaysConnected` | `Spec => []NeighborsConnected` |
| `GraphicsMirrorProofs` | `Invariant` | `Spec => []IInv`, on which the next six rest |
| `GraphicsMirrorProofs` | `TypeCorrect` | `Spec => []TypeOK` |
| `GraphicsMirrorProofs` | `FieldsAgree` | `Spec => []Mirror` |
| `GraphicsMirrorProofs` | `ContentsAgree` | `Spec => []ContentsMirror` |
| `GraphicsMirrorProofs` | `HitsAgree` | `Spec => []HitIsTopmost` |
| `GraphicsMirrorProofs` | `ImageAgrees` | `Spec => []ImageMirror` |
| `GraphicsMirrorProofs` | `OneAnswerEach` | `Spec => []Answered` |

*Replies.* That every result on the pipe is what the program waits for is not
inductive: it says nothing of the reply before it is printed. `OneOutstanding`
follows it from the command being written to the line being read, in three parts: `ForWaiting` (wherever it is, it is what
the program waits for), `AtMostOne` (it is in one place, and no second one is
in any), and `ObeysCommand` (the command thread replies only to what asks for
one). The proof has a step per action; lemmas say what reading, printing,
sending and taking a command do to the replies and commands on the two pipes
(`LineRead`, `OtherPrinted`, `ResultPrinted`, `CommandRead`, ...). Windows need
a fact of their own, `CreatesWindow`, since a create that named no window would
not be replied to.

*Circular waits.* With `OneOutstanding` one more fact is enough, `SilentClose`:
a program that waits for a result and writes something other than the command it
waits on writes a `GWindow.close`, as `getResult` does when it answers an event
on the way to its result. In a circular wait the command thread is printing;
a reply it prints is the outstanding one, so the program's own command has been
sent and the one it is writing is such a close.

*Wakeups.* `NoLostWakeup` says nothing of the time before `waitForEvent` is
obeyed. `WakeupInv` follows an event from being printed to being acknowledged:
every event on the pipe that no result follows, and every event that is in the queue while
`waitForEvent` waits, is remembered (`SeenRemembered`), by a listener that is
about to acknowledge it or by `eventPending` with no acknowledgement owed. Three
more facts make it inductive: lines are garbled only on the pipe
(`LinesWhole`); a garbled line stops `getText` for ever, with nothing else
outstanding (`GarbledStops`); a program that ended by itself did not end in
`waitForEvent` (`EndedElsewhere`). That the command thread cannot go to sleep on an
event is what `ExecutedAwake` and `CommandStepAwake` show: it comes to owe an
acknowledgement only when `eventPending` is false.

*The event service.* `EventsIn`, the events among the lines on the pipe, is a
function defined by recursion over the pipe; what it makes of an appended line
and of a pipe that loses its head (`EventsInAppend`, `EventsInHead`) is proved by
a least counterexample, the numbers being well founded. With them each action
of the protocol is one of the service or leaves it alone: a printed event is
`Occur`, a read one changes nothing (it moves from the pipe to the queue), a
result is `Deliver`, `ReturnNone` or nothing, by what the program waits for.
`FindNone` is the moment a reply is printed behind no event: since an answer, once
it is ahead of all events, stays there (`AnswerStays`), the NULL that is returned later
is justified although events have arrived in between. `OneOutstanding` is what
rules out a second answer. That the event returned is the oldest one the mask covers rests on
`CoveredInv`: an event other than the closing of a window is of a class some mask asked
for, from the moment its listener has tested the mask, over the pipe, to the
queue, and what the listeners select by is a mask the program asked with.
While there is one mask all events are covered by it, window events by the exception.

*Windows.* `WindowsInv`: until a count is lost, the number of windows in the table and of those
that have gone and are still counted is at most the count and the window that is in
the table and not yet counted. A thread that stores what it loaded, while the
other has not stored since, keeps it; that is what `miscounted` records, and it
is all the proof needs: no assumption on who closes windows. So a count of zero leaves no window but the one being made.

*Sources.* `SourcesInv` follows windows and timers from the command over the pipe, into the
back end's tables, the lines its threads report and the event lines on the pipe: each
speaks only of what the program has `made`, and what was made is in a
table or among those `dropped`. So a lookup that fails is of one dropped.

*Exceptions.* `IInv` adds to `TypeOK` and `StackMatchesFrames` three facts:
contexts are distinct (`Distinct`); only the innermost try is between macros,
all others are where the program's own code runs (`Nested`); a try past its
finally clause carries the state that clause left (`FinallyDone`). `Linked`
says the stack as a list; the lemmas `Innermost...` and `Linked...` say what pushing,
popping, cutting and changing the top frame do to it. The two action
properties follow from `IInv`: a jump goes to a frame that is there because
the top of the stack is the innermost frame whose context is on it, and the
frames it drops are those inside, none of which is still to begin a finally
clause.

*Priority queue.* The heap is out of order while an entry is on its way, so the
invariant says: the array is ordered but at the entry that moves; its children
could pass to its parent; entries are numbered in the order they came, each
number once; `back` is kept, or not set. One step of sifting keeps that by comparing the
three or four entries it touches; a program stopped at `heap[back]` (`CrashKeeps`) has changed nothing. That the first entry of an ordered heap comes before all others is proved
without induction over the heap, by a least counterexample: the entry with the
smallest index that comes before the first has a parent, which does too.

*Token scanner.* `ScannerInv` says where the pointer may be and what each state
of `nextToken` has read, and two facts that the types do not give: characters in the scanner's own stack lie
above what was given to `ungetc`, so that they come first (`Sound`), and a token that was
put back is the end of what was passed over (`EndsWith`). For `CharactersKept` the text is taken as two parts: `Gone`
(what tokens took, what is held in the function and the token being built) and
`Rest` (saved and pushed back characters and the text behind the pointer). An
action moves characters from the front of `Rest` to the end of `Gone` or back
(`TakenOver`, `PutBackOne`), and `GivesBack` shows why giving back
works: the character that went last comes first again, from a string because the pointer
steps back over it, from a file only if the code gives back the one it got. The four exceptions are steps for which exactly this fails.
`PositionCorrect` follows from the lengths of the two parts.

*Graph.* `Consistent` alone does not survive a removal in the middle of a loop,
so `GraphInv` has seven parts, each of which TLC checked as an invariant of the
run first: the sorts; blocks and sets of the right shape, no cell twice
(`BlocksOK`); addresses in use are not given out again (`UnusedOK`); no
reference to a freed block unless the status says so (`IntactOK`); the arcs of the
graph, of the nodes, and names and nodes belong together until an order is upset (`WholeOK`); and what the
loop of `removeNode` and the program's loop still have to come to (`RemovalOK`,
`LoopOK`). The last is the point: that a loop delivers what it began with is
not inductive, since a removal may move a key into a cell that the loop has
passed. `Ahead` adds that the cells still to be visited stand in the set in the
order of the visits (`InTurn`), and each removal is shown to keep both
whichever cell it frees (`TakenFrom`, `StaysAhead`). That a search finds an
element where it is, and a new one has one place, needs only that the
comparisons are antisymmetric and that the set is in their order (`SearchEnds`), which is
also why most is promised only until an order has been changed. A removal takes out the
node it should, one place after the other down to the first that has no two children, if each search
for a copied key finds the node it came from (`Runs`, `TakenAt`); in any order it
moves keys and takes out one node or none (`LooseOut`), which is enough for the
types (`LooseTree`).
`getNeighbors` builds a new set in a loop over a node's arcs. The set after i passes is a
recursive function of i: that there is one (`SomePasses`), and that the i-th set
holds the ends of the first i arcs in order (`PassAdds`), are proved by a least i for
which it fails, the step being that a node goes into the gap of an ordered set where the search
for it ends (`GapThere`, `InGap`, `NodeAdded`).

*Graphical objects.* The properties speak of moments when the back end has caught up; between two
such moments C is ahead by any number of commands, so none of them is inductive,
and an invariant that relates the C objects to the back end as it is
would have to say what each command in between still has to do. `IInv` speaks of the back end
as it will be: there is a `b` to which the commands in the pipe lead
(`Leads(backEnd, pipe, b)`) and which mirrors the program (`Mirrors(b)`). Then
the back end's step costs one lemma for all commands: obeying the
first of the pipe leaves `b` where it was (`Obeying`). What remains is a lemma
per operation of the program: its commands, appended to the pipe, take `b`
to a back end that mirrors the changed objects. `Mirrors` has these parts: fields that both sides have are equal
(`AllAgree`; an image not yet asked for, or not readable, is excepted); a compound holds live objects, each
once, and no object is in two (`ContentsOK`); it holds the same as the
children in the back end, in the same order unless restacked
(`ChildrenAgree`), and parents are the inverse of that (`ParentsAgree`), but
for interactors, whose parent in the back end is none; a label's size is that of its text and font
or is to be asked for (`LabelsMeasured`); a question is about an object that is
there (`QuestionOK`) and has one answer, which says what the object there says
(`ResultOK`); a window that is not there yet is being asked for (`WindowOK`); the image
shows what was drawn (`Pictured`). `PipeOK` is what makes answers single: only the last command
in the pipe can be a question, and nothing is printed while commands are ahead of it.
An address may be used again after `freeGObject`, while commands about the old object are still in the
pipe: no special case is needed, since `b` has obeyed them. The hardest steps are those that change a compound and an object at once
(`addGCompound`, `removeGCompound`, the four that restack) and those with several commands
(`addAt`, the drawing operations), for which
`LeadsTwo` and the like go from back end to back end. Lemmas about
`Handle` say which fields of which objects a command leaves alone.

*Only model-checked.* Liveness (`OperationReturns`, `WaitServed`,
`CallsReturn`), which the prover cannot do under fairness. `HoldsItsKeys` and
`SpoiltOnlyByLargeRemoval`: the tree's module is written with recursive
operators. `TokensAreLongest`, the types and promises of the collections and of
the functions: they compare what folds and recursive functions over data
compute, for which an induction over data would be needed; `Collections` also rests
on `MapsAndSets`, which is written with recursive operators.

## 6. Where the code disagrees

Three disagreements have a run whose counterexample is the scenario.

- `EP_unlocked`: a getter's reply, printed without `eventLock`
  (`JBECommand.java:1224`), lands inside an event line; no line begins with
  `result:` and the getter waits for ever.
- `EP_masks`: `getNextEvent` and `waitForEvent` return whatever is first in the
  queue (`platform.c:1040` and `:1049`), also an event that was queued under an
  earlier mask, where `gevents.h:260` promises an event "whose type is covered by
  the event mask".
- `BST_remove`: `removeTreeNode` (`bst.c:390`) reads the balance factor of the
  node that was the root before the rotation. After a double rotation the
  subtree is shorter and the value returned says it is not. Wrong balance
  factors remain, and later calls follow a NULL child.

The models follow the code in the others too; where a property needs an
exception for one, the property names it.

*Protocol.* A window the user closes before the program asks for its first event
is acknowledged unasked, and `pause` reads `ack` where it expects `ok`
(`JavaBackEnd.java:531`; `stray`). Every shape or window calls `initPlatform`,
which replaces `windowTable` and the timer tables (`platform.c:115`), so later
events have a NULL source (`dropped`). `activeWindowCount++` on one thread and `--` on the other lose an
update, and a window closed by the user and by the program at once is counted
down twice (`miscounted`). `windowClosing` prints whatever the mask. A window size that
prints as a fraction makes `GWindow_create` throw, which `commandLoop` swallows without a
reply (`createReal`). The last line is named `lastWindowGWindow_closed` where
`parseEvent` expects `lastWindowClosed` (`JavaBackEnd.java:538`).
`deleteTimerOp` enters the timer into the table (`platform.c:808`). `windowClosing` prints
events to a program that does not read while it closes windows: if both pipes
are full the two processes wait on each other (`platform.c:389`). `playMp3`
blocks the command loop; `freeSound` frees nothing. `setWindowTitle` sends a
command the back end does not know.

*Events.* Action commands are printed between quotes as they are
(`JavaBackEnd.java:413`) and read with escapes. Key listeners compare `eventMask
== KEY_EVENT` instead of testing the bit (`:427`), so `ANY_EVENT` gets no keys.
`getKeyChar` cuts the code to a `char`. The modifiers of window, timer and action events
are never set. The copy of an action command is not freed (`gevents.c:101`).

*Graphical objects.* `newGImage` of a file that cannot be read returns an object with a size
that was never set, which the back end does not have (`platform.c:454`). Stacking changes the back end's lists and not the C lists
(`gobjects.c:259`). `getStartPoint` and `getEndPoint` test for a line the wrong way round (`:473`),
`getBoundsGLine` uses x twice (`:488`), `containsGLine` is never called. Lines
contain the points of a box right of and below the start, labels of one below the baseline;
polygons forget their location. An arc that ends at 360 degrees lacks that angle
(`:622`); the centre of a pie counts as at angle 0. `setText` and
`setSelected` have no effect; `drawLine` ignores the window's color.
`add` and `remove` of a compound through the generic macros are always errors, since its block is of type
`GObject`; `remove` of a window passes a key that is not set.

*Tree, maps, sets.* `removeTargetNode` searches for the key it has copied by comparison
(`bst.c:433`): in a set whose order has changed it frees another node or none, and a key stands in two. `clearBST` leaves `root` pointing at freed nodes
(`bst.c:126`). A loop over a character set yields nothing. `cloneSet` does not set
`toStringFn`. A loop over a hash map hands out a key that its removal frees.

*Priority queues, vectors, string buffers.* `clearPriorityQueue` is always an error
(`pqueue.h:126` says that it removes all values); `clonePriorityQueue` leaves out
`back` (`pqueue.c:163`), and the next `enqueue` reads `heap[back]`; the generic
`enqueue` guesses whether its priority is an int from what the registers hold
(`generic.c:432`). `printfCapacity` ignores the width of a `%s` that has a
precision and of a `%c`, and numbers longer than `MAX_NUMBER_DIGITS` (`strbuf.c:203`
and `:213`), although `strbuf.h:136` calls its bound adequate; a vector of
capacity 0 never grows (`vector.c:92`).

*Graph.* `addNode` inserts before it looks for a duplicate; `addArc` under the
cost ordering drops arcs of equal cost; `setCost` moves nothing (`graph.c:231`).

*Scanner.* It moves back at the end of the input (`tokenscanner.c:305`), keeps the
characters of an incomplete exponent (`:492`), and reads octal escapes of any
length, so that a digit after one that `quoteString` wrote is swallowed (`:341`).

*Exceptions.* `try` pushes its context before `setjmp` fills it
(`exception.h:250`). A throw from a catch clause is offered to the clauses of
the same try again, since its context is popped only at `finally` or `endtry`.

*Strings, options, files, refs.* `quoteString` writes eleven characters for one
below 0 where it counted four (`strlib.c:342`). An option that is a prefix of another is
ambiguous although it is exact; `%i` and `%d` differ in cumulative options. `readLine` takes an empty line ended by a return at the end of the input for the end
(`simpio.c:170`), and `commandLoop` does not end there (`cmdscan.c:123`). `createDirectoryPath`
passes over a first name of one letter (`filelib.c:154`). An element put
into an iterator that has been emptied is behind a freed cell
(`iterator.c:175`). `refTypeCheck` reads `rp` before it is set (`ref.c:260`).
The generic `isEmpty` and `contains` of a struct of a size they do not know read
an argument that is not there.

## 7. What is left out

- The Windows variant of the pipe, the `BufferedReader`'s read-ahead (which only
  adds capacity), the start of the back end process.
- The console window and its events, sound, file dialogs.
- What Swing and `acm.graphics` do by themselves: painting, layout, regions of a
  window; a closed `JFrame` hides once its listeners return, a running timer may
  tick at any time, `waitForWindowActive` returns.
- `exitGraphics` and the end of the C program by itself: the program in the
  model simply stops calling. `sourceTable`.
- Rotation, scaling and `toString` of objects; colors by name.
- Values and key types of trees, `freeBST`, the debugging log.
- Sorting and mapping of vectors; the rounding of real numbers, infinities and
  NaN; Mac file types.
- The message and value an exception carries.
- When the generator of random numbers is seeded, the loading of programs
  (`loadobj.c`), the Windows file system (`winfile.c`), the unit test driver, the
  unit tests that look at files or at addresses or whose model has variables
  (`graph.c`, `pqueue.c`, `tokenscanner.c`), the examples.

## 8. The plan

Order: the protocol first, since it is where two processes and three threads
meet; then what all programs rest on; then the libraries over it.

Done: pipes, front end, back end, their composition and the abstract service;
tree; exceptions; scanner; graphical objects on both sides and their mirror;
graph; all collections against their promises; files, text functions, typed
values, geometry, events. Proved: the types, the replies, the circular waits
and the wakeups of the protocol, its refinement of the event service, the lives
of windows and sources of events; the exceptions; the token scanner's types, position and text; the
graph; the priority queue and its refinement; the graphical objects and their mirror.

What remains, in order:

1. Proofs: the linked cells of the queue and the vector
   against their sequences for every capacity, once their loops are functions
   of the pass as in `getNeighbors`; `HoldsItsKeys`, for which the tree
   must be a function instead of recursive operators.
2. The console window and its line events; `sourceTable` with the action events
   that the composed protocol would carry.
3. `cloneBST` and the other traversals; sorting of vectors against a sorted
   permutation.
