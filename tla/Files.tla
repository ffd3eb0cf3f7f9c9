-------------------------------- MODULE Files --------------------------------
(***************************************************************************)
(* The functions of filelib.c and unixfile.c that look at files and change *)
(* them, over a tree of directories and files; and a program that goes     *)
(* through a directory while it changes.                                   *)
(*                                                                         *)
(* A file is the sequence of the names on the way to it from the root.     *)
(***************************************************************************)
EXTENDS FileNames

CONSTANTS
    Paths,          \* what a program calls the functions with
    SearchPaths,    \* paths and names for findOnPath: pairs
    Elements,       \* what it puts into an iterator of its own
    MaxFiles,       \* bound: files and directories, the root left out
    MaxElements     \* bound: elements put into one iterator

VARIABLES
    dirs, files,    \* external: the directories and the files that are there
    cwd,            \* external: the current directory
    iterator,       \* the one in use
    pending, lost   \* history: what was put into it and has not come out, and
                    \* whether that was after it was emptied
VARIABLES ask, answer       \* history: the last call a program made, with its
                            \* arguments, and what it returned

tree == <<dirs, files, cwd>>
iteration == <<iterator, pending, lost>>
filesVars == <<tree, iteration, ask, answer>>

Call(fn, args, result) == ask' = <<fn>> \o args /\ answer' = result
NoCallYet == ask = <<"none">> /\ answer = "none"

------------------------------------------------------------------------------
\* External: the system calls.  Two slashes are one, and . is no step.
Resolved(path) ==
    (IF At(path, 0) = SlashCh THEN <<>> ELSE cwd)
    \o SelectSeq(CutAt(path, {SlashCh}), LAMBDA name : name \notin {<<>>, <<DotCh>>})
EndsInSlash(path) == endsWith(path, <<SlashCh>>)
There(d, path) ==
    /\ path # <<>>
    /\ Resolved(path) \in d \/ (Resolved(path) \in files /\ ~EndsInSlash(path))
OnTheWay(path) == {SubSeq(Resolved(path), 1, n) : n \in 0..Len(Resolved(path))}

\* mkdir on the directories d: those it leaves, and whether it succeeds.
mkdir(d, path) ==
    IF path # <<>> /\ ~There(d, path) /\ Front(Resolved(path)) \in d
    THEN [dirs |-> d \cup {Resolved(path)}, ok |-> TRUE]
    ELSE [dirs |-> d, ok |-> FALSE]
Contents(path) == {f \in dirs \cup files : f # <<>> /\ Front(f) = Resolved(path)}

------------------------------------------------------------------------------
fileExists(path) == There(dirs, path)
isFile(path) == fileExists(path) /\ Resolved(path) \in files
isDirectory(path) == path # <<>> /\ Resolved(path) \in dirs

\* Mutant: a directory that is there is an error.
createDirectoryNew(d, path) ==
    mkdir(d, IF EndsInSlash(path) THEN substring(path, 0, Len(path) - 2) ELSE path)

\* One slash at the end is dropped; a directory that is there is no error.
createDirectory(d, path) ==
    LET name == IF EndsInSlash(path) THEN substring(path, 0, Len(path) - 2) ELSE path
        made == mkdir(d, name)
    IN IF ~made.ok /\ name # <<>> /\ Resolved(name) \in d THEN [made EXCEPT !.ok = TRUE] ELSE made

\* The loop looks for a slash from place 2 on, and stops at an error.
createDirectoryPath(path) ==
    LET slashes == SelectSeq([n \in 1..Len(path) |-> n - 1],
                             LAMBDA i : i >= 2 /\ At(path, i) = SlashCh)
        prefixes == [n \in DOMAIN slashes |-> substring(path, 0, slashes[n] - 1)]
    IN FoldLeft(LAMBDA made, p : IF made.ok THEN createDirectory(made.dirs, p) ELSE made,
                [dirs |-> dirs, ok |-> TRUE],
                IF path = <<>> THEN <<>> ELSE Append(prefixes, path))

\* Sorted by strcmp, without ., .. and .DS_Store.
listDirectory(path) ==
    SetToSortSeq({Last(f) : f \in Contents(expandPathname(path))},
                 LAMBDA s1, s2 : stringCompare(s1, s2) < 0)

\* mapDirectoryTree: the names it adds, the files below dir.
RECURSIVE mapDirectoryTree(_)
mapDirectoryTree(dir) ==
    LET names == listDirectory(dir)
        base == IF EndsInSlash(dir) THEN dir ELSE dir \o <<SlashCh>>
    IN FlattenSeq([n \in DOMAIN names |->
           IF isDirectory(base \o names[n]) THEN mapDirectoryTree(base \o names[n])
           ELSE <<base \o names[n]>>])

\* The first of the names that is there; a user who is not known is an error.
findOnPath(path, filename) ==
    LET tried == mapPath(path, filename)
        found == SelectInSeq(tried, LAMBDA name : name = Failed \/ fileExists(name))
    IN IF found = 0 THEN <<>> ELSE tried[found]

------------------------------------------------------------------------------
(* The list iterators of iterator.c: a linked list that is filled, in order *)
(* if there is a comparison function, and emptied from its head.  list holds *)
(* the elements from head on.  tail says where the pointer to the last cell  *)
(* points: it is NULL at first and after a step that finds no cell, but      *)
(* stays as it is when a step takes the last one.                            *)
newListIterator(cmpFn) == [list |-> <<>>, tail |-> "NULL", cmpFn |-> cmpFn]

\* Mutant: only the last element is compared.
addAtEnds(it, elem) ==
    LET last == it.list = <<>> \/ it.cmpFn = "none"
                \/ stringCompare(elem, Last(it.list)) >= 0
    IN {[it EXCEPT !.list = IF last THEN Append(@, elem) ELSE <<elem>> \o @, !.tail = "last"]}

\* What may become of the iterator: a new cell goes behind the last one that does
\* not come after it; behind a cell that is freed it is on no list.
addToIteratorList(it, elem) ==
    LET list == it.list
        before == IF it.cmpFn = "none" THEN list
                  ELSE SelectSeq(list, LAMBDA e : stringCompare(elem, e) >= 0)
        inserted == [it EXCEPT !.list = InsertAt(list, Len(before) + 1, elem),
                                     !.tail = "last"]
    IN (IF it.tail = "freed" THEN {it} ELSE {inserted})
       \cup (IF it.cmpFn = "none" THEN {} ELSE {inserted})

\* What stepListIterator leaves of the iterator; what it delivers is the head.
stepListIterator(it) ==
    CASE it.list = <<>> -> [it EXCEPT !.tail = "NULL"]
      [] Len(it.list) = 1 -> [it EXCEPT !.list = <<>>, !.tail = "freed"]
      [] OTHER -> [it EXCEPT !.list = Tail(@)]

------------------------------------------------------------------------------
(* The program's calls. *)
SameTree == UNCHANGED tree
SameIteration == UNCHANGED iteration
Room == Cardinality(dirs) + Cardinality(files) <= MaxFiles

\* openOnPath to write, or fopen: a file comes into being.
CreateFile(path) ==
    /\ Room /\ path # <<>> /\ ~EndsInSlash(path) /\ ~There(dirs, path)
    /\ Front(Resolved(path)) \in dirs
    /\ files' = files \cup {Resolved(path)}
    /\ Call("CreateFile", <<path>>, "ok")
    /\ UNCHANGED <<dirs, cwd>> /\ SameIteration

CallCreateDirectoryPath(path) ==
    /\ Room
    /\ dirs' = createDirectoryPath(path).dirs
    /\ Call("createDirectoryPath", <<path>>, IF createDirectoryPath(path).ok THEN "ok" ELSE "error")
    /\ UNCHANGED <<files, cwd>> /\ SameIteration

\* External: unlink.  A file that is not there is no error.
deleteFile(path) ==
    LET ok == ~isDirectory(path) /\ (isFile(path) \/ OnTheWay(path) \cap files = {})
    IN /\ files' = IF isFile(path) THEN files \ {Resolved(path)} ELSE files
       /\ Call("deleteFile", <<path>>, IF ok THEN "ok" ELSE "error")
       /\ UNCHANGED <<dirs, cwd>> /\ SameIteration

\* External: rename, of a file.
renameFile(old, new) ==
    LET ok == /\ isFile(old) /\ new # <<>> /\ ~EndsInSlash(new)
              /\ ~isDirectory(new) /\ Front(Resolved(new)) \in dirs
    IN /\ old # new /\ ~isDirectory(old)
       /\ files' = IF ok THEN (files \ {Resolved(old)}) \cup {Resolved(new)} ELSE files
       /\ Call("renameFile", <<old, new>>, IF ok THEN "ok" ELSE "error")
       /\ UNCHANGED <<dirs, cwd>> /\ SameIteration

\* chdir; whether it succeeds is not looked at.
setCurrentDirectory(path) ==
    /\ cwd' = IF isDirectory(path) THEN Resolved(path) ELSE cwd
    /\ Call("setCurrentDirectory", <<path>>, "ok")
    /\ UNCHANGED <<dirs, files>> /\ SameIteration

CallFindOnPath(path, filename) ==
    /\ Call("findOnPath", <<path, filename>>, findOnPath(path, filename))
    /\ SameTree /\ SameIteration

\* The names are listed, and added one by one, before the first step.
Filled(names) ==
    /\ iterator' = [newListIterator("none") EXCEPT
                        !.list = names, !.tail = IF names = <<>> THEN "NULL" ELSE "last"]
    /\ pending' = names /\ lost' = FALSE
newDirectoryIterator(dir) ==
    /\ isDirectory(dir) /\ Filled(listDirectory(dir))
    /\ Call("newDirectoryIterator", <<dir>>, "ok") /\ SameTree
newDirectoryTreeIterator(dir) ==
    /\ isDirectory(dir) /\ Filled(mapDirectoryTree(dir))
    /\ Call("newDirectoryTreeIterator", <<dir>>, "ok") /\ SameTree

\* An iterator that the program makes; and any that it adds to.
NewIterator(cmpFn) ==
    /\ iterator' = newListIterator(cmpFn) /\ pending' = <<>> /\ lost' = FALSE
    /\ Call("newListIterator", <<>>, cmpFn) /\ SameTree
AddToIterator(elem) ==
    /\ Len(pending) < MaxElements
    /\ iterator' \in addToIteratorList(iterator, elem)
    /\ pending' = Append(pending, elem) /\ lost' = (lost \/ iterator.tail = "freed")
    /\ Call("addToIteratorList", <<elem>>, "ok") /\ SameTree
StepIterator ==
    /\ iterator' = stepListIterator(iterator)
    /\ LET list == iterator.list
       IN /\ pending' = IF list = <<>> THEN pending ELSE RemoveFirst(pending, list[1])
          /\ Call("stepIterator", <<>>, IF list = <<>> THEN <<>> ELSE <<list[1]>>)
    /\ SameTree /\ UNCHANGED lost

FilesInit ==
    /\ dirs = {<<>>} /\ files = {} /\ cwd = <<>>
    /\ iterator = newListIterator("none") /\ pending = <<>> /\ lost = FALSE
    /\ NoCallYet

FilesNext ==
    \/ \E path \in Paths :
          \/ CreateFile(path) \/ CallCreateDirectoryPath(path)
          \/ deleteFile(path) \/ setCurrentDirectory(path)
          \/ newDirectoryIterator(path) \/ newDirectoryTreeIterator(path)
          \/ \E new \in Paths : renameFile(path, new)
    \/ \E search \in SearchPaths : CallFindOnPath(search[1], search[2])
    \/ StepIterator
IteratorNext ==
    \/ \E cmpFn \in {"none", "stringCmpFn"} : NewIterator(cmpFn)
    \/ \E elem \in Elements : AddToIterator(elem)
    \/ StepIterator

------------------------------------------------------------------------------
(* Properties *)

\* createDirectoryPath looks for the slash after the first name too late if that
\* is one letter, and takes the slash for the root off.
MissesFirst(path) ==
    \/ path = <<SlashCh>>
    \/ At(path, 0) # SlashCh /\ At(path, 1) = SlashCh /\ SubSeq(path, 1, 1) # <<DotCh>>

\* A call to createDirectoryPath leaves all directories on the way to path, or it
\* fails because a file is in the way, and has then made no other directories;
\* either way no file is touched, whatever else was called before (filelib.h).
PathMade(path) ==
    /\ files' = files /\ dirs \subseteq dirs' /\ dirs' \subseteq dirs \cup OnTheWay(path)
    /\ answer' = "ok" => OnTheWay(path) \subseteq dirs'
    /\ answer' = "error" => OnTheWay(path) \cap files # {} \/ MissesFirst(path)

\* The tree iterator is filled with each file below the directory once; and the
\* other one with the names in the directory, in order.
Below(dir) == {f \in files : IsPrefix(Resolved(dir), f)}
TreeListed(dir) ==
    /\ {Resolved(pending'[i]) : i \in DOMAIN pending'} = Below(dir)
    /\ Len(pending') = Cardinality(Below(dir))
DirectoryListed(dir) ==
    /\ {pending'[i] : i \in DOMAIN pending'} = {Last(f) : f \in Contents(dir)}
    /\ \A i, j \in DOMAIN pending' : i < j => stringCompare(pending'[i], pending'[j]) = -1

\* A name is found in the first directory of the path that has it, or before it a
\* directory of a user who is not known is an error; an empty
\* entry is none, unless the first entry is one letter long (filelib.c:232).
OnPath(path, filename) ==
    LET entries == CutAt(path, {ColonCh, SemicolonCh})
        names == [n \in DOMAIN entries |-> expandPathname(entries[n] \o <<SlashCh>> \o filename)]
        has == {n \in DOMAIN entries :
                   entries[n] # <<>> /\ (names[n] = Failed \/ fileExists(names[n]))}
    IN IF isAbsolutePath(filename) THEN answer' \in {<<>>, expandPathname(filename)}
       ELSE \/ has # {} /\ answer' = names[Min(has)]
            \/ has = {} /\ answer' = <<>>
            \/ Len(entries[1]) = 1 /\ <<>> \in ToSet(entries)

\* Calls that look at the tree and change it do what filelib.h says, in any order.
FilesAsPromised ==
    [][CASE ask'[1] = "createDirectoryPath" -> PathMade(ask'[2])
         [] ask'[1] = "newDirectoryTreeIterator" -> TreeListed(ask'[2])
         [] ask'[1] = "newDirectoryIterator" -> DirectoryListed(ask'[2])
         [] ask'[1] = "findOnPath" -> OnPath(ask'[2], ask'[3])
         [] OTHER -> TRUE]_filesVars

\* An iterator delivers what was put into it once, in the order of its function
\* or of arrival, whatever becomes of the tree meanwhile: unless something was
\* added after a step had taken the last element (iterator.c:175).
IteratesAll ==
    [][ask'[1] = "stepIterator" /\ ~lost =>
          IF pending = <<>> THEN answer' = <<>>
          ELSE /\ answer' # <<>>
               /\ IF iterator.cmpFn = "none" THEN answer'[1] = pending[1]
                  ELSE \A i \in DOMAIN pending : stringCompare(answer'[1], pending[i]) <= 0]_filesVars
==============================================================================
