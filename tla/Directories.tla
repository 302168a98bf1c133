----------------------------- MODULE Directories -----------------------------
(***************************************************************************)
(* The directories and files of a computer (directory.py, file.py) and the *)
(* paths that lead to them (filesystem.py).  Objects live in a heap: a     *)
(* function from Node to a directory, a file or None.  As in the code a    *)
(* directory holds itself as "." and a parent as "..", in the same         *)
(* dictionary as its sub directories, and its files in another one.        *)
(*                                                                         *)
(* A path is the sequence of what stands between its separators, so an     *)
(* absolute path starts with "" and the root is <<"", "">>.  A search      *)
(* gives a node or the exception it raises.                                *)
(***************************************************************************)
EXTENDS Naturals, Sequences, SequencesExt, FiniteSetsExt, Functions

CONSTANTS
  Node,         \* the objects there may be at a time: a bound
  Root,         \* the root directory
  None,
  NoSuchDirectory, NoSuchFile, NotADirectory, BadPath  \* what a search may raise

ASSUME DirectoriesConstants ==
  /\ Root \in Node /\ None \notin Node
  /\ {NoSuchDirectory, NoSuchFile, NotADirectory, BadPath} \cap Node = {}

NoSuchItem == {NoSuchDirectory, NoSuchFile}
SearchErrors == NoSuchItem \cup {NotADirectory, BadPath}

NewDirectory(d, name, parent, mount) ==
  [kind |-> "directory", name |-> name, mount |-> mount, files |-> <<>>,
   directories |-> [n \in {".", ".."} |-> IF n = "." THEN d ELSE parent]]

NewFile(name, content) == [kind |-> "file", name |-> name, content |-> content]

IsDirectory(h, d) == d \in Node /\ h[d] # None /\ h[d].kind = "directory"
IsFile(h, f) == f \in Node /\ h[f] # None /\ h[f].kind = "file"
Parent(h, d) == h[d].directories[".."]
Contained(h, d) == Restrict(h[d].directories, DOMAIN h[d].directories \ {".", ".."})

(* A file hides a directory of the same name. *)
Items(h, d) == h[d].files @@ h[d].directories

-----------------------------------------------------------------------------
(* Paths. *)

IsAbsolute(path) == Len(path) > 1 /\ path[1] = ""

FullPath(h, d) ==
  LET path[e \in Node] == IF Parent(h, e) = e THEN <<"", "">>
                          ELSE IF Parent(h, e) = Root THEN <<"", h[e].name>>
                          ELSE Append(path[Parent(h, e)], h[e].name)
  IN path[d]

(* mutant: ".." stays where it is *)
StayAtDots(h, cwd, path) ==
  IF IsAbsolute(path) THEN path ELSE FullPath(h, cwd) \o SelectSeq(path, LAMBDA name : name \notin {".", ".."})

(* Works on the text of the path: at the root, whose text ends with the    *)
(* separator, the result has an empty name in it.                          *)
AbsoluteFromRelative(h, cwd, path) ==
  IF IsAbsolute(path) THEN path
  ELSE FoldLeft(LAMBDA p, name : CASE name = "." -> p
                                   [] name = ".." -> IF Len(p) = 1 THEN p ELSE Front(p)
                                   [] OTHER -> Append(p, name),
                FullPath(h, cwd), path)

BasePath(path) ==
  IF Len(path) = 1 THEN <<".">> ELSE IF Len(path) = 2 /\ path[1] = "" THEN <<"", "">> ELSE Front(path)

AtRelative(h, d, path) ==
  LET at == FoldLeft(LAMBDA e, name : IF e # NoSuchDirectory /\ name \in DOMAIN h[e].directories
                                      THEN h[e].directories[name] ELSE NoSuchDirectory,
                     d, Front(path))
  IN IF at = NoSuchDirectory THEN NoSuchDirectory
     ELSE IF Last(path) \in DOMAIN Items(h, at) THEN Items(h, at)[Last(path)] ELSE NoSuchFile

(* A path with a separator at its end is cut down to its first letter,     *)
(* which is the dot put in front of it.                                    *)
AtAbsolute(h, path) ==
  IF ~IsAbsolute(path) THEN BadPath
  ELSE AtRelative(h, Root, IF Last(path) = "" THEN <<".">> ELSE <<".">> \o Tail(path))

AtPath(h, cwd, path) == IF IsAbsolute(path) THEN AtAbsolute(h, path) ELSE AtRelative(h, cwd, path)

OrNotADirectory(h, item) == IF IsFile(h, item) THEN NotADirectory ELSE item
DirectoryAt(h, cwd, path) == OrNotADirectory(h, AtPath(h, cwd, path))

ExistsAsFile(h, cwd, path) == IsFile(h, AtPath(h, cwd, path))

(* filename_and_dir_from_path *)
DirectoryOf(h, cwd, path) ==
  OrNotADirectory(h, AtAbsolute(h, BasePath(AbsoluteFromRelative(h, cwd, path))))
NameOf(h, cwd, path) == Last(AbsoluteFromRelative(h, cwd, path))

-----------------------------------------------------------------------------
(* Changes.  A new object takes a node nothing lives in.                   *)

Free(h) == {n \in Node : h[n] = None}

(* The rest of h is nowhere but in its nodes. *)
Place(h, d, name, item) ==
  IF h[item].kind = "directory" THEN [h EXCEPT ![d].directories = [n \in {name} |-> item] @@ @]
  ELSE [h EXCEPT ![d].files = [n \in {name} |-> item] @@ @]

MakeSubDirectory(h, d, name, mount) ==
  LET n == CHOOSE n \in Free(h) : TRUE
  IN Place([h EXCEPT ![n] = NewDirectory(n, name, d, mount)], d, name, n)

MakeFile(h, d, name, content) ==
  LET n == CHOOSE n \in Free(h) : TRUE
  IN Place([h EXCEPT ![n] = NewFile(name, content)], d, name, n)

RemoveFile(h, d, name) == [h EXCEPT ![d].files = Restrict(@, DOMAIN @ \ {name})]
RemoveDirectory(h, d, name) == [h EXCEPT ![d].directories = Restrict(@, DOMAIN @ \ {name})]

Pop(h, d, name) ==
  IF name \in DOMAIN h[d].directories THEN RemoveDirectory(h, d, name) ELSE RemoveFile(h, d, name)
Popped(h, d, name) ==
  IF name \in DOMAIN h[d].directories THEN h[d].directories[name] ELSE h[d].files[name]

Wipe(h, d) ==
  [h EXCEPT ![d].files = <<>>, ![d].directories = Restrict(@, {".", ".."})]

-----------------------------------------------------------------------------
(* What can be reached. *)

Step(h, from) ==
  from \cup UNION {Range(h[d].directories) \cup Range(h[d].files) : d \in {d \in from : IsDirectory(h, d)}}
StepDown(h, from) ==
  from \cup UNION {Range(Contained(h, d)) \cup Range(h[d].files) : d \in {d \in from : IsDirectory(h, d)}}

Reached(h, from) ==
  LET all[s \in SUBSET Node] == LET next == Step(h, s) IN IF next = s THEN s ELSE all[next]
  IN all[from]
Below(h, d) ==
  LET all[s \in SUBSET Node] == LET next == StepDown(h, s) IN IF next = s THEN s ELSE all[next]
  IN all[{d}]

Collected(h, used) ==
  LET live == Reached(h, used) IN [n \in Node |-> IF n \in live THEN h[n] ELSE None]

=============================================================================
