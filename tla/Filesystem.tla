------------------------------ MODULE Filesystem ------------------------------
(***************************************************************************)
(* The file system of one computer and those who use it: the commands of   *)
(* its shells, the settings and servers that keep files of their own,      *)
(* shutdown and startup, and saving and loading the simulation.            *)
(*                                                                         *)
(* A shell keeps its working directory as an object.  Commands that read   *)
(* follow the object; those that create, move and remove turn the path     *)
(* into the text of an absolute one and search it from the root.           *)
(***************************************************************************)
EXTENDS Directories

CONSTANTS
  Shells, Closed,
  Paths,        \* what a user types
  Sources,      \* and what is moved and copied
  Trees,        \* directories a server makes for its files
  ConfDirectory, ConfName,  \* the configuration file with the DNS server
  MaxCommands   \* bound: commands, settings, power and loading

ASSUME FilesystemConstants ==
  /\ Closed \notin Node /\ MaxCommands \in Nat

VARIABLES
  heap,       \* the objects there are
  cwd,        \* the working directory of each open shell
  isPoweredOn,
  saved,      \* what was saved: the objects under the root
  raised,     \* the exception that ended the program
  moved,      \* the directories that were moved to another one
  dotsLost,   \* a "." or ".." was moved, removed or replaced
  commands

vars == <<heap, cwd, isPoweredOn, saved, raised, moved, dotsLost, commands>>

Open == {sh \in Shells : cwd[sh] # Closed}

-----------------------------------------------------------------------------
(* What a command comes to: the new heap, or an exception that ends the    *)
(* program.                                                                *)

Result(h) == [heap |-> h, raised |-> None]
Failure(error) == [heap |-> heap, raised |-> error]

(* Some exceptions are caught and become a message. *)
Unless(error, caught) == IF error \in caught THEN Result(heap) ELSE Failure(error)

Mkdir(c, path) ==
  LET d == DirectoryOf(heap, c, path) name == NameOf(heap, c, path)
  IN IF d \in SearchErrors THEN Unless(d, {NoSuchDirectory})
     ELSE IF name \in DOMAIN heap[d].directories THEN Result(heap)
     ELSE Result(MakeSubDirectory(heap, d, name, "disk"))

Touch(c, path) ==
  LET d == DirectoryOf(heap, c, path) name == NameOf(heap, c, path)
  IN IF ExistsAsFile(heap, c, path) THEN Result(heap)
     ELSE IF d \in SearchErrors THEN Failure(d)
     ELSE IF name \in DOMAIN heap[d].files THEN Failure("FileExistsError")
     ELSE Result(MakeFile(heap, d, name, "empty"))

(* A file is removed before a directory of its name. *)
Rm(c, path, recurse) ==
  LET d == DirectoryOf(heap, c, path) name == NameOf(heap, c, path)
  IN IF d \in SearchErrors THEN Failure(d)
     ELSE IF name \in DOMAIN heap[d].files THEN Result(RemoveFile(heap, d, name))
     ELSE IF recurse /\ name \in DOMAIN heap[d].directories THEN Result(RemoveDirectory(heap, d, name))
     ELSE Result(heap)

SetNameAndLocation(h, item, name, d) == Place([h EXCEPT ![item].name = name], d, name, item)

(* mutant: the item stays where it was *)
LinkFile(c, src, dst) ==
  LET from == DirectoryOf(heap, c, src) to == DirectoryOf(heap, c, dst)
      name == NameOf(heap, c, src) new == NameOf(heap, c, dst)
  IN IF from \in SearchErrors THEN Unless(from, NoSuchItem)
     ELSE IF to \in SearchErrors THEN Unless(to, NoSuchItem)
     ELSE IF name \notin DOMAIN Items(heap, from) THEN Result(heap)
     ELSE Result(SetNameAndLocation(heap, Popped(heap, from, name), new, to))

(* mutant: the item is put in its new place before it leaves the old one *)
PlaceThenPop(c, src, dst) ==
  LET from == DirectoryOf(heap, c, src) to == DirectoryOf(heap, c, dst)
      name == NameOf(heap, c, src) new == NameOf(heap, c, dst)
  IN IF from \in SearchErrors THEN Unless(from, NoSuchItem)
     ELSE IF to \in SearchErrors THEN Unless(to, NoSuchItem)
     ELSE IF name \notin DOMAIN Items(heap, from) THEN Result(heap)
     ELSE Result(Pop(SetNameAndLocation(heap, Popped(heap, from, name), new, to), from, name))

(* Both directories are found before the item leaves the first one.  A     *)
(* directory that is moved keeps its "..".                                 *)
MoveFile(c, src, dst) ==
  LET from == DirectoryOf(heap, c, src) to == DirectoryOf(heap, c, dst)
      name == NameOf(heap, c, src) new == NameOf(heap, c, dst)
  IN IF from \in SearchErrors THEN Unless(from, NoSuchItem)
     ELSE IF to \in SearchErrors THEN Unless(to, NoSuchItem)
     ELSE IF name \notin DOMAIN Items(heap, from) THEN Result(heap)
     ELSE Result(SetNameAndLocation(Pop(heap, from, name), Popped(heap, from, name), new, to))

CopyFile(c, src, dst) ==
  LET from == DirectoryOf(heap, c, src) to == DirectoryOf(heap, c, dst)
      name == NameOf(heap, c, src) new == NameOf(heap, c, dst)
  IN IF from \in SearchErrors THEN Unless(from, {NoSuchFile})
     ELSE IF to \in SearchErrors THEN Unless(to, {NoSuchFile})
     ELSE IF name \notin DOMAIN heap[from].files THEN Result(heap)
     ELSE Result(MakeFile(heap, to, new, heap[heap[from].files[name]].content))

(* output_to_file: the path is followed from the working directory.        *)
Output(c, path) ==
  LET d == DirectoryAt(heap, c, BasePath(path))
  IN IF d \in SearchErrors THEN Failure(d)
     ELSE IF ExistsAsFile(heap, c, path)
          THEN Result([heap EXCEPT ![AtPath(heap, c, path)].content = "text"])
     ELSE Result(MakeFile(heap, d, Last(path), "text"))

(* The configuration is read, changed and written back: what a user wrote  *)
(* there is no configuration (split() gives more than a key and a value).  *)
SetConf ==
  LET d == DirectoryAt(heap, Root, ConfDirectory)
      item == AtAbsolute(heap, Append(ConfDirectory, ConfName))
  IN IF IsDirectory(heap, item) THEN Failure(NotADirectory)
     ELSE IF IsFile(heap, item) /\ heap[item].content = "text" THEN Failure("ValueError")
     ELSE IF d \in SearchErrors THEN Failure(d)
     ELSE IF ConfName \in DOMAIN heap[d].files THEN Result([heap EXCEPT ![item].content = "conf"])
     ELSE Result(MakeFile(heap, d, ConfName, "conf"))

(* create_directory_tree: what is missing below the part of the path that  *)
(* exists.                                                                 *)
MakeTree(path) ==
  LET Prefix(k) == IF k = 1 THEN <<"", "">> ELSE SubSeq(path, 1, k)
      there == Max({k \in 1..Len(path) : AtAbsolute(heap, Prefix(k)) \notin NoSuchItem})
      base == AtAbsolute(heap, Prefix(there))
      make(at, name) == LET h == MakeSubDirectory(at.heap, at.in, name, "disk")
                        IN [heap |-> h, in |-> h[at.in].directories[name]]
  IN IF IsFile(heap, base) THEN Failure(NotADirectory)
     ELSE Result(FoldLeft(make, [heap |-> heap, in |-> base], SubSeq(path, there + 1, Len(path))).heap)

(* mutant: only what stands in the root is looked at *)
WipedOnTop(h) ==
  FoldSet(LAMBDA d, g : IF g[d].mount = "tmp" THEN Wipe(g, d) ELSE g, h, Range(Contained(h, Root)))

(* Everything in a temporary directory goes, wherever it is. *)
WipedTemporary(h) ==
  FoldSet(LAMBDA d, g : IF IsDirectory(g, d) /\ g[d].mount = "tmp" THEN Wipe(g, d) ELSE g,
          h, Below(h, Root) \ {Root})

-----------------------------------------------------------------------------
(* The steps. *)

DirectoryNamed(c, path) ==
  LET d == DirectoryOf(heap, c, path) name == NameOf(heap, c, path)
  IN IF d \in Node /\ name \in DOMAIN heap[d].directories THEN {heap[d].directories[name]} ELSE {}

MovedBy(c, src, dst) ==
  IF DirectoryOf(heap, c, dst) \in Node \ {DirectoryOf(heap, c, src)} THEN DirectoryNamed(c, src) ELSE {}

(* An absolute path is never resolved: one that ends in a dot names the    *)
(* entry "." or ".." of a directory, which mv and rm -r treat as any       *)
(* other.  After they moved, removed or replaced one there is no tree:     *)
(* paths, wiping and saving may not come to an end.  What the program does *)
(* then is not modelled.                                                   *)
Dotted(path) == IsAbsolute(path) /\ Last(path) \in {".", ".."}
MovesDots(c, src, dst) ==
  Dotted(src) \/ (Dotted(dst) /\ NameOf(heap, c, src) \in DOMAIN heap[DirectoryOf(heap, c, src)].directories)
RemovesDots(c, path) == Dotted(path) /\ Last(path) \notin DOMAIN heap[DirectoryOf(heap, c, path)].files

Runs == raised = None /\ ~dotsLost
Command == /\ Runs /\ commands < MaxCommands /\ commands' = commands + 1

(* The nodes of what nobody can reach any more are used again. *)
Keep(h, used, wasMoved) ==
  /\ heap' = Collected(h, {Root} \cup used)
  /\ moved' = {d \in wasMoved : heap'[d] # None}

Used == {cwd[sh] : sh \in Open}

(* A command that changes nothing is not counted. *)
Become(result, newlyMoved, losesDots) ==
  /\ Command /\ result # Result(heap)
  /\ raised' = result.raised
  /\ dotsLost' = (result.raised = None /\ losesDots)
  /\ Keep(result.heap, Used, moved \cup newlyMoved)
  /\ UNCHANGED <<cwd, isPoweredOn, saved>>

Execute(sh, result) == sh \in Open /\ Become(result, {}, FALSE)

Room == Free(heap) # {}

MkdirCommand(sh, path) == Room /\ Execute(sh, Mkdir(cwd[sh], path))
TouchCommand(sh, path) == Room /\ Execute(sh, Touch(cwd[sh], path))
RmCommand(sh, path, recurse) ==
  sh \in Open /\ Become(Rm(cwd[sh], path, recurse), {}, recurse /\ RemovesDots(cwd[sh], path))
Redirect(sh, path) == Room /\ Execute(sh, Output(cwd[sh], path))
CpCommand(sh, src, dst) == Room /\ Execute(sh, CopyFile(cwd[sh], src, dst))
MvCommand(sh, src, dst) ==
  sh \in Open /\ Become(MoveFile(cwd[sh], src, dst), MovedBy(cwd[sh], src, dst), MovesDots(cwd[sh], src, dst))

CdCommand(sh, path) ==
  LET d == DirectoryAt(heap, cwd[sh], path) IN
  /\ sh \in Open /\ Command
  /\ d # cwd[sh] /\ d \notin NoSuchItem
  /\ IF d \in SearchErrors THEN raised' = d /\ UNCHANGED <<heap, cwd, moved>>
     ELSE /\ cwd' = [cwd EXCEPT ![sh] = d] /\ UNCHANGED raised
          /\ Keep(heap, {cwd'[o] : o \in Open}, moved)
  /\ UNCHANGED <<isPoweredOn, saved, dotsLost>>

SetDnsServer == Room /\ Become(SetConf, {}, FALSE)

StartServer(path) ==
  isPoweredOn /\ Cardinality(Free(heap)) >= Len(path) - 1 /\ Become(MakeTree(path), {}, FALSE)

OpenShell(sh) ==
  /\ Runs /\ isPoweredOn /\ cwd[sh] = Closed
  /\ cwd' = [cwd EXCEPT ![sh] = Root]
  /\ UNCHANGED <<heap, isPoweredOn, saved, raised, moved, dotsLost, commands>>

ExitShell(sh) ==
  /\ Runs /\ sh \in Open
  /\ cwd' = [cwd EXCEPT ![sh] = Closed]
  /\ Keep(heap, {cwd[o] : o \in Open \ {sh}}, moved)
  /\ UNCHANGED <<isPoweredOn, saved, raised, dotsLost, commands>>

(* The shells of a computer are closed when it is switched off. *)
CloseAllShells == cwd' = [sh \in Shells |-> Closed]

PowerOff ==
  /\ Command /\ isPoweredOn /\ isPoweredOn' = FALSE
  /\ CloseAllShells
  /\ Keep(WipedTemporary(heap), {}, moved)
  /\ UNCHANGED <<saved, raised, dotsLost>>

PowerOn ==
  /\ Runs /\ ~isPoweredOn /\ isPoweredOn' = TRUE
  /\ UNCHANGED <<heap, cwd, saved, raised, moved, dotsLost, commands>>

Tree(h) == [n \in Node |-> IF n \in Below(h, Root) THEN h[n] ELSE None]

Save ==
  /\ Command /\ saved' = Tree(heap) /\ saved' # saved
  /\ UNCHANGED <<heap, cwd, isPoweredOn, raised, moved, dotsLost>>

(* Every directory becomes the parent of those in it. *)
Loaded(h) ==
  [n \in Node |->
     IF n = Root \/ ~IsDirectory(h, n) THEN h[n]
     ELSE [h[n] EXCEPT !.directories[".."] = CHOOSE d \in Node : IsDirectory(h, d) /\ n \in Range(Contained(h, d))]]

Load ==
  /\ Command /\ saved # None /\ heap' = Loaded(saved)
  /\ cwd' = [sh \in Shells |-> Closed] /\ isPoweredOn' = TRUE /\ moved' = {}
  /\ UNCHANGED <<saved, raised, dotsLost>>

(* What with_default_dirs makes, as far as it matters here. *)
Init ==
  \E etc, tmp \in Node \ {Root} :
    /\ <<etc, tmp>> = CHOOSE pair \in (Node \ {Root}) \X (Node \ {Root}) : pair[1] # pair[2]
    /\ heap = Place(Place([n \in Node |->
                 CASE n = Root -> NewDirectory(Root, "/", Root, "disk")
                   [] n = etc -> NewDirectory(etc, "etc", Root, "disk")
                   [] n = tmp -> NewDirectory(tmp, "tmp", Root, "tmp")
                   [] OTHER -> None], Root, "etc", etc), Root, "tmp", tmp)
    /\ cwd = [sh \in Shells |-> Closed]
    /\ isPoweredOn = TRUE /\ saved = None /\ raised = None /\ moved = {}
    /\ dotsLost = FALSE /\ commands = 0

Next ==
  \/ \E sh \in Shells : OpenShell(sh) \/ ExitShell(sh)
  \/ \E sh \in Open, path \in Paths :
       \/ MkdirCommand(sh, path) \/ TouchCommand(sh, path) \/ Redirect(sh, path)
       \/ CdCommand(sh, path) \/ \E recurse \in BOOLEAN : RmCommand(sh, path, recurse)
  \/ \E sh \in Open, src, dst \in Sources : MvCommand(sh, src, dst) \/ CpCommand(sh, src, dst)
  \/ SetDnsServer \/ (\E path \in Trees : StartServer(path))
  \/ PowerOff \/ PowerOn \/ Save \/ Load

Spec == Init /\ [][Next]_vars

-----------------------------------------------------------------------------
(* Properties. *)

Alive == {n \in Node : heap[n] # None}

(* Type invariant.                                                         *)
TypeOK ==
  /\ \A n \in Alive : heap[n].kind \in {"directory", "file"}
  /\ \A d \in Alive : IsDirectory(heap, d) =>
       /\ {".", ".."} \subseteq DOMAIN heap[d].directories
       /\ heap[d].directories["."] = d /\ IsDirectory(heap, Parent(heap, d))
       /\ \A sub \in Range(heap[d].directories) : IsDirectory(heap, sub)
       /\ \A file \in Range(heap[d].files) : IsFile(heap, file)
  /\ \A sh \in Open : IsDirectory(heap, cwd[sh])
  /\ isPoweredOn \in BOOLEAN /\ moved \subseteq Alive /\ dotsLost = FALSE /\ commands \in 0..MaxCommands

Reachable == Below(heap, Root)
Places(n, ds) ==
  UNION {LET dirs == Contained(heap, d) files == heap[d].files
         IN {<<d, name>> : name \in {m \in DOMAIN dirs : dirs[m] = n} \cup {m \in DOMAIN files : files[m] = n}}
         : d \in {e \in ds : IsDirectory(heap, e)}}

(* Whatever is moved, copied and removed, into itself or over something    *)
(* else, by two shells: what is reachable from the root is a tree, every   *)
(* object in one place under its own name, so that saving it and wiping    *)
(* the temporary directories, which walk it to the end, come to one.       *)
ReachableIsTree ==
  LET ds == Reachable IN
  \A n \in ds : LET places == Places(n, ds)
                IN IF n = Root THEN places = {} ELSE \E d \in ds : places = {<<d, heap[n].name>>}

(* A directory whose ".." is not the directory it is in has been moved     *)
(* since it was made or loaded (_set_new_item_name_and_location leaves     *)
(* ".." alone, from_dict_load sets it).                                    *)
OnlyMovedAreStale ==
  \A d \in Reachable \ {Root} :
    IsDirectory(heap, d) /\ d \notin moved => d \in Range(Contained(heap, Parent(heap, d)))

(* The files are well formed, from above and from below, and stay so       *)
(* whatever is typed, but for one thing: an absolute path that ends in     *)
(* "." or "..", given to mv or to rm -r.  With mv /tmp/.. /tmp/x the root  *)
(* is below /tmp, with mv /tmp/. /b there is /tmp in two places.           *)
FilesAreATree == dotsLost \/ (TypeOK /\ ReachableIsTree /\ OnlyMovedAreStale)

(* When a computer has been switched off, every directory of a temporary   *)
(* file system is empty, wherever it was moved to.                         *)
TemporaryIsWiped ==
  [][PowerOff => \A d \in Below(heap', Root) :
                   IsDirectory(heap', d) /\ heap'[d].mount = "tmp" =>
                     heap'[d].files = <<>> /\ Contained(heap', d) = <<>>]_vars

(* A working directory whose path leads to it, and whose parent's does.    *)
Leads(d) == AtAbsolute(heap, FullPath(heap, d)) = d
GoodCwd(c) == Leads(c) /\ Leads(Parent(heap, c))

(* A path whose last part is a name, in a directory that exists.  (The     *)
(* text of touch . in /tmp/a is that of touch /tmp/a, and the file is not  *)
(* found at ".".)  From the root, a relative path with a separator in it   *)
(* is never found.                                                         *)
GoodPath(c, path) ==
  /\ Last(path) \notin {".", ".."} /\ DirectoryAt(heap, c, BasePath(path)) \in Node
  /\ c = Root /\ ~IsAbsolute(path) => Len(path) = 1

(* Commands find the same things, whether they follow the working          *)
(* directory or the text of its path: with a path that ends in a name and  *)
(* leads to an existing directory none ends the program, and what mkdir,   *)
(* touch and > make is found at the path that was given.                   *)
FoundWhereItWasPut ==
  Runs /\ Room =>
    \A c \in Used, path \in Paths :
      GoodCwd(c) /\ GoodPath(c, path) =>
        /\ \A result \in {Touch(c, path), Output(c, path)} :
             result.raised = None /\ ExistsAsFile(result.heap, c, path)
        /\ LET result == Mkdir(c, path) IN result.raised = None /\ AtPath(result.heap, c, path) \in Node
        /\ \A recurse \in BOOLEAN : Rm(c, path, recurse).raised = None

(* A directory leaves the tree only with what rm -r removes, mv replaces   *)
(* or a shutdown wipes, when a saved tree is loaded, or in the two ways mv *)
(* may lose one: it is moved into itself, or one of the two paths is       *)
(* absolute and ends in a dot (mv /etc /tmp/.. makes /etc the parent of    *)
(* /tmp, where nothing walks down to it).                                  *)
DirectoriesIn(h) == {d \in Below(h, Root) : IsDirectory(h, d)}
Subtrees(ds) == UNION {Below(heap, d) : d \in ds}
Replaced(c, src, dst) == Subtrees(DirectoryNamed(c, dst)) \ Subtrees(DirectoryNamed(c, src))
IntoItself(c, src, dst) ==
  DirectoryOf(heap, c, dst) \in Subtrees(DirectoryNamed(c, src))
Temporary == UNION {Below(heap, d) \ {d} : d \in {e \in Alive : IsDirectory(heap, e) /\ heap[e].mount = "tmp"}}

NoDirectoryLost ==
  [][LET lost == DirectoriesIn(heap) \ DirectoriesIn(heap') IN
       \/ heap' = heap \/ lost = {} \/ Load
       \/ PowerOff /\ lost \subseteq Temporary
       \/ \E sh \in Open :
            \/ \E path \in Paths : RmCommand(sh, path, TRUE) /\ lost \subseteq Subtrees(DirectoryNamed(cwd[sh], path))
            \/ \E src, dst \in Sources :
                 /\ MvCommand(sh, src, dst)
                 /\ \/ lost \subseteq Replaced(cwd[sh], src, dst)
                    \/ IntoItself(cwd[sh], src, dst) \/ Dotted(src) \/ Dotted(dst)]_vars

=============================================================================
