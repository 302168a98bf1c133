----------------------------- MODULE MCFilesystem -----------------------------
(* What is typed: names of things that are there from the start and of new *)
(* ones, from the working directory, its parent and the root, and dots.    *)
(* The commands are counted from two shells, one of them in a directory /tmp/a *)
(* with a file in it.                                                      *)
EXTENDS Filesystem

CONSTANTS n0, n1, n2, n3, n4, n5, n6, sh1, sh2

MCPaths == {<<"a">>, <<"..">>, <<"..", "a">>, <<"a", "tmp">>,
            <<"", "a">>, <<"", "tmp">>, <<"", "etc">>, <<"", "etc", "conf">>,
            <<".">>, <<"", "tmp", ".">>, <<"", "tmp", "..">>}
MCSources == {<<"a">>, <<"..", "a">>, <<"", "tmp">>, <<"", "tmp", "a">>,
              <<"", "tmp", ".">>, <<"", "tmp", "..">>}
MCTrees == {<<"", "a", "tmp">>}
MCConfDirectory == <<"", "etc">>
\* One shell is as good as the other.
Symmetry == Permutations(Shells)
MCInit ==
  /\ heap = [n \in Node |->
       CASE n = n0 -> [NewDirectory(n0, "/", n0, "disk") EXCEPT
                         !.directories = @ @@ [m \in {"etc", "tmp"} |-> IF m = "etc" THEN n1 ELSE n2]]
         [] n = n1 -> NewDirectory(n1, "etc", n0, "disk")
         [] n = n2 -> [NewDirectory(n2, "tmp", n0, "tmp") EXCEPT !.directories = @ @@ [m \in {"a"} |-> n3]]
         [] n = n3 -> [NewDirectory(n3, "a", n2, "disk") EXCEPT !.files = [m \in {"a"} |-> n4]]
         [] n = n4 -> NewFile("a", "text")
         [] OTHER -> None]
  /\ cwd = [sh \in Shells |-> IF sh = sh1 THEN n3 ELSE n0]
  /\ isPoweredOn = TRUE /\ saved = None /\ raised = None /\ moved = {}
  /\ dotsLost = FALSE /\ commands = 0

MCSpec == MCInit /\ [][Next]_vars

=============================================================================
