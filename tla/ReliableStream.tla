---------------------------- MODULE ReliableStream ----------------------------
(***************************************************************************)
(* What a TCP session promises to the two applications: a stream of        *)
(* segments that are read in the order they were written, each of them     *)
(* once, and each of them some day.                                        *)
(***************************************************************************)
EXTENDS Naturals, Sequences

CONSTANT Segments   \* how many segments are written: a bound

VARIABLES
    written,  \* how many segments one application has written
    read      \* the segments the other has read

streamVars == <<written, read>>

Init == written = 0 /\ read = <<>>

Write == written < Segments /\ written' = written + 1 /\ UNCHANGED read

Read ==
    \E n \in Len(read) + 1 .. written :
        /\ read' = [i \in 1 .. n |-> i]
        /\ UNCHANGED written

Spec == Init /\ [][Write \/ Read]_streamVars

FairSpec == Spec /\ WF_streamVars(Read)

=============================================================================
