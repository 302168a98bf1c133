------------------------- MODULE MCProcessScheduler -------------------------
(***************************************************************************)
(* Instances of ProcessScheduler for TLC.  The process instances are       *)
(* interchangeable, so Proc is a symmetry set wherever no liveness         *)
(* property is checked.                                                    *)
(***************************************************************************)
EXTENDS ProcessScheduler, TLC

\* An ordinary computer has no startup process, a switch has one.
NoStartup == <<>>
SwitchStartup == <<"kernelmode">>

Symmetry == Permutations(Proc)

Usermode == {"usermode"}

\* Every WaitingFor a process can yield, and one that can come to an end in
\* two ways: by a packet and by its timeout.
AllYields == {w \in WaitingFor : w.timeout # "passed"}
Replies == {[packet |-> TRUE, timeout |-> "running"]}

\* The commands given from a shell and from a watch command.
Gentle == {"kill -9", "power"}
None == {}
OnlyKill9 == {"kill -9"}
OnlyKill == {"kill"}
OnlyPower == {"power"}
EveryCommand == Commands
=============================================================================
