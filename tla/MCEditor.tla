------------------------------- MODULE MCEditor -------------------------------
(* The user's events are counted from a computer and a switch joined by a  *)
(* cable, which three events of an empty program lead to.                  *)
EXTENDS Editor

CONSTANTS c1, w1

MCInit == Started(ConnectAllToAll(Create(Create(EmptyProgram, c1, 1, {}), w1, 2, {})))
MCSpec == MCInit /\ [][Next]_vars

=============================================================================
