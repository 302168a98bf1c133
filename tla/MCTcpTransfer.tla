---------------------------- MODULE MCTcpTransfer ----------------------------
(***************************************************************************)
(* Instances of TcpTransfer for TLC: all its constants are numbers and     *)
(* truth values, given in the configurations.                              *)
(***************************************************************************)
EXTENDS TcpTransfer
=============================================================================
