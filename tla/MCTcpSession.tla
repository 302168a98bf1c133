------------------------------ MODULE MCTcpSession ------------------------------
(***************************************************************************)
(* Instances of TcpSession for TLC.                                        *)
(***************************************************************************)
EXTENDS TcpSession

MCSockets == 1 .. 4
=============================================================================
