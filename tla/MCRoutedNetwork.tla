---------------------------- MODULE MCRoutedNetwork ----------------------------
(***************************************************************************)
(* Instances of RoutedNetwork for TLC: A - R1 - R2 - B, with a subnet for  *)
(* each cable, 0 .. 3, 4 .. 7 and 8 .. 11.                                 *)
(***************************************************************************)
EXTENDS RoutedNetwork

MCComputers == {"A", "R1", "R2", "B"}
MCRouters == {"R1", "R2"}
On(ip) == [ip |-> ip, mask |-> 3]
MCInterfacesOf == [c \in MCComputers |->
    CASE c = "A" -> {On(2)} [] c = "R1" -> {On(1), On(5)}
      [] c = "R2" -> {On(6), On(9)} [] c = "B" -> {On(10)}]
Cable == {{1, 2}, {5, 6}, {9, 10}}
MCPeer == [i \in UNION Cable |-> CHOOSE j \in UNION Cable : {i, j} \in Cable]
MCGateway == [r \in MCRouters |-> IF r = "R1" THEN 6 ELSE 5]

Ping(by, dst, count, big, df) ==
    [by |-> by, dst |-> dst, count |-> count, big |-> big, df |-> df]
\* B, of two tries; A; and an address of no subnet, at which both routers
\* point to each other.
MCPings == << Ping("A", 10, 2, TRUE, FALSE), Ping("B", 2, 1, FALSE, FALSE), Ping("A", 12, 1, FALSE, FALSE) >>

ASSUME PingsOfTheInstance == PingsGoToHosts
=============================================================================
