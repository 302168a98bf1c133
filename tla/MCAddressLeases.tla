---------------------------- MODULE MCAddressLeases ----------------------------
(* Two computers and two routers, of which one is switched off at first.   *)
(* The subnet has three addresses beyond the first router's.               *)
EXTENDS AddressLeases

CONSTANTS c1, c2, r1, r2

MCOwnAddress == [s \in Servers |-> IF s = r1 THEN 1 ELSE 2]

=============================================================================
