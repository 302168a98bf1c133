--------------------------- MODULE MCBridgedNetwork ---------------------------
(***************************************************************************)
(* Instances of BridgedNetwork for TLC.                                    *)
(***************************************************************************)
EXTENDS BridgedNetwork

MCSwitches == 1 .. 3
MCCables == 1 .. 3
MCEnds == <<{1, 2}, {1, 3}, {2, 3}>>
MCPathCost == <<1, 1, 1>>
MCBid == <<1, 2, 3>>
MCHosts == {11, 12}
MCSwitchOf == [h \in MCHosts |-> IF h = 11 THEN 1 ELSE 3]
=============================================================================
