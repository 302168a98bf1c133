------------------------- MODULE MCWirelessFrequency -------------------------
(***************************************************************************)
(* Two stations, each at one of two places that are two units from each    *)
(* other (the unit is ten pixels): a growing circle may meet a station     *)
(* exactly on its line or jump over it.                                    *)
(***************************************************************************)
EXTENDS WirelessFrequency

MCPlaces == {0, 2}
=============================================================================
