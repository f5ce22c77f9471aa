----------------------------- MODULE BTFilterMC -----------------------------
(***************************************************************************)
(* A Wii Remote and another device, with pieces that end before, inside    *)
(* and after every field the filter looks at.                              *)
(***************************************************************************)
EXTENDS BTFilter

CONSTANTS wiimote, phone

MCDevices == {wiimote, phone}
MCWii     == {wiimote}
MCChunks  == {1, 12, 17, 32, 240, 258}
=============================================================================
