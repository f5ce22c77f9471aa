------------------------------- MODULE PadsMC -------------------------------
(***************************************************************************)
(* Two pads of any two kinds; 256 is the smallest index that a uint8_t     *)
(* takes for a player.                                                     *)
(***************************************************************************)
EXTENDS Pads

CONSTANTS pad1, pad2

MCPads    == {pad1, pad2}
MCIndices == {-1, 1, 256}
=============================================================================
