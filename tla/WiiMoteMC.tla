----------------------------- MODULE WiiMoteMC ------------------------------
(***************************************************************************)
(* WiiMote for TLC.                                                        *)
(***************************************************************************)
EXTENDS WiiMote

MCIndices    == {-1, 0, 2}
MCOnePlayer  == {-1, 1}
=============================================================================
