---------------------------- MODULE MFiWrapperMC ----------------------------
(***************************************************************************)
(* Small instances of MFiWrapper for TLC.                                  *)
(***************************************************************************)
EXTENDS MFiWrapper, TLC

CONSTANTS pad1, pad2, unknownPad, released, pressed

MCTwoPads    == {pad1, pad2, unknownPad}
MCOnePad     == {pad1}
MCRecognised == {pad1, pad2}
MCInputs     == {released, pressed}
MCOneInput   == {released}
MCIndices    == {-1, 0}
MCUnsetOnly  == {-1}
Symmetry     == Permutations(MCRecognised)
=============================================================================
