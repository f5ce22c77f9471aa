------------------------------- MODULE LinkMC -------------------------------
(***************************************************************************)
(* Link with a PausePressed (12 bytes) and a SetPlayerIndex packet (16).   *)
(***************************************************************************)
EXTENDS Link

CONSTANTS pause, index

MCPacket == {pause, index}
MCSizeOf == [p \in MCPacket |-> IF p = pause THEN 12 ELSE 16]
=============================================================================
